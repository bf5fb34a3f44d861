------------------------------ MODULE DcsFresh ------------------------------
(***************************************************************************)
(* Theorems about module Dcs, under the assumptions of DcsSafety: a session *)
(* that got the page sees its last change, no knl_panic fires, and the      *)
(* cluster implements the one coherent page of module CoherentPage.         *)
(***************************************************************************)
EXTENDS DcsSafety

-----------------------------------------------------------------------------
(***************************************************************************)
(* The inductive invariant.                                                *)
(***************************************************************************)
Busy(i) == ses[i].st \in {"ask", "got"}

\* A block has the newest page exactly while it has a lock, or its session is
\* about to load it; no block has a newer one.
BlockOK(i) ==
    /\ ctrl[i].load = "loaded" => ctrl[i].lock # DRC_LOCK_NULL /\ ctrl[i].lsn = Latest
    /\ ctrl[i].lock # DRC_LOCK_NULL =>
         ctrl[i].load = "loaded" \/ (ctrl[i].load = "need" /\ ses[i].st = "got")
    /\ Busy(i) => ctrl[i].load # "failed"
    /\ ctrl[i].inmem /\ ~ Busy(i) => ctrl[i].load # "need"
    /\ ctrl[i].lsn <= Latest
    /\ ctrl[i].edp => ctrl[i].dirty /\ ctrl[i].inmem
Blocks == \A i \in Inst : BlockOK(i)

\* Instance i is the owner, or has taken the page exclusively from the owner.
XClaim(i) == \E m \in msgs : m.t = "claim" /\ m.inst = i /\ m.mode = DRC_LOCK_EXCLUSIVE
Place(i) == i = res.owner \/ XClaim(i)

\* The block has changes that are to be written by its own instance.
Unsaved(c) == (c.dirty /\ ~ c.edp) \/ c.rdirty

\* Only the owner has changes to write; a write of an older page is followed
\* by another one.
WriterOK(i) ==
    /\ ctrl[i].lock = DRC_LOCK_EXCLUSIVE => Place(i)
    /\ Unsaved(ctrl[i]) => ctrl[i].lock # DRC_LOCK_NULL /\ Place(i)
    /\ mark[i] # 0 => /\ ctrl[i].lock # DRC_LOCK_NULL
                      /\ mark[i] = Latest \/ (ctrl[i].dirty /\ ~ ctrl[i].edp)
Writers == \A i \in Inst : WriterOK(i)

\* A request says which lock its instance has while it waits for the answer.
Tells(r) == r.curr = ctrl[r.inst].lock /\ r.lsn <= Latest /\ r.sn = sn[r.inst]
Truthful ==
    /\ \A m \in msgs : m.t \in {"ask", "own"} => Tells(m.req)
    /\ \A r \in inv : Serves(r) => Tells(r.req)
    /\ \A n \in 1 .. Len(res.q) : Tells(res.q[n])
    /\ \A m \in msgs : m.t = "page" /\ m.flag = "r2x" => ctrl[m.to].lock = DRC_LOCK_SHARE
    /\ \A m \in msgs : m.t = "own" => ~ m.retry
    /\ \A r \in inv : ~ r.retry

\* A page that is sent is the newest one; claims come with growing lsns.
Lsns ==
    /\ \A m \in msgs : m.t = "page" /\ m.flag = "page" => m.lsn = Latest
    /\ \A m \in msgs : m.t = "page" /\ m.flag = "need" => ~ m.dirty
    /\ res.lsn <= Latest
    /\ \A m \in msgs : m.t = "claim" => m.lsn <= Latest /\ (m.lsn > 0 => res.lsn <= m.lsn)
    /\ \A m \in msgs : m.t = "claim" /\ m.mode = DRC_LOCK_EXCLUSIVE /\ m.edp => m.lsn > 0

\* Somebody loads the page, or was told to: then the disk has the newest one,
\* and no write of an older one is under way.
Loads == \/ \E i \in Inst : ses[i].st = "got" /\ ctrl[i].load = "need"
         \/ \E m \in msgs : m.t = "load" \/ (m.t = "page" /\ m.flag = "need")
Stored == disk = Latest /\ \A i \in Inst : mark[i] \in {0, Latest}

\* The newest page is on disk, or on its way to a new owner that will write
\* it, or with the owner, who will write it or is about to.
XPage(m) == m.t = "page" /\ m.mode = DRC_LOCK_EXCLUSIVE
Keeps(i) == ctrl[i].load = "loaded" /\ (Unsaved(ctrl[i]) \/ mark[i] = Latest)
Keeper(i) == /\ Keeps(i)
             /\ XClaim(i) \/ (i = res.owner /\ \A j \in Inst : ~ XClaim(j))
Kept == \/ disk = Latest
        \/ \E m \in msgs : XPage(m) /\ (m.dirty \/ m.rdirty)
        \/ (\A m \in msgs : ~ XPage(m)) /\ \E i \in Inst : Keeper(i)

\* An owner keeps an early dirty page only until the new owner's claim, or
\* until it takes the grant.
Leaving(m) == \/ XPage(m) \/ m.t = "load"
              \/ m.t = "claim" /\ m.mode = DRC_LOCK_EXCLUSIVE
OwnerClean == \A i \in Inst : i = res.owner /\ ctrl[i].edp => \E m \in msgs : Leaving(m)
\* A new owner claims the page without one.
ClaimsClean == \A i \in Inst : XClaim(i) => ~ ctrl[i].edp

Flow == Lsns /\ (Loads => Stored) /\ Kept /\ OwnerClean /\ ClaimsClean

\* A recycling round remembers the copies of the entry; what is converted is
\* worked on.
Recycles == \A r \in inv : IsRecycle(r) => r.copies = res.copies /\ r.owner \notin r.wait
Served == Converting(res) => \/ \E m \in msgs : m.t \in {"own", "already", "page", "claim"}
                             \/ \E r \in inv : Serves(r)

Current == Blocks /\ Writers /\ Truthful /\ Flow /\ Recycles /\ Served /\ ~ panic

-----------------------------------------------------------------------------
(***************************************************************************)
(* What the invariants say together.                                       *)
(***************************************************************************)
\* A page that is on its way, or a lock that its owner is told of, is the only
\* work on a request.
LEMMA RestAnswer ==
    ASSUME IInv, Safe, NEW m \in msgs, m.t \in {"already", "page"}
    PROVE  AtRest(msgs \ {m}) /\ inv = {}
<1>1. TypeOK /\ Ordered /\ Global /\ Claims /\ EntrySound /\ RoundsSound
  BY SafeParts DEF IInv, CatalogueSound
<1>2. m.to \in Inst /\ res.conv.inst = m.to
  BY <1>1, MsgFields DEF TypeOK, Global, Serving
<1> DEFINE i == m.to
<1>3. i \in Inst /\ Token(m) /\ For(m) = i /\ Orderly(i)
  BY <1>1, <1>2, ForWhom DEF Ordered, Replies
<1>4. /\ \A x \in msgs : Token(x) /\ For(x) = i => x = m
      /\ \A r \in inv : ~ (Serves(r) /\ r.req.inst = i)
  BY <1>3, OnlyMsg
<1>5. \A n \in msgs : n.t # "claim"
  <2>1. m \in MsgFor(i)
    BY <1>3 DEF MsgFor
  <2> QED BY <1>1, <1>2, <2>1 DEF Claims
<1>6. ASSUME NEW n \in msgs, n # m, n.t \in {"own", "already", "page"}
      PROVE  FALSE
  <2>1. Token(n) /\ For(n) = i
    BY <1>1, <1>2, <1>6, ForWhom DEF Global, Serving, Replies
  <2> QED BY <1>4, <1>6, <2>1
<1>7. \A r \in inv : ~ Serves(r)
  BY <1>1, <1>2, <1>4 DEF Global, Serving
<1>8. ~ res.pending
  <2>1. Converting(res)
    BY <1>1, <1>2, NoInstAssumption DEF Converting, NoReq
  <2> QED BY <1>1, <2>1 DEF EntrySound
<1>9. inv = {}
  BY <1>1, <1>7, <1>8 DEF RoundsSound, Serves
<1> QED BY <1>5, <1>6, <1>9 DEF AtRest

\* The lsns are numbers.
LEMMA LsnTypes ==
    ASSUME TypeOK
    PROVE  /\ Latest \in Nat /\ Latest > 0 /\ disk \in Nat
           /\ \A i \in Inst : ctrl[i] \in BufCtrl /\ ctrl[i].lsn \in Nat /\ mark[i] \in Nat
BY DEF TypeOK, Latest, BufCtrl

\* An instance that may use the page and has an early dirty page is no place
\* of the newest page.
LEMMA PlaceClean ==
    ASSUME Safe, ~ panic, NEW i \in Inst, ctrl[i].lock # DRC_LOCK_NULL, Place(i)
    PROVE  ~ ctrl[i].edp
BY DEF Safe, EdpSound, Place, XClaim

\* Messages stay that were not consumed, and those sent are delivered that no
\* session has given up.
LEMMA Delivered ==
    ASSUME NEW m, NEW S
    PROVE  /\ Exchange(m, S) => /\ \A n \in msgs : n # m => n \in msgs'
                                /\ \A n \in S : n.t \notin Replies \/ n.sn = sn[n.to] => n \in msgs'
           /\ Send(S) => /\ \A n \in msgs : n \in msgs'
                         /\ \A n \in S : n.t \notin Replies \/ n.sn = sn[n.to] => n \in msgs'
BY DEF Exchange, Send, Live, Replies

-----------------------------------------------------------------------------
(***************************************************************************)
(* Steps that leave parts of the state alone.                              *)
(***************************************************************************)
\* The messages that the lsns depend on stay.
Gives(m) == m.t \in {"load", "page", "claim"}
SameGiven == \A m : Gives(m) => (m \in msgs' <=> m \in msgs)

LEMMA PlaceSame ==
    ASSUME res'.owner = res.owner, SameGiven
    PROVE  \A i : (Place(i)' <=> Place(i)) /\ (XClaim(i)' <=> XClaim(i))
BY DEF SameGiven, Gives, Place, XClaim

LEMMA BlockSame ==
    ASSUME NEW i, BlockOK(i), ctrl'[i] = ctrl[i], ses'[i].st = ses[i].st, hist' = hist
    PROVE  BlockOK(i)'
BY DEF BlockOK, Busy, Latest

LEMMA WriterSame ==
    ASSUME NEW i, WriterOK(i), ctrl'[i] = ctrl[i], mark'[i] = mark[i], hist' = hist,
           Place(i) => Place(i)'
    PROVE  WriterOK(i)'
BY DEF WriterOK, Unsaved, Latest

\* The pages stay where they are while nobody who keeps the newest one loses
\* it, and nobody has to load one.
LEMMA FlowKept ==
    ASSUME Flow, hist' = hist, disk' = disk, SameGiven,
           \A i \in Inst : mark'[i] \in {mark[i], Latest},
           res'.owner = res.owner, res'.lsn = res.lsn,
           \A i \in Inst : ses'[i].st = "got" /\ ctrl'[i].load = "need" =>
                             ses[i].st = "got" /\ ctrl[i].load = "need",
           \A i \in Inst : Keeps(i) /\ Place(i) => Keeps(i)',
           \A i \in Inst : Place(i) /\ ctrl'[i].edp => ctrl[i].edp
    PROVE  Flow'
<1>1. Latest' = Latest
  BY DEF Latest
<1>2. Lsns'
  BY <1>1 DEF Flow, Lsns, SameGiven, Gives
<1>3. (Loads => Stored)'
  BY <1>1 DEF Flow, Loads, Stored, SameGiven, Gives
<1>4. OwnerClean'
  <2>1. \A m : Leaving(m) => (m \in msgs' <=> m \in msgs)
    BY DEF Leaving, XPage, SameGiven, Gives
  <2>2. \A i \in Inst : i = res.owner => Place(i)
    BY DEF Place
  <2> QED BY <2>1, <2>2 DEF Flow, OwnerClean
<1>5. Kept'
  <2>1. \A m : XPage(m) => (m \in msgs' <=> m \in msgs)
    BY DEF XPage, SameGiven, Gives
  <2>2. \A i : (Place(i)' <=> Place(i)) /\ (XClaim(i)' <=> XClaim(i))
    BY PlaceSame
  <2>3. \A i \in Inst : Keeper(i) => Keeper(i)'
    BY <2>2 DEF Keeper, Place
  <2> QED BY <1>1, <2>1, <2>3 DEF Flow, Kept
<1>6. ClaimsClean'
  BY PlaceSame DEF Flow, ClaimsClean, Place
<1> QED BY <1>2, <1>3, <1>4, <1>5, <1>6 DEF Flow

\* Requests stay truthful: those that are left are old ones, and the lock of
\* an instance that waits does not change.
LEMMA TruthKept ==
    ASSUME IInv', Safe', Latest <= Latest', Latest \in Nat, Latest' \in Nat, sn' = sn,
           \A i \in Inst : ses'[i].st = "ask" => ctrl'[i].lock = ctrl[i].lock,
           \A m \in msgs' : m.t \in {"ask", "own"} => Tells(m.req),
           \A r \in inv' : Serves(r) => Tells(r.req),
           \A n \in 1 .. Len(res'.q) : Tells(res'.q[n]),
           \A m \in msgs' : m.t = "page" /\ m.flag = "r2x" => ctrl[m.to].lock = DRC_LOCK_SHARE,
           \A m \in msgs' : m.t = "own" => ~ m.retry,
           \A r \in inv' : ~ r.retry
    PROVE  Truthful'
<1>1. /\ TypeOK' /\ RoundsSound'
      /\ \A i \in Inst : Orderly(i)'
  BY DEF IInv, Safe, CatalogueSound
<1>2. ASSUME NEW r \in ReqInfo, Tells(r), ses'[r.inst].st = "ask"
      PROVE  Tells(r)'
  <2>1. r.inst \in Inst /\ r.lsn \in Nat
    BY <1>2 DEF ReqInfo
  <2> QED BY <1>2, <2>1 DEF Tells
<1>3. ASSUME NEW m \in msgs', m.t \in {"ask", "own"} PROVE Tells(m.req)'
  <2>1. m.req \in ReqInfo /\ m.req.inst \in Inst
    BY <1>1, <1>3, MsgFields, ReqFields DEF TypeOK
  <2>2. m \in MsgFor(m.req.inst)'
    BY <1>3 DEF MsgFor, Token, For
  <2>3. ses'[m.req.inst].st = "ask"
    BY <1>1, <2>1, <2>2 DEF Orderly, Alone
  <2> QED BY <1>2, <1>3, <2>1, <2>3
<1>4. ASSUME NEW r \in inv', Serves(r) PROVE Tells(r.req)'
  <2>1. r.req \in ReqInfo /\ r.req.inst \in Inst
    BY <1>1, <1>4, ReqFields DEF RoundsSound, Serves, IsRecycle
  <2>2. r \in RoundFor(r.req.inst)'
    BY <1>4 DEF RoundFor, Serves, IsRecycle
  <2>3. ses'[r.req.inst].st = "ask"
    BY <1>1, <2>1, <2>2 DEF Orderly, Alone
  <2> QED BY <1>2, <1>4, <2>1, <2>3
<1>5. ASSUME NEW n \in 1 .. Len(res'.q), NEW r, r = res'.q[n] PROVE Tells(r)'
  <2>1. r \in ReqInfo /\ r.inst \in Inst
    BY <1>1, <1>5, ReqFields DEF TypeOK, BufRes
  <2>2. n \in QueueFor(r.inst)'
    BY <1>5 DEF QueueFor
  <2>3. ses'[r.inst].st = "ask"
    BY <1>1, <2>1, <2>2 DEF Orderly, Alone
  <2> QED BY <1>2, <1>5, <2>1, <2>3
<1>6. ASSUME NEW m \in msgs', m.t = "page", m.flag = "r2x"
      PROVE  ctrl'[m.to].lock = DRC_LOCK_SHARE
  <2>1. m.to \in Inst
    BY <1>1, <1>6, MsgFields DEF TypeOK
  <2>2. m \in MsgFor(m.to)'
    BY <1>6 DEF MsgFor, Token, For, Replies
  <2>3. ses'[m.to].st = "ask"
    BY <1>1, <2>1, <2>2 DEF Orderly, Alone
  <2> QED BY <1>6, <2>1, <2>3
<1>7. (\A n \in 1 .. Len(res.q) : Tells(res.q[n]))'
  BY <1>5 DEF Tells
<1> QED BY <1>3, <1>4, <1>6, <1>7 DEF Truthful, Serves, IsRecycle

\* The blocks stay, and so do the messages that give the page.
LEMMA SameBlocks ==
    ASSUME Current, ctrl' = ctrl, ses' = ses, mark' = mark, disk' = disk, hist' = hist,
           SameGiven, res'.owner = res.owner, res'.lsn = res.lsn
    PROVE  Blocks' /\ Writers' /\ Flow' /\ Latest' = Latest
<1>1. Blocks'
  BY BlockSame DEF Current, Blocks
<1>2. Writers'
  BY PlaceSame, WriterSame DEF Current, Writers
<1>3. Latest' = Latest
  BY DEF Latest
<1>4. \A i \in Inst : Keeps(i) => Keeps(i)'
  BY <1>3 DEF Keeps
<1>5. Flow'
  BY <1>4, FlowKept DEF Current
<1> QED BY <1>1, <1>2, <1>3, <1>5

-----------------------------------------------------------------------------
(***************************************************************************)
(* The requests on the master.                                             *)
(***************************************************************************)
\* Request r goes on into a round or to the owner, m is consumed.
Onward(m, r) ==
    /\ \A n \in msgs' : \/ n \in msgs
                        \/ n.t \in {"err", "already"}
                        \/ n.t = "own" /\ n.req = r /\ ~ n.retry
    /\ \A n \in msgs : n # m => n \in msgs'
    /\ \A x \in inv' : x \in inv \/ (Serves(x) /\ x.req = r /\ ~ x.retry)
    /\ (\E n \in msgs' : n.t \in {"own", "already"}) \/ \E x \in inv' : Serves(x)

\* The answer to the owner, or the message for it (dcs_notify_owner_for_page).
LEMMA NotifyFields ==
    ASSUME NEW o, NEW r
    PROVE  LET y == NotifyOwner(o, r, FALSE)
           IN  \/ y.t = "already" /\ y.to = r.inst /\ y.sn = r.sn
               \/ y.t = "own" /\ y.req = r /\ ~ y.retry
BY DEF NotifyOwner, Reply, AskOwner

\* A converted request goes on.
LEMMA ConvertOnward ==
    ASSUME NEW m, NEW rs, NEW r, NEW kind \in {"ask", "claim"}, NEW self, NEW also,
           Convert(m, rs, r, FALSE, kind, self, also), Errors(also), r.sn = sn[r.inst]
    PROVE  Onward(m, r)
<1> DEFINE w == CopiesToInvalidate(rs, r)
           x == Round(kind, w, r, FALSE, rs.owner, self)
           y == NotifyOwner(rs.owner, r, FALSE)
<1>1. CASE w # {} /\ r.mode = DRC_LOCK_EXCLUSIVE
  <2>1. inv' = inv \cup {x} /\ Exchange(m, also)
    BY <1>1 DEF Convert
  <2>2. x.req = r /\ x.kind = kind /\ ~ x.retry
    <3> HIDE DEF w
    <3> QED BY DEF Round
  <2>3. \A n \in msgs' : (n \in msgs /\ n # m) \/ n \in also
    BY <2>1, Network
  <2>4. \A n \in msgs : n # m => n \in msgs'
    BY <2>1, Delivered
  <2> HIDE DEF x, w
  <2>5. Serves(x)
    BY <2>2 DEF Serves, IsRecycle
  <2> QED BY <2>1, <2>2, <2>3, <2>4, <2>5 DEF Onward, Errors
<1>2. CASE ~ (w # {} /\ r.mode = DRC_LOCK_EXCLUSIVE)
  <2>1. inv' = inv /\ Exchange(m, also \cup {y})
    BY <1>2 DEF Convert
  <2>2. \A n \in msgs' : (n \in msgs /\ n # m) \/ n \in also \cup {y}
    BY <2>1, Network
  <2>3. /\ \A n \in msgs : n # m => n \in msgs'
        /\ y.t \notin Replies \/ y.sn = sn[y.to] => y \in msgs'
    <3> HIDE DEF y, w
    <3>1. y \in also \cup {y}
      OBVIOUS
    <3> QED BY <2>1, <3>1, Delivered
  <2>4. \/ y.t = "already" /\ y.to = r.inst /\ y.sn = r.sn
        \/ y.t = "own" /\ y.req = r /\ ~ y.retry
    BY NotifyFields
  <2> HIDE DEF y, w
  <2>5. y \in msgs'
    BY <2>3, <2>4 DEF Replies
  <2> QED BY <2>1, <2>2, <2>3, <2>4, <2>5 DEF Onward, Errors
<1> QED BY <1>1, <1>2

\* Requests stay truthful when one goes on.
LEMMA TruthOnward ==
    ASSUME IInv, IInv', Safe', Truthful, hist' = hist, sn' = sn, ctrl' = ctrl,
           NEW m, NEW r, Onward(m, r), Tells(r),
           \A n \in 1 .. Len(res'.q) : Tells(res'.q[n])
    PROVE  Truthful'
<1>1. Latest' = Latest /\ Latest \in Nat
  BY LsnTypes DEF Latest, IInv
<1>2. /\ \A n \in msgs' : n.t \in {"ask", "own"} => Tells(n.req)
      /\ \A x \in inv' : Serves(x) => Tells(x.req)
      /\ \A n \in msgs' : n.t = "page" /\ n.flag = "r2x" => ctrl[n.to].lock = DRC_LOCK_SHARE
      /\ \A n \in msgs' : n.t = "own" => ~ n.retry
      /\ \A x \in inv' : ~ x.retry
  BY DEF Onward, Truthful
<1> QED BY <1>1, <1>2, TruthKept

\* No request is repeated while the entry still converts it: without time-outs
\* every conversion is worked on until its claim.
LEMMA NotRepeated ==
    ASSUME IInv, Safe, Prompt, Current, NEW i \in Inst, NEW m \in AskOf(i), Converting(res)
    PROVE  res.conv.inst # i
<1>1. TypeOK /\ Ordered
  BY SafeParts DEF IInv
<1>2. m \in msgs /\ m.t = "ask" /\ m.req.inst = i /\ \A c \in msgs : c.t = "claim" => c.inst # i
  BY <1>1, AskFacts
<1>3. res.conv.inst = i => AtRest(msgs) /\ \A r \in inv : ~ Serves(r)
  BY <1>1, <1>2, RestAsked
<1> QED BY <1>3 DEF AtRest, Current, Served

\* A request is answered by an error.
LEMMA NowRejected ==
    ASSUME IInv, IInv', Safe, Safe', Current, NEW i \in Inst, AskRejected(i)
    PROVE  Current'
<1>1. PICK m \in AskOf(i) : Exchange(m, {Reply("err", m.req)})
  BY DEF AskRejected
<1>2. /\ res' = res /\ inv' = inv /\ ctrl' = ctrl /\ ses' = ses /\ sn' = sn /\ mark' = mark
      /\ disk' = disk /\ hist' = hist /\ panic' = panic
  BY DEF AskRejected
<1>3. m.t = "ask" /\ Reply("err", m.req).t = "err"
  BY SentFields DEF AskOf
<1>4. /\ \A n \in msgs' : (n \in msgs /\ n # m) \/ n \in {Reply("err", m.req)}
      /\ \A n \in msgs : n # m => n \in msgs'
  BY <1>1, Network, Delivered
<1>5. \A n \in msgs' : n \in msgs \/ n.t = "err"
  BY <1>3, <1>4
<1>6. SameGiven
  BY <1>3, <1>4, <1>5 DEF SameGiven, Gives
<1>7. Blocks' /\ Writers' /\ Flow' /\ Latest' = Latest
  BY <1>2, <1>6, SameBlocks
<1>8. Truthful'
  <2>1. Latest \in Nat
    BY LsnTypes DEF IInv
  <2> QED BY <1>2, <1>5, <1>7, <2>1, TruthKept DEF Current, Truthful
<1>9. Recycles' /\ Served' /\ ~ panic'
  BY <1>2, <1>3, <1>4 DEF Current, Recycles, Served, Serves, IsRecycle
<1> QED BY <1>7, <1>8, <1>9 DEF Current

\* A request waits behind the one being converted.
LEMMA NowQueued ==
    ASSUME IInv, IInv', Safe, Safe', Prompt, Current, NEW i \in Inst, AskQueued(i)
    PROVE  Current'
<1>1. TypeOK /\ Ordered
  BY SafeParts DEF IInv
<1>2. PICK m \in AskOf(i) :
        drc_search_item_by_reqid(res, m.req) = {} =>
          res' = [res EXCEPT !.q = Append(@, m.req)] /\ Exchange(m, {})
  BY DEF AskQueued
<1>3. /\ inv' = inv /\ ctrl' = ctrl /\ ses' = ses /\ sn' = sn /\ mark' = mark
      /\ disk' = disk /\ hist' = hist /\ panic' = panic
  BY DEF AskQueued
<1>4. m \in msgs /\ m.t = "ask" /\ m.req \in ReqInfo /\ m.req.inst = i /\ QueueFor(i) = {}
  BY <1>1, AskFacts
<1>5. res \in BufRes /\ res.q \in Seq(ReqInfo) /\ Len(res.q) \in Nat /\ DOMAIN res.q = 1 .. Len(res.q)
  <2>1. res \in BufRes
    BY <1>1 DEF TypeOK
  <2>2. res.q \in Seq(ReqInfo)
    BY <2>1 DEF BufRes
  <2> QED BY <2>1, <2>2
<1>6. drc_search_item_by_reqid(res, m.req) = {}
  <2>1. \A k \in 1 .. Len(res.q) : res.q[k].inst # i
    BY <1>4 DEF QueueFor
  <2> QED BY <1>4, <1>5, <2>1 DEF drc_search_item_by_reqid, drc_is_retry_request
<1>7. res' = [res EXCEPT !.q = Append(res.q, m.req)] /\ Exchange(m, {})
  BY <1>2, <1>6
<1>8. /\ res'.owner = res.owner /\ res'.lsn = res.lsn /\ res'.copies = res.copies
      /\ res'.conv = res.conv /\ res'.q = Append(res.q, m.req)
  BY <1>5, <1>7 DEF BufRes
<1>9. /\ Len(res'.q) = Len(res.q) + 1 /\ res'.q[Len(res.q) + 1] = m.req
      /\ \A n \in 1 .. Len(res.q) : res'.q[n] = res.q[n]
  BY <1>4, <1>5, <1>8, AppendQueue
<1>10. (\A x \in msgs' : x \in msgs /\ x # m) /\ \A n \in msgs : n # m => n \in msgs'
  BY <1>7, Network, Delivered
<1>11. SameGiven
  BY <1>4, <1>10 DEF SameGiven, Gives
<1>12. Blocks' /\ Writers' /\ Flow' /\ Latest' = Latest
  BY <1>3, <1>8, <1>11, SameBlocks
<1>13. Truthful'
  <2>1. \A n \in 1 .. Len(res'.q) : Tells(res'.q[n])
    <3> SUFFICES ASSUME NEW n \in 1 .. Len(res'.q) PROVE Tells(res'.q[n])
      OBVIOUS
    <3>1. CASE n = Len(res.q) + 1
      BY <1>4, <1>9, <3>1 DEF Current, Truthful
    <3>2. CASE n # Len(res.q) + 1
      <4>1. n \in 1 .. Len(res.q)
        BY <1>5, <1>9, <3>2
      <4> QED BY <1>9, <4>1 DEF Current, Truthful
    <3> QED BY <3>1, <3>2
  <2>2. Latest \in Nat
    BY <1>1, LsnTypes
  <2> QED BY <1>3, <1>10, <1>12, <2>1, <2>2, TruthKept DEF Current, Truthful
<1>14. Recycles' /\ ~ panic'
  BY <1>3, <1>8 DEF Current, Recycles, IsRecycle
<1>15. Served'
  BY <1>3, <1>4, <1>8, <1>10 DEF Current, Served, Serves, IsRecycle, Converting
<1> QED BY <1>12, <1>13, <1>14, <1>15 DEF Current

\* A request is converted (drc_request_page_owner).
LEMMA NowConverting ==
    ASSUME IInv, IInv', Safe, Safe', Prompt, Current, NEW i \in Inst, AskConverting(i)
    PROVE  Current'
<1>1. TypeOK /\ Ordered /\ EntrySound
  BY SafeParts DEF IInv, CatalogueSound
<1>2. PICK m \in AskOf(i) :
        /\ res.used /\ ~ res.pending /\ ~ Converting(res) /\ res' = [res EXCEPT !.conv = m.req]
        /\ Convert(m, res, m.req, FALSE, "ask", FALSE, {})
        /\ panic' = (panic \/ res.q # <<>>)
  BY DEF AskConverting
<1>3. /\ ctrl' = ctrl /\ ses' = ses /\ sn' = sn /\ mark' = mark
      /\ disk' = disk /\ hist' = hist
  BY DEF AskConverting
<1>4. m \in msgs /\ m.t = "ask" /\ Tells(m.req)
  BY <1>1, AskFacts DEF Current, Truthful
<1>5. Onward(m, m.req)
  <2>1. Errors({}) /\ m.req.sn = sn[m.req.inst]
    BY <1>4 DEF Errors, Tells
  <2> QED BY <1>2, <2>1, ConvertOnward
<1>6. /\ res'.owner = res.owner /\ res'.lsn = res.lsn /\ res'.copies = res.copies
      /\ res'.q = res.q
  BY <1>1, <1>2 DEF TypeOK, BufRes
<1>7. SameGiven
  BY <1>4, <1>5 DEF SameGiven, Gives, Onward
<1>8. Blocks' /\ Writers' /\ Flow'
  BY <1>3, <1>6, <1>7, SameBlocks
<1>9. Truthful'
  BY <1>3, <1>4, <1>5, <1>6, TruthOnward DEF Current, Truthful
<1>10. Recycles'
  BY <1>5, <1>6 DEF Current, Recycles, Onward, Serves, IsRecycle
<1>11. Served'
  BY <1>5 DEF Served, Onward, Serves, IsRecycle
<1>12. ~ panic'
  BY <1>1, <1>2 DEF Current, EntrySound, QueueServed
<1> QED BY <1>8, <1>9, <1>10, <1>11, <1>12 DEF Current

\* The copies are gone: the request goes on to the owner.
LEMMA NowRoundDone ==
    ASSUME IInv, IInv', Safe, Safe', Current, RoundDone
    PROVE  Current'
<1>1. TypeOK /\ RoundsSound
  BY DEF IInv, CatalogueSound
<1>2. PICK r \in inv :
        /\ r.kind \in {"ask", "claim"}
        /\ res' = IF r.ok THEN [res EXCEPT !.copies = {}] ELSE res
        /\ Send({IF r.ok \/ r.kind = "claim" THEN NotifyOwner(r.owner, r.req, r.retry)
                 ELSE Reply("err", r.req)})
        /\ inv' = inv \ {r}
  BY DEF RoundDone
<1>3. /\ ctrl' = ctrl /\ ses' = ses /\ sn' = sn /\ mark' = mark
      /\ disk' = disk /\ hist' = hist /\ panic' = panic
  BY DEF RoundDone
<1>4. Serves(r) /\ r.ok /\ Tells(r.req) /\ r.retry = FALSE
  <2>1. Serves(r) /\ r.retry \in BOOLEAN
    BY <1>1, <1>2 DEF Serves, IsRecycle, TypeOK, RoundType
  <2> QED BY <2>1 DEF Safe, Serving, Current, Truthful
<1> DEFINE y == NotifyOwner(r.owner, r.req, FALSE)
<1>5. Send({y})
  BY <1>2, <1>4
<1>6. \/ y.t = "already" /\ y.to = r.req.inst /\ y.sn = r.req.sn
      \/ y.t = "own" /\ y.req = r.req /\ ~ y.retry
  BY NotifyFields
<1> HIDE DEF y
<1>7. /\ \A n \in msgs' : n \in msgs \/ n \in {y}
      /\ \A n \in msgs : n \in msgs'
      /\ \A n \in {y} : n.t \notin Replies \/ n.sn = sn[n.to] => n \in msgs'
  BY <1>5, Network, Delivered
<1>8. y \in msgs'
  BY <1>4, <1>6, <1>7 DEF Tells, Replies
<1>9. Onward(r, r.req)
  BY <1>2, <1>6, <1>7, <1>8 DEF Onward
<1>10. res'.owner = res.owner /\ res'.lsn = res.lsn /\ res'.q = res.q
  BY <1>1, <1>2 DEF TypeOK, BufRes
<1>11. SameGiven
  BY <1>6, <1>7 DEF SameGiven, Gives
<1>12. Blocks' /\ Writers' /\ Flow'
  BY <1>3, <1>10, <1>11, SameBlocks
<1>13. Truthful'
  BY <1>3, <1>4, <1>9, <1>10, TruthOnward DEF Current, Truthful
<1>14. Recycles'
  <2>1. \A s \in inv : ~ IsRecycle(s)
    BY <1>4, RestPending DEF Serves
  <2> QED BY <1>2, <2>1 DEF Recycles, IsRecycle
<1>15. Served'
  BY <1>9 DEF Served, Onward, Serves, IsRecycle
<1> QED BY <1>3, <1>12, <1>13, <1>14, <1>15 DEF Current

\* Written pages are announced, and requests to write passed on: this changes
\* nothing but the known early dirty pages.
LEMMA NowAnnounce ==
    ASSUME IInv, IInv', Safe', Current,
           (\E i \in Inst : CkptAnnounce(i)) \/ ProcCleanReq \/ ProcCkptReq
    PROVE  Current'
<1>1. TypeOK /\ res \in BufRes
  BY DEF IInv, TypeOK
<1>2. /\ inv' = inv /\ ctrl' = ctrl /\ ses' = ses /\ sn' = sn /\ mark' = mark
      /\ disk' = disk /\ hist' = hist /\ panic' = panic
  BY DEF CkptAnnounce, ProcCleanReq, ProcCkptReq
<1>3. \A l, d : MasterClean(l, d) =>
        res' = res \/ res' = [res EXCEPT !.edp = {}, !.latest = NoInst]
  BY DEF MasterClean, drc_clean_edp_info
<1>4. res' = res \/ res' = [res EXCEPT !.edp = {}, !.latest = NoInst]
  <2>1. CASE ProcCkptReq
    BY <2>1 DEF ProcCkptReq
  <2>2. CASE ProcCleanReq
    BY <1>3, <2>2 DEF ProcCleanReq
  <2>3. CASE \E i \in Inst : CkptAnnounce(i)
    <3>1. PICK i \in Inst : CkptAnnounce(i)
      BY <2>3
    <3>2. PICK l : IF i = Master THEN MasterClean(l, TRUE) ELSE res' = res
      BY <3>1 DEF CkptAnnounce
    <3> QED BY <1>3, <3>2
  <2> QED BY <2>1, <2>2, <2>3
<1>5. /\ res'.owner = res.owner /\ res'.lsn = res.lsn /\ res'.copies = res.copies
      /\ res'.conv = res.conv /\ res'.q = res.q
  BY <1>1, <1>4 DEF BufRes
<1>6. /\ \A m \in msgs' : m \in msgs \/ m.t \in {"ckpt", "clean"}
      /\ \A m \in msgs : m.t \notin {"ckpt", "clean"} => m \in msgs'
  <2>1. CASE ProcCkptReq \/ ProcCleanReq
    <3>1. PICK m \in msgs : Exchange(m, {}) /\ m.t \in {"ckpt", "clean"}
      BY <2>1 DEF ProcCkptReq, ProcCleanReq
    <3> QED BY <3>1, Network, Delivered
  <2>2. CASE \E i \in Inst : CkptAnnounce(i)
    <3>1. PICK l : msgs' = msgs \/ Send({CleanReq(l)})
      BY <2>2 DEF CkptAnnounce
    <3>2. CleanReq(l).t = "clean"
      BY DEF CleanReq
    <3>3. Send({CleanReq(l)}) =>
            /\ \A m \in msgs' : m \in msgs \/ m \in {CleanReq(l)}
            /\ \A m \in msgs : m \in msgs'
      BY Network, Delivered
    <3> QED BY <3>1, <3>2, <3>3
  <2> QED BY <2>1, <2>2
<1>7. SameGiven
  BY <1>6 DEF SameGiven, Gives
<1>8. Blocks' /\ Writers' /\ Flow' /\ Latest' = Latest
  BY <1>2, <1>5, <1>7, SameBlocks
<1>9. Truthful'
  <2>1. Latest \in Nat
    BY <1>1, LsnTypes
  <2> QED BY <1>2, <1>5, <1>6, <1>8, <2>1, TruthKept DEF Current, Truthful
<1>10. Recycles' /\ Served' /\ ~ panic'
  BY <1>2, <1>5, <1>6 DEF Current, Recycles, Served, Serves, IsRecycle, Converting
<1> QED BY <1>8, <1>9, <1>10 DEF Current

\* The recycling of an entry starts.
LEMMA NowRecycleStart ==
    ASSUME IInv, IInv', Safe', Current, RecycleStart
    PROVE  Current'
<1> DEFINE x == RecycleRound(res)
<1>1. TypeOK /\ Latest \in Nat
  BY LsnTypes DEF IInv
<1>2. /\ res' = [res EXCEPT !.pending = TRUE] /\ inv' = inv \cup {x}
      /\ ctrl' = ctrl /\ ses' = ses /\ sn' = sn /\ mark' = mark /\ msgs' = msgs
      /\ disk' = disk /\ hist' = hist /\ panic' = panic
  BY DEF RecycleStart
<1>3. /\ x.kind = "recycle" /\ x.retry = FALSE /\ x.copies = res.copies
      /\ x.owner = res.owner /\ x.wait = res.copies \ {res.owner}
  BY DEF RecycleRound, Round
<1> HIDE DEF x
<1>4. /\ res'.owner = res.owner /\ res'.lsn = res.lsn /\ res'.copies = res.copies
      /\ res'.conv = res.conv /\ res'.q = res.q
  BY <1>1, <1>2 DEF TypeOK, BufRes
<1>5. SameGiven
  BY <1>2 DEF SameGiven
<1>6. Blocks' /\ Writers' /\ Flow' /\ Latest' = Latest
  BY <1>2, <1>4, <1>5, SameBlocks
<1>7. ~ Serves(x)
  BY <1>3 DEF Serves, IsRecycle
<1>8. \A r \in inv' : Serves(r) => r \in inv
  BY <1>2, <1>7
<1>9. Truthful'
  <2>1. \A r \in inv' : ~ r.retry
    BY <1>2, <1>3 DEF Current, Truthful
  <2> QED BY <1>1, <1>2, <1>4, <1>6, <1>8, <2>1, TruthKept DEF Current, Truthful
<1>10. Recycles' /\ Served' /\ ~ panic'
  BY <1>2, <1>3, <1>4 DEF Current, Recycles, Served, Serves, IsRecycle, Converting
<1> QED BY <1>6, <1>9, <1>10 DEF Current

-----------------------------------------------------------------------------
(***************************************************************************)
(* The entry begins and ends.                                              *)
(***************************************************************************)
\* When nobody holds the page the disk has the newest one.
LEMMA NobodyHolds ==
    ASSUME IInv, Safe, Current, AtRest(msgs), \A i \in Inst : ~ Holds(i)
    PROVE  /\ \A m \in msgs : ~ Gives(m)
           /\ \A i \in Inst : /\ ctrl[i].lock = DRC_LOCK_NULL /\ mark[i] = 0 /\ ~ Unsaved(ctrl[i])
                              /\ ctrl[i].load # "loaded" /\ ses[i].st # "got"
           /\ disk = Latest
<1>1. TypeOK
  BY DEF IInv
<1>2. \A m \in msgs : ~ Gives(m)
  BY <1>1, MsgFields DEF TypeOK, AtRest, Gives, Holds
<1>3. \A i \in Inst : ctrl[i].lock = DRC_LOCK_NULL
  BY DEF Holds
<1>4. \A i \in Inst : mark[i] = 0 /\ ~ Unsaved(ctrl[i]) /\ ctrl[i].load # "loaded"
  BY <1>3 DEF Current, Writers, WriterOK, Blocks, BlockOK
<1>5. \A i \in Inst : ses[i].st # "got"
  <2> SUFFICES ASSUME NEW i \in Inst, ses[i].st = "got" PROVE FALSE
    OBVIOUS
  <2>1. ses[i].mode \in ReqMode /\ ctrl[i].lock >= ses[i].mode
    BY DEF Safe, Orderly, LatchOK
  <2> QED BY <1>3, <2>1 DEF ReqMode, DRC_LOCK_NULL, DRC_LOCK_SHARE, DRC_LOCK_EXCLUSIVE
<1>6. disk = Latest
  BY <1>2, <1>4 DEF Current, Flow, Kept, XPage, Gives, Keeper, Keeps
<1> QED BY <1>2, <1>3, <1>4, <1>5, <1>6

\* The first request gets the page.
LEMMA NowGranted ==
    ASSUME IInv, IInv', Safe, Safe', Prompt, Current, NEW i \in Inst, AskGranted(i)
    PROVE  Current'
<1>1. TypeOK /\ Ordered /\ Global /\ Claims /\ EntrySound
  BY SafeParts DEF IInv, CatalogueSound
<1>2. PICK m \in AskOf(i) :
        ~ res.used /\ res' = drc_grant(m.req) /\ Exchange(m, {Reply("load", m.req)})
  BY DEF AskGranted
<1>3. /\ inv' = inv /\ ctrl' = ctrl /\ ses' = ses /\ sn' = sn /\ mark' = mark
      /\ disk' = disk /\ hist' = hist /\ panic' = panic
  BY DEF AskGranted
<1>4. m \in msgs /\ m.t = "ask" /\ m.req.inst = i /\ Tells(m.req)
  BY <1>1, AskFacts DEF Current, Truthful
<1>5. ~ Converting(res)
  BY <1>1, <1>2 DEF EntrySound, NoRes, Converting
<1>6. AtRest(msgs) /\ \A r \in inv : ~ Serves(r)
  BY <1>1, <1>5, RestIdle
<1>7. \A j \in Inst : ~ Holds(j)
  BY <1>1, <1>2 DEF Global, Power
<1>8. /\ \A n \in msgs : ~ Gives(n)
      /\ \A j \in Inst : /\ ctrl[j].lock = DRC_LOCK_NULL /\ mark[j] = 0 /\ ~ Unsaved(ctrl[j])
                         /\ ctrl[j].load # "loaded" /\ ses[j].st # "got"
      /\ disk = Latest
  BY <1>6, <1>7, NobodyHolds
<1> DEFINE y == Reply("load", m.req)
<1>9. y.t = "load" /\ y.to = i /\ y.sn = sn[i]
  BY <1>4 DEF Reply, Tells
<1> HIDE DEF y
<1>10. /\ \A n \in msgs' : (n \in msgs /\ n # m) \/ n \in {y}
       /\ \A n \in {y} : n.t \notin Replies \/ n.sn = sn[n.to] => n \in msgs'
  BY <1>2, Network, Delivered DEF y
<1>11. y \in msgs' /\ \A n \in msgs' : n \in msgs \/ n = y
  BY <1>9, <1>10
<1>12. /\ res'.owner = i /\ res'.lsn = 0 /\ res'.q = <<>> /\ res'.conv = NoReq
  BY <1>2, <1>4 DEF drc_grant, NoRes
<1>13. Latest' = Latest /\ Latest \in Nat
  BY <1>1, <1>3, LsnTypes DEF Latest
<1>14. Blocks'
  BY <1>3, BlockSame DEF Current, Blocks
<1>15. Writers'
  BY <1>3, <1>8 DEF Writers, WriterOK, Unsaved, DRC_LOCK_NULL, DRC_LOCK_EXCLUSIVE
<1>16. Truthful'
  <2>1. 1 .. Len(res'.q) = {}
    BY <1>12
  <2>2. \A n \in msgs' : n \in msgs \/ n.t = "load"
    BY <1>9, <1>11
  <2> QED BY <1>3, <1>13, <2>1, <2>2, TruthKept DEF Current, Truthful
<1>17. Flow'
  <2>1. Lsns'
    BY <1>8, <1>9, <1>11, <1>12, <1>13 DEF Lsns, Gives
  <2>2. Stored'
    BY <1>3, <1>8, <1>13 DEF Stored
  <2>3. Kept'
    BY <1>3, <1>8, <1>13 DEF Kept
  <2>4. OwnerClean'
    BY <1>9, <1>11 DEF OwnerClean, Leaving
  <2>9. ClaimsClean'
    BY <1>8, <1>9, <1>11 DEF ClaimsClean, XClaim, Gives
  <2> QED BY <2>1, <2>2, <2>3, <2>4, <2>9 DEF Flow
<1>18. Recycles'
  <2>1. \A r \in inv : ~ IsRecycle(r)
    BY <1>2, RestPending
  <2> QED BY <1>3, <2>1 DEF Recycles, IsRecycle
<1>19. Served' /\ ~ panic'
  BY <1>3, <1>12 DEF Current, Served, Converting
<1> QED BY <1>14, <1>15, <1>16, <1>17, <1>18, <1>19 DEF Current

\* The entry goes or stays: the checks of drc_recycle_items hold.
LEMMA NowRecycleDone ==
    ASSUME IInv, IInv', Safe, Safe', Current, RecycleDone
    PROVE  Current'
<1>1. TypeOK /\ Ordered /\ Global /\ EntrySound /\ RoundsSound /\ Latest \in Nat
  BY SafeParts, LsnTypes DEF IInv, CatalogueSound
<1>2. PICK r \in inv :
        /\ IsRecycle(r) /\ (r.ok => r.kind = "recycled") /\ inv' = inv \ {r}
        /\ res' = IF r.ok THEN NoRes ELSE [res EXCEPT !.pending = FALSE]
        /\ panic' = (panic \/ ~ (res.pending /\ buf_res_is_recyclable(res)
                               /\ r.owner = res.owner /\ r.copies = res.copies))
  BY DEF RecycleDone, IsRecycle
<1>3. /\ ctrl' = ctrl /\ ses' = ses /\ sn' = sn /\ mark' = mark /\ msgs' = msgs
      /\ disk' = disk /\ hist' = hist
  BY DEF RecycleDone
<1>4. AtRest(msgs) /\ inv = {r} /\ ~ Converting(res) /\ res.q = <<>>
  BY <1>2, RestPending
<1>5. ~ panic'
  BY <1>1, <1>2 DEF RoundsSound, EntrySound, buf_res_is_recyclable, Current, Recycles
<1>6. inv' = {}
  BY <1>2, <1>4
<1>7. Recycles'
  BY <1>6 DEF Recycles
<1>8. CASE ~ r.ok
  <2>1. /\ res'.owner = res.owner /\ res'.lsn = res.lsn
        /\ res'.conv = res.conv /\ res'.q = res.q
    BY <1>1, <1>2, <1>8 DEF TypeOK, BufRes
  <2>2. SameGiven
    BY <1>3 DEF SameGiven
  <2>3. Blocks' /\ Writers' /\ Flow' /\ Latest' = Latest
    BY <1>3, <2>1, <2>2, SameBlocks
  <2>4. Truthful'
    BY <1>1, <1>3, <1>6, <2>1, <2>3, TruthKept DEF Current, Truthful
  <2>5. Served'
    BY <1>4, <2>1 DEF Served, Converting
  <2> QED BY <1>5, <1>7, <2>3, <2>4, <2>5 DEF Current
<1>9. CASE r.ok
  <2>1. res'.owner = NoInst /\ res'.lsn = 0 /\ res'.conv = NoReq /\ res'.q = <<>>
    BY <1>2, <1>9 DEF NoRes
  <2>2. \A j \in Inst : ~ Holds(j)
    BY <1>1, <1>2, <1>9 DEF Global, Giving
  <2>3. /\ \A n \in msgs : ~ Gives(n)
        /\ \A j \in Inst : /\ ctrl[j].lock = DRC_LOCK_NULL /\ mark[j] = 0 /\ ~ Unsaved(ctrl[j])
                           /\ ctrl[j].load # "loaded" /\ ses[j].st # "got"
        /\ disk = Latest
    BY <1>4, <2>2, NobodyHolds
  <2>4. Latest' = Latest
    BY <1>3 DEF Latest
  <2>5. Blocks'
    BY <1>3, BlockSame DEF Current, Blocks
  <2>6. Writers'
    BY <1>3, <2>3 DEF Writers, WriterOK, Unsaved, DRC_LOCK_NULL, DRC_LOCK_EXCLUSIVE
  <2>7. Truthful'
    <3>1. 1 .. Len(res'.q) = {}
      BY <2>1
    <3> QED BY <1>1, <1>3, <1>6, <2>4, <3>1, TruthKept DEF Current, Truthful
  <2>8. Flow'
    <3>1. Lsns'
      BY <1>1, <1>3, <2>1, <2>3, <2>4 DEF Lsns, Gives
    <3>2. ~ Loads'
      BY <1>3, <2>3 DEF Loads, Gives
    <3>3. Kept' /\ OwnerClean'
      BY <1>3, <2>1, <2>3, <2>4, NoInstAssumption DEF Kept, OwnerClean
    <3>9. ClaimsClean'
      BY <1>3, <2>3 DEF ClaimsClean, XClaim, Gives
    <3> QED BY <3>1, <3>2, <3>3, <3>9 DEF Flow
  <2>9. Served'
    BY <2>1 DEF Served, Converting
  <2> QED BY <1>5, <1>7, <2>5, <2>6, <2>7, <2>8, <2>9 DEF Current
<1> QED BY <1>8, <1>9

-----------------------------------------------------------------------------
(***************************************************************************)
(* The session of an instance.                                             *)
(***************************************************************************)
\* A step in which the block of one instance may lose what others can still
\* give it.
LEMMA Lowered ==
    ASSUME Current, NEW i \in Inst, hist' = hist, disk' = disk, SameGiven,
           res'.owner = res.owner, res'.lsn = res.lsn, mark'[i] \in {mark[i], Latest},
           \A j \in Inst : j # i => /\ ctrl'[j] = ctrl[j] /\ ses'[j].st = ses[j].st
                                    /\ mark'[j] = mark[j],
           BlockOK(i)', WriterOK(i)',
           ses'[i].st = "got" /\ ctrl'[i].load = "need" =>
             ses[i].st = "got" /\ ctrl[i].load = "need",
           Keeps(i) /\ Place(i) => Keeps(i)',
           Place(i) /\ ctrl'[i].edp => ctrl[i].edp
    PROVE  Blocks' /\ Writers' /\ Flow' /\ Latest' = Latest
<1>1. Latest' = Latest
  BY DEF Latest
<1>2. Blocks'
  BY BlockSame DEF Current, Blocks
<1>3. Writers'
  BY PlaceSame, WriterSame DEF Current, Writers
<1>4. \A j \in Inst : Keeps(j) /\ Place(j) => Keeps(j)'
  BY <1>1 DEF Keeps
<1>5. Flow'
  BY <1>4, FlowKept DEF Current
<1> QED BY <1>1, <1>2, <1>3, <1>5

\* The entry and its rounds stay; no request is made, and no work ends.
LEMMA EntryKept ==
    ASSUME IInv, IInv', Safe', Current, Latest <= Latest', sn' = sn, res' = res, inv' = inv,
           \A j \in Inst : ses'[j].st = "ask" => ctrl'[j].lock = ctrl[j].lock,
           \A n \in msgs' : \/ n \in msgs \/ n.t \in {"claim", "err", "ckpt", "clean"}
                            \/ n.t = "ask" /\ Tells(n.req),
           \/ \A n \in msgs : n.t \in {"own", "already", "page", "claim"} => n \in msgs'
           \/ \E n \in msgs' : n.t = "claim"
    PROVE  Truthful' /\ Recycles' /\ Served'
<1>1. Latest \in Nat /\ Latest' \in Nat
  BY LsnTypes DEF IInv, TypeOK, Latest
<1>2. /\ \A n \in msgs' : n.t \in {"ask", "own"} => Tells(n.req)
      /\ \A x \in inv' : Serves(x) => Tells(x.req)
      /\ \A n \in 1 .. Len(res'.q) : Tells(res'.q[n])
      /\ \A n \in msgs' : n.t = "page" /\ n.flag = "r2x" => ctrl[n.to].lock = DRC_LOCK_SHARE
      /\ \A n \in msgs' : n.t = "own" => ~ n.retry
      /\ \A x \in inv' : ~ x.retry
  BY DEF Current, Truthful
<1>3. Truthful'
  BY <1>1, <1>2, TruthKept
<1>4. Recycles' /\ Served'
  BY DEF Current, Recycles, Served, Serves, IsRecycle, Converting
<1> QED BY <1>3, <1>4

\* The session latches the page with a sufficient lock: the page is loaded.
LEMMA NowEnterLocal ==
    ASSUME IInv, IInv', Safe, Safe', Current, NEW i \in Inst, NEW mode \in ReqMode,
           EnterLocal(i, mode)
    PROVE  Current'
<1> DEFINE a == buf_alloc_ctrl(ctrl[i])
<1>1. TypeOK /\ LatchOK(i) /\ BlockOK(i) /\ WriterOK(i) /\ Latest \in Nat
  BY LsnTypes DEF IInv, Safe, Orderly, Current, Blocks, Writers
<1>2. /\ res' = res /\ inv' = inv /\ sn' = sn /\ msgs' = msgs /\ mark' = mark
      /\ disk' = disk /\ hist' = hist /\ panic' = panic
  BY DEF EnterLocal
<1>3. /\ a.lock # DRC_LOCK_NULL /\ ctrl' = [ctrl EXCEPT ![i] = a]
      /\ ses[i].st \in {"idle", "sleep"}
      /\ ses' = [ses EXCEPT ![i] = [st |-> "got", mode |-> mode]]
  BY DEF EnterLocal, dcs_local_page_usable
<1>4. ctrl[i] \in BufCtrl /\ a.lock = ctrl[i].lock
  BY <1>1, AllocFields DEF TypeOK, LatchOK
<1>5. ctrl[i].inmem /\ ctrl[i].load = "loaded"
  BY <1>1, <1>3, <1>4 DEF LatchOK, BlockOK
<1>6. a = ctrl[i]
  BY <1>5 DEF buf_alloc_ctrl
<1>7. ctrl' = ctrl
  BY <1>1, <1>3, <1>6 DEF TypeOK
<1>8. ses'[i].st = "got" /\ \A j \in Inst : j # i => ses'[j].st = ses[j].st
  BY <1>1, <1>3 DEF TypeOK
<1>9. SameGiven /\ Latest' = Latest
  BY <1>2 DEF SameGiven, Latest
<1>10. BlockOK(i)'
  BY <1>1, <1>5, <1>7, <1>8, <1>9 DEF BlockOK, Busy
<1>11. WriterOK(i)'
  BY <1>1, <1>2, <1>7, <1>9, PlaceSame, WriterSame
<1>12. Keeps(i) => Keeps(i)'
  BY <1>2, <1>7, <1>9 DEF Keeps
<1>13. Blocks' /\ Writers' /\ Flow'
  BY <1>2, <1>5, <1>7, <1>8, <1>9, <1>10, <1>11, <1>12, Lowered
<1>14. Truthful' /\ Recycles' /\ Served'
  BY <1>1, <1>2, <1>7, <1>9, EntryKept
<1> QED BY <1>2, <1>13, <1>14 DEF Current

\* The session latches the page and asks for it.
LEMMA NowEnterRemote ==
    ASSUME IInv, IInv', Safe, Safe', Current, NEW i \in Inst, NEW mode \in ReqMode,
           EnterRemote(i, mode)
    PROVE  Current'
<1> DEFINE a == buf_alloc_ctrl(ctrl[i])
           q == [inst |-> i, mode |-> mode, curr |-> a.lock, lsn |-> a.lsn, sn |-> sn[i]]
<1>1. TypeOK /\ LatchOK(i) /\ BlockOK(i) /\ WriterOK(i) /\ Latest \in Nat /\ Latest > 0
  BY LsnTypes DEF IInv, Safe, Orderly, Current, Blocks, Writers
<1>2. /\ res' = res /\ inv' = inv /\ sn' = sn /\ mark' = mark
      /\ disk' = disk /\ hist' = hist /\ panic' = panic
  BY DEF EnterRemote
<1>3. /\ ctrl' = [ctrl EXCEPT ![i] = a] /\ ses[i].st \in {"idle", "sleep"}
      /\ ses' = [ses EXCEPT ![i] = [st |-> "ask", mode |-> mode]]
      /\ Send({Ask(q)})
  BY Zenon DEF EnterRemote
<1>4. ctrl[i] \in BufCtrl /\ a.lock = ctrl[i].lock /\ a.inmem
  BY <1>1, AllocFields DEF TypeOK, LatchOK
<1>5. /\ a.load \in {"need", "loaded"} /\ (a.load = "loaded" => a = ctrl[i])
      /\ a.load = "need" => /\ ctrl[i].lock = DRC_LOCK_NULL /\ ctrl[i].load # "loaded"
      /\ a.edp => ctrl[i].edp /\ ctrl[i].dirty /\ a.dirty
      /\ a.lsn <= Latest /\ (Unsaved(a) => Unsaved(ctrl[i]))
  <2>1. CASE ~ ctrl[i].inmem
    <3>1. a = [NoCtrl EXCEPT !.inmem = TRUE]
      BY <2>1 DEF buf_alloc_ctrl
    <3>2. a.load = "need" /\ a.edp = FALSE /\ a.dirty = FALSE /\ a.rdirty = FALSE /\ a.lsn = 0
      BY <3>1 DEF NoCtrl
    <3> HIDE DEF a
    <3> QED BY <1>1, <2>1, <3>2 DEF BlockOK, LatchOK, Unsaved
  <2>2. CASE ctrl[i].inmem /\ ctrl[i].load = "failed"
    <3>1. a = [ctrl[i] EXCEPT !.load = "need"]
      BY <2>2 DEF buf_alloc_ctrl
    <3>2. /\ a.load = "need" /\ a.edp = ctrl[i].edp /\ a.dirty = ctrl[i].dirty
          /\ a.rdirty = ctrl[i].rdirty /\ a.lsn = ctrl[i].lsn
      BY <1>4, <3>1 DEF BufCtrl
    <3> HIDE DEF a
    <3> QED BY <1>1, <2>2, <3>2 DEF BlockOK, Unsaved
  <2>3. CASE ctrl[i].inmem /\ ctrl[i].load # "failed"
    <3>1. a = ctrl[i]
      BY <2>3 DEF buf_alloc_ctrl
    <3>2. ctrl[i].load = "loaded"
      BY <1>1, <1>3, <1>4, <2>3 DEF BlockOK, Busy, BufCtrl
    <3> QED BY <1>1, <3>1, <3>2 DEF BlockOK
  <2> QED BY <2>1, <2>2, <2>3
<1>6. q.inst = i /\ q.curr = ctrl[i].lock /\ q.lsn <= Latest /\ q.sn = sn[i]
  BY <1>4, <1>5
<1> HIDE DEF a, q
<1>7. Tells(q)
  BY <1>6 DEF Tells
<1>8. /\ \A n \in msgs' : n \in msgs \/ n \in {Ask(q)}
      /\ \A n \in msgs : n \in msgs'
  BY <1>3, Network, Delivered
<1>9. \A n \in msgs' : n \in msgs \/ (n.t = "ask" /\ n.req = q)
  BY <1>8, SentFields
<1>10. /\ ctrl'[i] = a /\ ses'[i].st = "ask"
       /\ \A j \in Inst : j # i => ctrl'[j] = ctrl[j] /\ ses'[j].st = ses[j].st
  BY <1>1, <1>3 DEF TypeOK
<1>11. SameGiven /\ Latest' = Latest
  BY <1>2, <1>8, <1>9 DEF SameGiven, Gives, Latest
<1>12. BlockOK(i)'
  BY <1>1, <1>4, <1>5, <1>10, <1>11 DEF BlockOK, Busy
<1>13. WriterOK(i)'
  <2>1. CASE a.load = "loaded"
    BY <1>1, <1>2, <1>5, <1>10, <1>11, <2>1, PlaceSame, WriterSame
  <2>2. CASE a.load = "need"
    <3>1. mark'[i] = 0 /\ ~ Unsaved(a) /\ a.lock = DRC_LOCK_NULL
      BY <1>1, <1>2, <1>4, <1>5, <2>2 DEF WriterOK
    <3> QED BY <1>10, <3>1 DEF WriterOK, DRC_LOCK_NULL, DRC_LOCK_EXCLUSIVE
  <2> QED BY <1>5, <2>1, <2>2
<1>14. Keeps(i) => Keeps(i)'
  BY <1>2, <1>5, <1>10, <1>11 DEF Keeps
<1>15. Blocks' /\ Writers' /\ Flow'
  BY <1>2, <1>5, <1>10, <1>11, <1>12, <1>13, <1>14, Lowered
<1>16. \A j \in Inst : ctrl'[j].lock = ctrl[j].lock
  BY <1>4, <1>10
<1>17. Truthful' /\ Recycles' /\ Served'
  BY <1>1, <1>2, <1>7, <1>8, <1>9, <1>11, <1>16, EntryKept
<1> QED BY <1>2, <1>15, <1>17 DEF Current

\* The session takes an error answer.
LEMMA NowError ==
    ASSUME IInv, IInv', Safe, Safe', Current, NEW i \in Inst, HandleError(i)
    PROVE  Current'
<1> DEFINE a == dtc_buf_request_failed(ctrl[i])
<1>1. TypeOK /\ BlockOK(i) /\ WriterOK(i) /\ Latest \in Nat /\ ctrl[i] \in BufCtrl
  BY LsnTypes DEF IInv, TypeOK, Current, Blocks, Writers
<1>2. PICK m \in msgs : m.t = "err" /\ Exchange(m, {})
  BY DEF HandleError
<1>3. /\ res' = res /\ inv' = inv /\ sn' = sn /\ mark' = mark
      /\ disk' = disk /\ hist' = hist /\ panic' = panic
  BY DEF HandleError
<1>4. /\ ctrl' = [ctrl EXCEPT ![i] = a] /\ ses[i].st = "ask"
      /\ ses' = [ses EXCEPT ![i].st = "sleep"]
  BY DEF HandleError
<1>5. /\ a.lock = ctrl[i].lock /\ (ctrl[i].load = "loaded" => a = ctrl[i])
      /\ ctrl[i].load # "loaded" => a.load = "failed" /\ a.lock = DRC_LOCK_NULL
      /\ a.edp = ctrl[i].edp /\ a.dirty = ctrl[i].dirty /\ a.rdirty = ctrl[i].rdirty
      /\ a.lsn = ctrl[i].lsn /\ a.inmem = ctrl[i].inmem
  BY <1>1, <1>4 DEF dtc_buf_request_failed, BufCtrl, BlockOK
<1> HIDE DEF a
<1>6. (\A n \in msgs' : n \in msgs) /\ \A n \in msgs : n # m => n \in msgs'
  BY <1>2, Network, Delivered
<1>7. /\ ctrl'[i] = a /\ ses'[i].st = "sleep"
      /\ \A j \in Inst : j # i => ctrl'[j] = ctrl[j] /\ ses'[j].st = ses[j].st
  BY <1>1, <1>4 DEF TypeOK
<1>8. SameGiven /\ Latest' = Latest
  BY <1>2, <1>3, <1>6 DEF SameGiven, Gives, Latest
<1>9. BlockOK(i)'
  BY <1>1, <1>4, <1>5, <1>7, <1>8 DEF BlockOK, Busy
<1>10. WriterOK(i)'
  BY <1>1, <1>3, <1>5, <1>7, <1>8, PlaceSame DEF WriterOK, Unsaved
<1>11. Keeps(i) => Keeps(i)'
  BY <1>3, <1>5, <1>7, <1>8 DEF Keeps
<1>12. Blocks' /\ Writers' /\ Flow'
  BY <1>3, <1>5, <1>7, <1>8, <1>9, <1>10, <1>11, Lowered
<1>13. Truthful' /\ Recycles' /\ Served'
  <2>1. \A j \in Inst : ctrl'[j].lock = ctrl[j].lock
    BY <1>5, <1>7
  <2> QED BY <1>1, <1>2, <1>3, <1>6, <1>8, <2>1, EntryKept
<1> QED BY <1>3, <1>12, <1>13 DEF Current

\* The session leaves the page, which it may have to load first: the disk has
\* the newest one then (dtc_buf_finish).
LEMMA NowLeave ==
    ASSUME IInv, IInv', Safe, Safe', Current, NEW i \in Inst, LeavePage(i)
    PROVE  Current'
<1> DEFINE a == dtc_buf_finish(ctrl[i], disk)
<1>1. /\ TypeOK /\ BlockOK(i) /\ WriterOK(i) /\ Latest \in Nat /\ ctrl[i] \in BufCtrl /\ LatchOK(i)
      /\ disk \in Nat
  BY LsnTypes DEF IInv, TypeOK, Current, Blocks, Writers, Safe, Orderly
<1>2. /\ res' = res /\ inv' = inv /\ sn' = sn /\ mark' = mark /\ msgs' = msgs
      /\ disk' = disk /\ hist' = hist /\ panic' = panic
  BY DEF LeavePage
<1>3. /\ ctrl' = [ctrl EXCEPT ![i] = a] /\ ses[i].st = "got"
      /\ ses' = [ses EXCEPT ![i] = [st |-> "idle", mode |-> DRC_LOCK_NULL]]
  BY DEF LeavePage
<1>4. ctrl[i].load = "need" => disk = Latest
  BY <1>3 DEF Current, Flow, Loads, Stored
<1>5. ctrl[i].lock # DRC_LOCK_NULL
  BY <1>1, <1>3 DEF LatchOK, ReqMode, DRC_LOCK_NULL, DRC_LOCK_SHARE, DRC_LOCK_EXCLUSIVE
<1>6. /\ a.lock = ctrl[i].lock /\ a.load = "loaded" /\ a.lsn = Latest /\ a.inmem = ctrl[i].inmem
      /\ a.edp = ctrl[i].edp /\ a.dirty = ctrl[i].dirty /\ a.rdirty = ctrl[i].rdirty
  BY <1>1, <1>4, <1>5 DEF dtc_buf_finish, BufCtrl, BlockOK
<1> HIDE DEF a
<1>7. /\ ctrl'[i] = a /\ ses'[i].st = "idle"
      /\ \A j \in Inst : j # i => ctrl'[j] = ctrl[j] /\ ses'[j].st = ses[j].st
  BY <1>1, <1>3 DEF TypeOK
<1>8. SameGiven /\ Latest' = Latest
  BY <1>2 DEF SameGiven, Latest
<1>9. BlockOK(i)'
  BY <1>1, <1>5, <1>6, <1>7, <1>8 DEF BlockOK, Busy
<1>10. WriterOK(i)'
  BY <1>1, <1>2, <1>6, <1>7, <1>8, PlaceSame DEF WriterOK, Unsaved
<1>11. Keeps(i) => Keeps(i)'
  BY <1>2, <1>6, <1>7, <1>8 DEF Keeps, Unsaved
<1>12. Blocks' /\ Writers' /\ Flow'
  BY <1>2, <1>6, <1>7, <1>8, <1>9, <1>10, <1>11, Lowered
<1>13. Truthful' /\ Recycles' /\ Served'
  <2>1. \A j \in Inst : ctrl'[j].lock = ctrl[j].lock
    BY <1>6, <1>7
  <2> QED BY <1>1, <1>2, <1>8, <2>1, EntryKept
<1> QED BY <1>2, <1>12, <1>13 DEF Current

\* A block that is clean and not being written may lose its page.
LEMMA CleanDropped ==
    ASSUME Current, NEW i \in Inst, Latest > 0,
           ~ Busy(i), mark[i] = 0, Place(i) => ~ Unsaved(ctrl[i]),
           ctrl'[i].lock = DRC_LOCK_NULL, ctrl'[i].load = "failed" \/ ~ ctrl'[i].inmem,
           ctrl'[i].load # "loaded", ctrl'[i].lsn <= Latest,
           ctrl'[i].edp => ctrl[i].edp /\ ctrl'[i].dirty /\ ctrl'[i].inmem,
           Unsaved(ctrl[i])' => Unsaved(ctrl[i]),
           \A j \in Inst : j # i => ctrl'[j] = ctrl[j],
           hist' = hist, disk' = disk, mark' = mark, msgs' = msgs, ses' = ses, res' = res
    PROVE  Blocks' /\ Writers' /\ Flow' /\ Latest' = Latest
<1>1. BlockOK(i) /\ WriterOK(i)
  BY DEF Current, Blocks, Writers
<1>2. SameGiven /\ Latest' = Latest
  BY DEF SameGiven, Latest
<1>3. BlockOK(i)'
  BY <1>1, <1>2 DEF BlockOK, Busy
<1>4. ~ Unsaved(ctrl[i])
  BY <1>1 DEF WriterOK
<1>5. WriterOK(i)'
  BY <1>4 DEF WriterOK, DRC_LOCK_NULL, DRC_LOCK_EXCLUSIVE
<1>6. ~ Keeps(i)
  BY <1>4 DEF Keeps
<1>7. ~ (ses'[i].st = "got" /\ ctrl'[i].load = "need")
  BY DEF Busy
<1> QED BY <1>2, <1>3, <1>5, <1>6, <1>7, Lowered

\* The block is evicted.
LEMMA NowEvict ==
    ASSUME IInv, IInv', Safe, Safe', Current, NEW i \in Inst, Evict(i)
    PROVE  Current'
<1>1. TypeOK /\ Latest \in Nat /\ Latest > 0
  BY LsnTypes DEF IInv
<1>2. /\ res' = res /\ inv' = inv /\ sn' = sn /\ mark' = mark /\ msgs' = msgs /\ ses' = ses
      /\ disk' = disk /\ hist' = hist /\ panic' = panic
  BY DEF Evict
<1>3. ctrl' = [ctrl EXCEPT ![i] = NoCtrl] /\ CanEvict(i)
  BY DEF Evict
<1>4. ~ Busy(i) /\ mark[i] = 0 /\ ~ Unsaved(ctrl[i])
  BY <1>3 DEF CanEvict, LatchFree, BUF_IN_USE_IS_RECYCLABLE, Unsaved, Busy
<1>5. ctrl'[i] = NoCtrl /\ \A j \in Inst : j # i => ctrl'[j] = ctrl[j]
  BY <1>1, <1>3 DEF TypeOK
<1>6. /\ NoCtrl.lock = DRC_LOCK_NULL /\ ~ NoCtrl.inmem /\ NoCtrl.load = "need" /\ NoCtrl.lsn = 0
      /\ ~ NoCtrl.edp /\ ~ NoCtrl.dirty /\ ~ NoCtrl.rdirty
  BY DEF NoCtrl
<1>7. Blocks' /\ Writers' /\ Flow' /\ Latest' = Latest
  <2>1. ~ Unsaved(ctrl[i])'
    BY <1>5, <1>6 DEF Unsaved
  <2> QED BY <1>1, <1>2, <1>4, <1>5, <1>6, <2>1, CleanDropped
<1>8. Truthful' /\ Recycles' /\ Served'
  <2>1. \A j \in Inst : ses'[j].st = "ask" => ctrl'[j].lock = ctrl[j].lock
    BY <1>2, <1>4, <1>5 DEF Busy
  <2> QED BY <1>1, <1>2, <1>7, <2>1, EntryKept
<1> QED BY <1>2, <1>7, <1>8 DEF Current

\* A round goes on.
LEMMA RoundStays ==
    ASSUME IInv, IInv', Safe', Current, hist' = hist, sn' = sn, res' = res, msgs' = msgs,
           NEW r \in inv, NEW x, inv' = (inv \ {r}) \cup {x},
           x.req = r.req, x.retry = r.retry, x.copies = r.copies, x.owner = r.owner,
           x.wait \subseteq r.wait, Serves(x) <=> Serves(r),
           \A j \in Inst : ses'[j].st = "ask" => ctrl'[j].lock = ctrl[j].lock
    PROVE  Truthful' /\ Recycles' /\ Served'
<1>1. Latest \in Nat /\ Latest' = Latest
  BY LsnTypes DEF IInv, Latest
<1>2. /\ \A s \in inv' : Serves(s) => Tells(s.req)
      /\ \A s \in inv' : ~ s.retry
  BY DEF Current, Truthful
<1>3. Truthful'
  BY <1>1, <1>2, TruthKept DEF Current, Truthful
<1>4. Recycles'
  BY DEF Current, Recycles, Serves, IsRecycle
<1>5. Served'
  BY DEF Current, Served, Serves, IsRecycle, Converting
<1> QED BY <1>3, <1>4, <1>5

\* An instance drops its copy: it is neither the owner nor about to be.
LEMMA NowInvalidate ==
    ASSUME IInv, IInv', Safe, Safe', Current, NEW j \in Inst, InvalidateCopy(j)
    PROVE  Current'
<1> DEFINE ok == ctrl[j].inmem => DCS_BUF_CTRL_NOT_OWNER(ctrl[j])
           w(r) == IF j = Master /\ ~ ok THEN {} ELSE r.wait \ {j}
           r1(r) == [r EXCEPT !.ok = r.ok /\ ok, !.wait = w(r)]
           c == IF ctrl[j].inmem /\ ok THEN Invalidated(ctrl[j]) ELSE ctrl[j]
<1>1. /\ TypeOK /\ RoundsSound /\ Latest \in Nat /\ Latest > 0 /\ ctrl[j] \in BufCtrl
      /\ WriterOK(j) /\ BlockOK(j)
  BY LsnTypes DEF IInv, TypeOK, CatalogueSound, Current, Writers, Blocks
<1>2. PICK r \in inv : /\ r.kind # "recycled" /\ j \in r.wait
                       /\ ctrl[j].inmem => LatchFree(j) /\ mark[j] = 0
                       /\ inv' = (inv \ {r}) \cup {r1(r)}
                       /\ ctrl' = [ctrl EXCEPT ![j] = c]
  BY Zenon DEF InvalidateCopy
<1>3. /\ res' = res /\ sn' = sn /\ mark' = mark /\ msgs' = msgs /\ ses' = ses
      /\ disk' = disk /\ hist' = hist /\ panic' = panic
  BY DEF InvalidateCopy
<1>4. \A m \in msgs : m.t # "claim"
  <2>1. CASE IsRecycle(r)
    BY <2>1, RestPending DEF AtRest
  <2>2. CASE Serves(r)
    <3>1. r.req = res.conv
      BY <2>2 DEF Safe, Serving
    <3>2. r \in RoundFor(res.conv.inst)
      BY <2>2, <3>1 DEF RoundFor
    <3> QED BY <3>2 DEF Safe, Claims
  <2> QED BY <2>1, <2>2 DEF Serves
<1>5. j # res.owner
  BY <1>1, <1>2 DEF Safe, Serving, Serves, Current, Recycles, RoundsSound
<1>6. ~ Place(j)
  BY <1>4, <1>5 DEF Place, XClaim
<1>7. ~ Unsaved(ctrl[j]) /\ ctrl[j].lock # DRC_LOCK_EXCLUSIVE
  BY <1>1, <1>6 DEF WriterOK
<1>8. ok
  BY <1>1, <1>7 DEF DCS_BUF_CTRL_NOT_OWNER, BufCtrl, LockMode, DRC_LOCK_NULL, DRC_LOCK_SHARE, DRC_LOCK_EXCLUSIVE
<1>9. PICK x : x = r1(r)
  OBVIOUS
<1>10. r \in RoundType
  BY <1>1 DEF TypeOK
<1>11. /\ x.req = r.req /\ x.retry = r.retry /\ x.copies = r.copies /\ x.owner = r.owner
       /\ x.kind = r.kind /\ x.wait \subseteq r.wait
  <2> HIDE DEF ok
  <2> QED BY <1>8, <1>9, <1>10 DEF RoundType
<1>12. inv' = (inv \ {r}) \cup {x} /\ (Serves(x) <=> Serves(r))
  BY <1>2, <1>9, <1>11 DEF Serves, IsRecycle
<1>13. Blocks' /\ Writers' /\ Flow' /\ \A k \in Inst : ses'[k].st = "ask" => ctrl'[k].lock = ctrl[k].lock
  <2>1. CASE ctrl[j].inmem
    <3>1. c = Invalidated(ctrl[j])
      BY <1>8, <2>1
    <3>2. ctrl'[j] = Invalidated(ctrl[j]) /\ \A k \in Inst : k # j => ctrl'[k] = ctrl[k]
      BY <1>1, <1>2, <3>1 DEF TypeOK
    <3>3. LET f == Invalidated(ctrl[j])
          IN  /\ f.lock = DRC_LOCK_NULL /\ f.load = "failed" /\ f.lsn = ctrl[j].lsn
              /\ f.edp = ctrl[j].edp /\ f.inmem = ctrl[j].inmem /\ f.dirty = ctrl[j].dirty /\ f.rdirty = ctrl[j].rdirty
      BY <1>1 DEF Invalidated, BufCtrl
    <3>4. ~ Busy(j) /\ mark[j] = 0
      BY <1>2, <2>1 DEF LatchFree, Busy
    <3>5. Unsaved(ctrl[j])' => Unsaved(ctrl[j])
      BY <3>2, <3>3 DEF Unsaved
    <3>6. ctrl[j].lsn <= Latest /\ (ctrl[j].edp => ctrl[j].dirty /\ ctrl[j].inmem)
      BY <1>1 DEF BlockOK
    <3>7. Blocks' /\ Writers' /\ Flow'
      BY <1>1, <1>3, <1>6, <3>2, <3>3, <3>4, <3>5, <3>6, CleanDropped
    <3> QED BY <1>3, <3>2, <3>4, <3>7 DEF Busy
  <2>2. CASE ~ ctrl[j].inmem
    <3>1. ctrl' = ctrl
      BY <1>1, <1>2, <2>2 DEF TypeOK
    <3>2. SameGiven
      BY <1>3 DEF SameGiven
    <3> QED BY <1>3, <3>1, <3>2, SameBlocks
  <2> QED BY <2>1, <2>2
<1>14. Truthful' /\ Recycles' /\ Served'
  BY <1>3, <1>11, <1>12, <1>13, RoundStays
<1> QED BY <1>3, <1>13, <1>14 DEF Current

\* The owner gives the page up for recycling when it could evict it.
LEMMA NowRecycleOwner ==
    ASSUME IInv, IInv', Safe, Safe', Current, RecycleOwner
    PROVE  Current'
<1> DEFINE Ok(o) == \/ ~ ctrl[o].inmem
                    \/ CanEvict(o) /\ (ctrl[o].lock = DRC_LOCK_NULL \/ DCS_BUF_CTRL_IS_OWNER(ctrl[o]))
           C(o) == IF Ok(o) /\ ctrl[o].lock # DRC_LOCK_NULL THEN Invalidated(ctrl[o]) ELSE ctrl[o]
<1>1. PICK r \in inv : /\ r.kind = "recycle" /\ r.wait = {}
                       /\ inv' = (inv \ {r}) \cup {[r EXCEPT !.kind = "recycled", !.ok = Ok(r.owner)]}
                       /\ ctrl' = [ctrl EXCEPT ![r.owner] = C(r.owner)]
  BY Zenon DEF RecycleOwner
<1>2. /\ res' = res /\ sn' = sn /\ mark' = mark /\ msgs' = msgs /\ ses' = ses
      /\ disk' = disk /\ hist' = hist /\ panic' = panic
  BY DEF RecycleOwner
<1>3. IsRecycle(r) /\ r.owner \in Inst
  BY <1>1, RestPending DEF IsRecycle
<1>4. PICK o \in Inst : o = r.owner
  BY <1>3
<1>5. /\ TypeOK /\ Latest \in Nat /\ Latest > 0 /\ ctrl[o] \in BufCtrl /\ BlockOK(o) /\ LatchOK(o)
      /\ r \in RoundType
  BY LsnTypes DEF IInv, TypeOK, Current, Blocks, Safe, Orderly
<1>6. PICK x : x = [r EXCEPT !.kind = "recycled", !.ok = Ok(r.owner)]
  OBVIOUS
<1>7. /\ x.req = r.req /\ x.retry = r.retry /\ x.copies = r.copies /\ x.owner = r.owner
      /\ x.kind = "recycled" /\ x.wait = r.wait
  BY <1>5, <1>6 DEF RoundType
<1>8. inv' = (inv \ {r}) \cup {x} /\ (Serves(x) <=> Serves(r))
  BY <1>1, <1>3, <1>6, <1>7 DEF Serves, IsRecycle
<1>9. Blocks' /\ Writers' /\ Flow' /\ \A k \in Inst : ses'[k].st = "ask" => ctrl'[k].lock = ctrl[k].lock
  <2>1. CASE Ok(o) /\ ctrl[o].lock # DRC_LOCK_NULL
    <3>1. CanEvict(o)
      BY <1>5, <2>1 DEF LatchOK
    <3>2. ctrl'[o] = Invalidated(ctrl[o]) /\ \A k \in Inst : k # o => ctrl'[k] = ctrl[k]
      BY <1>1, <1>4, <1>5, <2>1 DEF TypeOK
    <3>3. LET f == Invalidated(ctrl[o])
          IN  /\ f.lock = DRC_LOCK_NULL /\ f.load = "failed" /\ f.lsn = ctrl[o].lsn
              /\ f.edp = ctrl[o].edp /\ f.inmem = ctrl[o].inmem /\ f.dirty = ctrl[o].dirty /\ f.rdirty = ctrl[o].rdirty
      BY <1>5 DEF Invalidated, BufCtrl
    <3>4. ~ Busy(o) /\ mark[o] = 0 /\ ~ Unsaved(ctrl[o])
      BY <3>1 DEF CanEvict, LatchFree, BUF_IN_USE_IS_RECYCLABLE, Unsaved, Busy
    <3>5. Unsaved(ctrl[o])' => Unsaved(ctrl[o])
      BY <3>2, <3>3 DEF Unsaved
    <3>6. ctrl[o].lsn <= Latest /\ (ctrl[o].edp => ctrl[o].dirty /\ ctrl[o].inmem)
      BY <1>5 DEF BlockOK
    <3>7. Blocks' /\ Writers' /\ Flow'
      BY <1>2, <1>5, <3>2, <3>3, <3>4, <3>5, <3>6, CleanDropped
    <3> QED BY <1>2, <3>2, <3>4, <3>7 DEF Busy
  <2>2. CASE ~ (Ok(o) /\ ctrl[o].lock # DRC_LOCK_NULL)
    <3>1. ctrl' = ctrl
      BY <1>1, <1>4, <1>5, <2>2 DEF TypeOK
    <3>2. SameGiven
      BY <1>2 DEF SameGiven
    <3> QED BY <1>2, <3>1, <3>2, SameBlocks
  <2> QED BY <2>1, <2>2
<1>10. Truthful' /\ Recycles' /\ Served'
  BY <1>2, <1>7, <1>8, <1>9, RoundStays
<1> QED BY <1>2, <1>9, <1>10 DEF Current

-----------------------------------------------------------------------------
(***************************************************************************)
(* Taking the page.                                                        *)
(***************************************************************************)
\* The other blocks stay while instance i takes the page.
LEMMA OthersStay ==
    ASSUME Current, NEW i \in Inst, hist' = hist, mark' = mark,
           \A j \in Inst : Place(j) => Place(j)',
           \A j \in Inst : j # i => ctrl'[j] = ctrl[j] /\ ses'[j].st = ses[j].st,
           BlockOK(i)', WriterOK(i)'
    PROVE  Blocks' /\ Writers'
<1>1. Blocks'
  BY BlockSame DEF Current, Blocks
<1>2. Writers'
  BY WriterSame DEF Current, Writers
<1> QED BY <1>1, <1>2

\* When neither the owner nor anybody after it has the page, the disk has it.
LEMMA OwnerEmpty ==
    ASSUME TypeOK, Current, \A m \in msgs : m.t \notin {"page", "claim"},
           \A i \in Inst : i = res.owner => ctrl[i].lock = DRC_LOCK_NULL
    PROVE  Stored
<1>1. \A i \in Inst : ~ XClaim(i) /\ (Place(i) => i = res.owner)
  BY DEF XClaim, Place
<1>2. \A i \in Inst : ~ Unsaved(ctrl[i]) /\ mark[i] \in {0, Latest}
  BY <1>1 DEF Current, Writers, WriterOK, Unsaved
<1>3. \A i \in Inst : ~ Keeper(i)
  BY <1>1 DEF Keeper, Keeps, Current, Blocks, BlockOK
<1>4. disk = Latest
  BY <1>3 DEF Current, Flow, Kept, XPage
<1> QED BY <1>2, <1>4 DEF Stored

\* The granted page (dcs_set_ctrl4granted).
LEMMA GrantedFields ==
    ASSUME NEW c \in BufCtrl
    PROVE  LET f == dcs_set_ctrl4granted(c)
           IN  /\ f.load = "need" /\ f.lsn = c.lsn /\ f.inmem = c.inmem
               /\ f.lock = DRC_LOCK_EXCLUSIVE /\ ~ f.edp
<1> DEFINE g == dcs_buf_clean_ctrl_edp(c)
<1>1. g \in BufCtrl /\ g.inmem = c.inmem /\ ~ g.edp /\ g.lsn = c.lsn
  BY CtrlTypes DEF dcs_buf_clean_ctrl_edp, BufCtrl
<1>2. dcs_set_ctrl4granted(c) = [g EXCEPT !.load = "need", !.lock = DRC_LOCK_EXCLUSIVE]
  BY DEF dcs_set_ctrl4granted
<1> HIDE DEF g
<1> QED BY <1>1, <1>2 DEF BufCtrl

\* The granted page is taken: it is on disk.
LEMMA NowNeedLoad ==
    ASSUME IInv, IInv', Safe, Safe', Current, NEW i \in Inst, HandleNeedLoad(i)
    PROVE  Current'
<1> DEFINE a == dcs_set_ctrl4granted(ctrl[i])
<1>1. /\ TypeOK /\ BlockOK(i) /\ WriterOK(i) /\ Latest \in Nat /\ ctrl[i] \in BufCtrl
  BY LsnTypes DEF IInv, TypeOK, Current, Blocks, Writers
<1>2. PICK m \in msgs : m.t = "load" /\ m.to = i /\ Exchange(m, {})
  BY DEF HandleNeedLoad
<1>3. /\ res' = res /\ inv' = inv /\ sn' = sn /\ mark' = mark
      /\ disk' = disk /\ hist' = hist /\ panic' = (panic \/ CleanEdpPanics(ctrl[i]))
  BY DEF HandleNeedLoad
<1>4. ctrl' = [ctrl EXCEPT ![i] = a] /\ ses' = [ses EXCEPT ![i].st = "got"]
  BY DEF HandleNeedLoad
<1>5. i = res.owner /\ Stored
  BY <1>2 DEF Safe, Serving, Current, Flow, Loads
<1>6. /\ a.load = "need" /\ a.lsn = ctrl[i].lsn /\ a.inmem = ctrl[i].inmem
      /\ a.lock = DRC_LOCK_EXCLUSIVE /\ ~ a.edp
  BY <1>1, GrantedFields
<1> HIDE DEF a
<1>7. /\ ctrl'[i] = a /\ ses'[i].st = "got"
      /\ \A j \in Inst : j # i => ctrl'[j] = ctrl[j] /\ ses'[j].st = ses[j].st
  BY <1>1, <1>4 DEF TypeOK
<1>8. (\A n \in msgs' : n \in msgs) /\ \A n \in msgs : n # m => n \in msgs'
  BY <1>2, Network, Delivered
<1>9. Latest' = Latest /\ Stored'
  BY <1>3, <1>5 DEF Latest, Stored
<1>10. \A j \in Inst : Place(j) => Place(j)'
  BY <1>2, <1>3, <1>8 DEF Place, XClaim
<1>11. BlockOK(i)'
  BY <1>1, <1>6, <1>7, <1>9 DEF BlockOK, Busy, DRC_LOCK_EXCLUSIVE, DRC_LOCK_NULL
<1>12. WriterOK(i)'
  <2>1. Place(i)' /\ mark'[i] \in {0, Latest'}
    BY <1>3, <1>5, <1>9 DEF Place, Stored
  <2> QED BY <1>6, <1>7, <2>1 DEF WriterOK, DRC_LOCK_EXCLUSIVE, DRC_LOCK_NULL
<1>13. Blocks' /\ Writers'
  BY <1>3, <1>7, <1>10, <1>11, <1>12, OthersStay
<1>14. Flow'
  <2>1. Lsns'
    BY <1>3, <1>8, <1>9 DEF Current, Flow, Lsns
  <2>2. Kept'
    BY <1>9 DEF Kept, Stored
  <2>3. OwnerClean'
    BY <1>3, <1>5, <1>6, <1>7 DEF OwnerClean
  <2>9. ClaimsClean'
    BY <1>6, <1>7, <1>8 DEF Current, Flow, ClaimsClean, XClaim
  <2> QED BY <1>9, <2>1, <2>2, <2>3, <2>9 DEF Flow
<1>15. Truthful' /\ Recycles' /\ Served'
  <2>1. \A j \in Inst : ses'[j].st = "ask" => ctrl'[j].lock = ctrl[j].lock
    BY <1>7
  <2> QED BY <1>1, <1>2, <1>3, <1>8, <1>9, <2>1, EntryKept
<1>16. ~ panic'
  <2>1. ctrl[i].edp => ctrl[i].lock = DRC_LOCK_NULL
    BY <1>5 DEF Safe, EdpSound, Current
  <2> QED BY <1>1, <1>3, <2>1 DEF CleanEdpPanics, DCS_BUF_CTRL_NOT_OWNER, BlockOK, Current
<1> QED BY <1>13, <1>14, <1>15, <1>16 DEF Current

\* A claim is delivered, and the message it answers is gone.
LEMMA ClaimSent ==
    ASSUME NEW m, NEW y, y.t = "claim", Exchange(m, {y})
    PROVE  /\ y \in msgs' /\ \A n \in msgs' : (n \in msgs /\ n # m) \/ n = y
           /\ \A n \in msgs : n # m => n \in msgs'
<1>1. /\ \A n \in msgs' : (n \in msgs /\ n # m) \/ n \in {y}
      /\ \A n \in msgs : n # m => n \in msgs'
      /\ \A n \in {y} : n.t \notin Replies \/ n.sn = sn[n.to] => n \in msgs'
  BY Network, Delivered
<1> QED BY <1>1 DEF Replies

\* The owner is told that it is the owner: it takes the lock that it asked for.
LEMMA NowAlreadyOwner ==
    ASSUME IInv, IInv', Safe, Safe', Current, NEW i \in Inst, HandleAlreadyOwner(i)
    PROVE  Current'
<1>1. /\ TypeOK /\ BlockOK(i) /\ WriterOK(i) /\ Latest \in Nat /\ Latest > 0 /\ ctrl[i] \in BufCtrl
      /\ Orderly(i) /\ ses[i].mode \in LockMode
  BY LsnTypes DEF IInv, TypeOK, Current, Blocks, Writers, Safe
<1>2. PICK m \in msgs :
        /\ m.t = "already" /\ m.to = i
        /\ ctrl' = [ctrl EXCEPT ![i] = dcs_set_ctrl4already_owner(ctrl[i], m.mode)]
        /\ Exchange(m, {Claim(i, m.mode, FALSE,
                              dtc_get_ctrl_latest_lsn(dcs_set_ctrl4already_owner(ctrl[i], m.mode)))})
        /\ panic' = (panic \/ ctrl[i].edp \/ ses[i].mode > m.mode)
  BY Zenon DEF HandleAlreadyOwner
<1>3. /\ res' = res /\ inv' = inv /\ sn' = sn /\ mark' = mark /\ disk' = disk /\ hist' = hist
      /\ ses' = [ses EXCEPT ![i].st = "got"] /\ ses[i].st = "ask"
  BY DEF HandleAlreadyOwner
<1>4. m.mode \in ReqMode /\ m.mode \in LockMode /\ m.mode # DRC_LOCK_NULL
  BY <1>1, <1>2, MsgFields DEF TypeOK, ReqMode, LockMode, DRC_LOCK_NULL, DRC_LOCK_SHARE, DRC_LOCK_EXCLUSIVE
<1>5. PICK a : a = dcs_set_ctrl4already_owner(ctrl[i], m.mode)
  OBVIOUS
<1>6. /\ a.lock = m.mode /\ a.load = ctrl[i].load /\ a.lsn = ctrl[i].lsn /\ a.inmem = ctrl[i].inmem
      /\ a.edp = ctrl[i].edp /\ a.dirty = ctrl[i].dirty /\ a.rdirty = ctrl[i].rdirty
  BY <1>1, <1>5 DEF dcs_set_ctrl4already_owner, BufCtrl
<1>7. PICK y : y = Claim(i, m.mode, FALSE, dtc_get_ctrl_latest_lsn(a))
  OBVIOUS
<1>8. /\ y.t = "claim" /\ y.inst = i /\ y.mode = m.mode /\ y.edp = FALSE
      /\ y.lsn = dtc_get_ctrl_latest_lsn(a)
      /\ y \in msgs' /\ \A n \in msgs' : (n \in msgs /\ n # m) \/ n = y
      /\ \A n \in msgs : n # m => n \in msgs'
  <2>1. Exchange(m, {y})
    BY <1>2, <1>5, <1>7, Zenon
  <2>2. /\ y.t = "claim" /\ y.inst = i /\ y.mode = m.mode /\ y.edp = FALSE
        /\ y.lsn = dtc_get_ctrl_latest_lsn(a)
    BY <1>7 DEF Claim
  <2> QED BY <2>1, <2>2, ClaimSent
<1>9. i = res.owner
  BY <1>2 DEF Safe, Serving
<1>10. \A n \in msgs : n # m => n.t \notin {"own", "already", "page", "claim"}
  BY <1>2, RestAnswer DEF AtRest
<1>11. ~ ctrl[i].edp
  <2>1. \A n \in msgs : Token(n) /\ For(n) = i => n = m
    <3>1. Token(m) /\ For(m) = i
      BY <1>2, ForWhom DEF Replies
    <3> QED BY <1>1, <3>1, OnlyMsg
  <2>2. \A n \in msgs : n.t # "load"
    <3> SUFFICES ASSUME NEW n \in msgs, n.t = "load" PROVE FALSE
      OBVIOUS
    <3>1. n.to = i /\ Token(n) /\ For(n) = i
      BY <1>9, ForWhom DEF Safe, Serving, Replies
    <3> QED BY <1>2, <2>1, <3>1
  <2> QED BY <1>2, <1>9, <1>10, <2>2 DEF Current, Flow, OwnerClean, Leaving, XPage
<1>12. /\ ctrl'[i] = a /\ ses'[i].st = "got"
       /\ \A j \in Inst : j # i => ctrl'[j] = ctrl[j] /\ ses'[j].st = ses[j].st
  BY <1>1, <1>2, <1>3, <1>5 DEF TypeOK
<1>13. Latest' = Latest
  BY <1>3 DEF Latest
<1>14. ctrl[i].load = "need" => Stored
  <2>1. \A n \in msgs : n.t \notin {"page", "claim"}
    BY <1>2, <1>10
  <2>2. ctrl[i].load = "need" => ctrl[i].lock = DRC_LOCK_NULL
    BY <1>1, <1>3 DEF BlockOK
  <2> QED BY <1>1, <1>9, <2>1, <2>2, OwnerEmpty
<1>15. \A j \in Inst : Place(j) => Place(j)'
  BY <1>2, <1>3, <1>8 DEF Place, XClaim
<1>16. BlockOK(i)'
  BY <1>1, <1>3, <1>4, <1>6, <1>12, <1>13 DEF BlockOK, Busy, BufCtrl
<1>17. WriterOK(i)'
  <2>1. Place(i)'
    BY <1>3, <1>9 DEF Place
  <2> QED BY <1>1, <1>3, <1>4, <1>6, <1>12, <1>13, <2>1 DEF WriterOK
<1>18. Blocks' /\ Writers'
  BY <1>3, <1>12, <1>15, <1>16, <1>17, OthersStay
<1>19. Flow'
  <2>1. y.lsn = IF ctrl[i].load = "loaded" THEN Latest ELSE 0
    BY <1>1, <1>6, <1>8 DEF dtc_get_ctrl_latest_lsn, BlockOK
  <2>2. Lsns'
    BY <1>1, <1>3, <1>8, <1>13, <2>1 DEF Current, Flow, Lsns
  <2>3. Stored => Stored'
    BY <1>3, <1>13 DEF Stored
  <2>4. Loads' => Stored'
    <3>1. Loads' => Loads \/ ctrl[i].load = "need"
      BY <1>6, <1>8, <1>12 DEF Loads
    <3> QED BY <1>14, <2>3, <3>1 DEF Current, Flow
  <2>5. OwnerClean'
    BY <1>3, <1>6, <1>9, <1>11, <1>12 DEF OwnerClean
  <2>6. Kept'
    <3>1. CASE disk = Latest
      BY <1>3, <1>13, <3>1 DEF Kept
    <3>2. CASE disk # Latest
      <4>1. \A n \in msgs : ~ XPage(n) /\ n.t # "claim"
        BY <1>2, <1>10 DEF XPage
      <4>2. Keeps(i)
        BY <1>9, <3>2, <4>1 DEF Current, Flow, Kept, Keeper, XClaim
      <4>3. Keeps(i)'
        BY <1>3, <1>6, <1>12, <1>13, <4>2 DEF Keeps, Unsaved
      <4>4. \A n \in msgs' : ~ XPage(n)
        BY <1>8, <4>1 DEF XPage
      <4>5. \A j \in Inst : XClaim(j)' => j = i
        BY <1>8, <4>1 DEF XClaim
      <4>6. Keeper(i)'
        BY <1>3, <1>9, <4>3, <4>5 DEF Keeper
      <4> QED BY <4>4, <4>6 DEF Kept, XPage
    <3> QED BY <3>1, <3>2
  <2>9. ClaimsClean'
    BY <1>6, <1>8, <1>10, <1>11, <1>12 DEF ClaimsClean, XClaim
  <2> QED BY <2>2, <2>4, <2>5, <2>6, <2>9 DEF Flow
<1>20. Truthful' /\ Recycles' /\ Served'
  <2>1. \A j \in Inst : ses'[j].st = "ask" => ctrl'[j].lock = ctrl[j].lock
    BY <1>12
  <2> QED BY <1>1, <1>3, <1>8, <1>13, <2>1, EntryKept
<1>21. ~ panic'
  <2>1. m.mode >= ses[i].mode
    BY <1>1, <1>2 DEF Orderly, Wants, MsgFor, Token, For, Replies
  <2>2. m.mode \in Nat /\ ses[i].mode \in Nat
    BY <1>1, <1>4 DEF LockMode
  <2>3. ~ (ses[i].mode > m.mode)
    BY <2>1, <2>2
  <2> QED BY <1>2, <1>11, <2>3, Zenon DEF Current
<1> QED BY <1>18, <1>19, <1>20, <1>21 DEF Current

\* The page that the owner sent (dcs_handle_page_from_owner).
LEMMA PageFields ==
    ASSUME NEW c \in BufCtrl, NEW ack, ack.lsn \in Nat
    PROVE  LET f == dcs_handle_page_from_owner(c, ack)
               x == ack.mode = DRC_LOCK_EXCLUSIVE
           IN  /\ f.lock = ack.mode /\ f.inmem = c.inmem
               /\ f.lsn = IF ack.flag = "page" THEN ack.lsn ELSE c.lsn
               /\ f.load = IF ack.flag = "need" THEN "need" ELSE "loaded"
               /\ f.rdirty = (x /\ (ack.dirty \/ ack.rdirty))
               /\ f.edp = (c.edp /\ ~ x /\ ack.flag # "need")
               /\ f.dirty = (c.dirty /\ ~ (ack.flag = "need" /\ c.edp))
<1> DEFINE c1 == IF ack.flag = "page" THEN [c EXCEPT !.lsn = ack.lsn] ELSE c
           c2 == IF ack.flag = "need" THEN dcs_buf_clean_ctrl_edp(c1) ELSE c1
           rd == ack.mode = DRC_LOCK_EXCLUSIVE /\ (ack.dirty \/ ack.rdirty)
           ld == IF ack.flag = "need" THEN "need" ELSE "loaded"
           ed == IF ack.mode = DRC_LOCK_EXCLUSIVE THEN FALSE ELSE c2.edp
<1>1. /\ c1 \in BufCtrl /\ c1.inmem = c.inmem /\ c1.edp = c.edp /\ c1.dirty = c.dirty
      /\ c1.lsn = IF ack.flag = "page" THEN ack.lsn ELSE c.lsn
  BY DEF BufCtrl
<1>2. /\ c2 \in BufCtrl /\ c2.inmem = c.inmem /\ c2.lsn = c1.lsn
      /\ c2.edp = (c.edp /\ ack.flag # "need")
      /\ c2.dirty = (c.dirty /\ ~ (ack.flag = "need" /\ c.edp))
  <2> HIDE DEF c1
  <2>1. dcs_buf_clean_ctrl_edp(c1) \in BufCtrl
    BY <1>1, CtrlTypes
  <2>2. c1.edp \in BOOLEAN /\ c1.dirty \in BOOLEAN
    BY <1>1 DEF BufCtrl
  <2>3. CASE ack.flag # "need"
    BY <1>1, <2>2, <2>3
  <2>4. CASE ack.flag = "need" /\ ~ c1.edp
    BY <1>1, <2>2, <2>4 DEF dcs_buf_clean_ctrl_edp
  <2>5. CASE ack.flag = "need" /\ c1.edp
    <3>1. c2 = [c1 EXCEPT !.dirty = FALSE, !.rdirty = FALSE, !.edp = FALSE]
      BY <2>5 DEF dcs_buf_clean_ctrl_edp
    <3>2. /\ c2.inmem = c1.inmem /\ c2.lsn = c1.lsn /\ c2.edp = FALSE /\ c2.dirty = FALSE
      BY <1>1, <3>1 DEF BufCtrl
    <3> QED BY <1>1, <2>1, <2>5, <3>2
  <2> QED BY <2>3, <2>4, <2>5
<1>3. dcs_handle_page_from_owner(c, ack) =
        [c2 EXCEPT !.lock = ack.mode, !.load = ld, !.edp = ed, !.rdirty = rd]
  BY Zenon DEF dcs_handle_page_from_owner
<1>4. ed = (c.edp /\ ack.mode # DRC_LOCK_EXCLUSIVE /\ ack.flag # "need")
  <2> HIDE DEF c2
  <2> QED BY <1>2
<1>5. PICK f : f = [c2 EXCEPT !.lock = ack.mode, !.load = ld, !.edp = ed, !.rdirty = rd]
  OBVIOUS
<1>6. /\ f.lock = ack.mode /\ f.load = ld /\ f.edp = ed /\ f.rdirty = rd
      /\ f.inmem = c2.inmem /\ f.lsn = c2.lsn /\ f.dirty = c2.dirty
  <2> HIDE DEF c2, ld, ed, rd
  <2> QED BY <1>2, <1>5 DEF BufCtrl
<1>7. dcs_handle_page_from_owner(c, ack) = f
  BY <1>3, <1>5
<1> HIDE DEF c1, c2, ed
<1> QED BY <1>1, <1>2, <1>4, <1>6, <1>7

\* The session takes the page from its owner, and with it the duty to write it
\* when it takes it exclusively.
LEMMA NowPageReady ==
    ASSUME IInv, IInv', Safe, Safe', Current, NEW i \in Inst, HandlePageReady(i)
    PROVE  Current'
<1>1. /\ TypeOK /\ BlockOK(i) /\ WriterOK(i) /\ Latest \in Nat /\ Latest > 0 /\ ctrl[i] \in BufCtrl
      /\ Orderly(i) /\ ses[i].mode \in LockMode /\ ctrl[i].lsn \in Nat
  BY LsnTypes DEF IInv, TypeOK, Current, Blocks, Writers, Safe
<1>2. PICK m \in msgs :
        /\ m.t = "page" /\ m.to = i
        /\ ctrl' = [ctrl EXCEPT ![i] = dcs_handle_page_from_owner(ctrl[i], m)]
        /\ Exchange(m, {Claim(i, m.mode, m.dirty,
                              dtc_get_ctrl_latest_lsn(dcs_handle_page_from_owner(ctrl[i], m)))})
        /\ panic' = (panic \/ PageFromOwnerPanics(ctrl[i], m) \/ ses[i].mode > m.mode)
  BY Zenon DEF HandlePageReady
<1>3. /\ res' = res /\ inv' = inv /\ sn' = sn /\ mark' = mark /\ disk' = disk /\ hist' = hist
      /\ ses' = [ses EXCEPT ![i].st = "got"] /\ ses[i].st = "ask"
  BY DEF HandlePageReady
<1>4. /\ m.mode \in ReqMode /\ m.mode \in LockMode /\ m.mode # DRC_LOCK_NULL /\ m.lsn \in Nat
      /\ m.flag \in {"page", "r2x", "need"}
  <2>1. m \in Msg
    BY <1>1 DEF TypeOK
  <2>2. m.flag \in {"page", "r2x", "need"}
    BY <1>2, <2>1 DEF Msg, ReplyType
  <2> QED BY <1>2, <2>1, <2>2, MsgFields DEF ReqMode, LockMode, DRC_LOCK_NULL, DRC_LOCK_SHARE, DRC_LOCK_EXCLUSIVE
<1>5. PICK a : a = dcs_handle_page_from_owner(ctrl[i], m)
  OBVIOUS
<1> DEFINE x == m.mode = DRC_LOCK_EXCLUSIVE
<1>6. /\ a.lock = m.mode /\ a.inmem = ctrl[i].inmem
      /\ a.lsn = IF m.flag = "page" THEN m.lsn ELSE ctrl[i].lsn
      /\ a.load = IF m.flag = "need" THEN "need" ELSE "loaded"
      /\ a.rdirty = (x /\ (m.dirty \/ m.rdirty))
      /\ a.edp = (ctrl[i].edp /\ ~ x /\ m.flag # "need")
      /\ a.dirty = (ctrl[i].dirty /\ ~ (m.flag = "need" /\ ctrl[i].edp))
  BY <1>1, <1>4, <1>5, PageFields
<1>7. PICK y : y = Claim(i, m.mode, m.dirty, dtc_get_ctrl_latest_lsn(a))
  OBVIOUS
<1>8. /\ y.t = "claim" /\ y.inst = i /\ y.mode = m.mode /\ y.edp = m.dirty
      /\ y.lsn = dtc_get_ctrl_latest_lsn(a)
      /\ y \in msgs' /\ \A n \in msgs' : (n \in msgs /\ n # m) \/ n = y
      /\ \A n \in msgs : n # m => n \in msgs'
  <2>1. Exchange(m, {y})
    BY <1>2, <1>5, <1>7, Zenon
  <2>2. /\ y.t = "claim" /\ y.inst = i /\ y.mode = m.mode /\ y.edp = m.dirty
        /\ y.lsn = dtc_get_ctrl_latest_lsn(a)
    BY <1>7 DEF Claim
  <2> QED BY <2>1, <2>2, ClaimSent
<1>9. i # res.owner
  BY <1>2 DEF Safe, Serving
<1>10. \A n \in msgs : n # m => n.t \notin {"own", "already", "page", "claim"}
  BY <1>2, RestAnswer DEF AtRest
<1>11. ~ Place(i)
  BY <1>2, <1>9, <1>10 DEF Place, XClaim
<1>12. ~ Unsaved(ctrl[i]) /\ ctrl[i].lock # DRC_LOCK_EXCLUSIVE /\ mark[i] \in {0, Latest}
  BY <1>1, <1>11 DEF WriterOK, Unsaved
<1>13. /\ ctrl'[i] = a /\ ses'[i].st = "got"
       /\ \A j \in Inst : j # i => ctrl'[j] = ctrl[j] /\ ses'[j].st = ses[j].st
  BY <1>1, <1>2, <1>3, <1>5 DEF TypeOK
<1>14. Latest' = Latest
  BY <1>3 DEF Latest
<1>15. a.load = "loaded" => a.lsn = Latest
  <2>1. m.flag = "page" => m.lsn = Latest
    BY <1>2 DEF Current, Flow, Lsns
  <2>2. m.flag = "r2x" => ctrl[i].lock = DRC_LOCK_SHARE
    BY <1>2 DEF Current, Truthful
  <2>3. m.flag = "r2x" => ctrl[i].lsn = Latest
    BY <1>1, <1>3, <2>2 DEF BlockOK, DRC_LOCK_NULL, DRC_LOCK_SHARE
  <2> QED BY <1>4, <1>6, <2>1, <2>3
<1>16. BlockOK(i)'
  <2>1. a.lsn <= Latest
    BY <1>1, <1>6, <1>15 DEF BlockOK
  <2> QED BY <1>1, <1>4, <1>6, <1>13, <1>14, <1>15, <2>1 DEF BlockOK, Busy
<1>17. x => XClaim(i)'
  BY <1>8 DEF XClaim
<1>18. WriterOK(i)'
  <2>1. ~ x => ~ Unsaved(a)
    BY <1>6, <1>12 DEF Unsaved
  <2> QED BY <1>3, <1>4, <1>6, <1>12, <1>13, <1>14, <1>17, <2>1 DEF WriterOK, Place
<1>19. Blocks' /\ Writers'
  <2>1. \A j \in Inst : Place(j) => Place(j)'
    BY <1>2, <1>3, <1>8 DEF Place, XClaim
  <2> QED BY <1>3, <1>13, <1>16, <1>18, <2>1, OthersStay
<1>20. Flow'
  <2>1. y.lsn = IF m.flag = "need" THEN 0 ELSE Latest
    BY <1>6, <1>8, <1>15 DEF dtc_get_ctrl_latest_lsn
  <2>2. m.flag = "need" => ~ m.dirty
    BY <1>2 DEF Current, Flow, Lsns
  <2>3. Lsns'
    BY <1>1, <1>3, <1>8, <1>14, <2>1, <2>2 DEF Current, Flow, Lsns
  <2>4. m.flag = "need" => Stored
    BY <1>2 DEF Current, Flow, Loads
  <2>5. Loads' => Stored'
    <3>1. Loads' => Loads \/ m.flag = "need"
      BY <1>6, <1>8, <1>13 DEF Loads
    <3>2. Stored => Stored'
      BY <1>3, <1>14 DEF Stored
    <3> QED BY <2>4, <3>1, <3>2 DEF Current, Flow
  <2>6. OwnerClean'
    <3> SUFFICES ASSUME NEW j \in Inst, j = res.owner, ctrl'[j].edp
                 PROVE  \E n \in msgs' : Leaving(n)
      BY <1>3 DEF OwnerClean, Leaving, XPage
    <3>1. PICK n \in msgs : Leaving(n)
      BY <1>9, <1>13 DEF Current, Flow, OwnerClean
    <3>2. CASE n = m
      <4>1. Leaving(y)
        BY <1>2, <1>8, <3>1, <3>2 DEF Leaving, XPage
      <4> QED BY <1>8, <4>1
    <3>3. CASE n # m
      BY <1>8, <3>1, <3>3
    <3> QED BY <3>2, <3>3
  <2>7. Kept'
    <3>1. CASE disk = Latest
      BY <1>3, <1>14, <3>1 DEF Kept
    <3>2. CASE disk # Latest
      <4>1. \A n \in msgs' : ~ XPage(n)
        BY <1>8, <1>10 DEF XPage
      <4>2. \E j \in Inst : Keeper(j)'
        <5>1. CASE x
          <6>1. m.dirty \/ m.rdirty
            BY <1>2, <1>10, <3>2, <5>1 DEF Current, Flow, Kept, XPage
          <6>2. a.rdirty /\ a.load = "loaded"
            BY <1>6, <2>4, <3>2, <5>1, <6>1 DEF Stored
          <6> QED BY <1>13, <1>17, <5>1, <6>2 DEF Keeper, Keeps, Unsaved
        <5>2. CASE ~ x
          <6>1. \A n \in msgs : ~ XPage(n) /\ n.t # "claim"
            BY <1>2, <1>10, <5>2 DEF XPage
          <6>2. PICK j \in Inst : Keeps(j) /\ j = res.owner
            BY <3>2, <6>1 DEF Current, Flow, Kept, Keeper, XClaim
          <6>3. Keeps(j)'
            BY <1>3, <1>9, <1>13, <1>14, <6>2 DEF Keeps
          <6>4. \A k \in Inst : ~ XClaim(k)'
            BY <1>8, <5>2, <6>1 DEF XClaim
          <6> QED BY <1>3, <6>2, <6>3, <6>4 DEF Keeper
        <5> QED BY <5>1, <5>2
      <4> QED BY <4>1, <4>2 DEF Kept, XPage
    <3> QED BY <3>1, <3>2
  <2>9. ClaimsClean'
    <3>1. \A j \in Inst : XClaim(j)' => j = i /\ x
      BY <1>8, <1>10 DEF XClaim
    <3>2. x => ~ a.edp
      BY <1>6
    <3> QED BY <1>13, <3>1, <3>2 DEF ClaimsClean
  <2> QED BY <2>3, <2>5, <2>6, <2>7, <2>9 DEF Flow
<1>21. Truthful' /\ Recycles' /\ Served'
  <2>1. \A j \in Inst : ses'[j].st = "ask" => ctrl'[j].lock = ctrl[j].lock
    BY <1>13
  <2> QED BY <1>1, <1>3, <1>8, <1>14, <2>1, EntryKept
<1>22. ~ panic'
  <2>1. m.mode >= ses[i].mode
    BY <1>1, <1>2 DEF Orderly, Wants, MsgFor, Token, For, Replies
  <2>2. m.mode \in Nat /\ ses[i].mode \in Nat
    BY <1>1, <1>4 DEF LockMode
  <2>3. ~ (ses[i].mode > m.mode)
    BY <2>1, <2>2
  <2>4. DCS_BUF_CTRL_NOT_OWNER(ctrl[i])
    BY <1>1, <1>12 DEF DCS_BUF_CTRL_NOT_OWNER, BufCtrl, LockMode, DRC_LOCK_NULL, DRC_LOCK_SHARE, DRC_LOCK_EXCLUSIVE
  <2>5. ~ CleanEdpPanics(ctrl[i])
    BY <1>1, <2>4 DEF CleanEdpPanics, BlockOK
  <2>6. m.flag = "page" => ~ (m.lsn < ctrl[i].lsn)
    BY <1>1, <1>2, <1>4 DEF BlockOK, Current, Flow, Lsns
  <2> QED BY <1>2, <2>3, <2>4, <2>5, <2>6, Zenon DEF Current, PageFromOwnerPanics
<1> QED BY <1>19, <1>20, <1>21, <1>22 DEF Current

\* Who has the page, with a lock, where the newest one is to be, has no other
\* one on its way.
LEMMA PlaceOnly ==
    ASSUME IInv, Safe, NEW i \in Inst, ctrl[i].lock # DRC_LOCK_NULL, Place(i)
    PROVE  /\ \A m \in msgs : ~ XPage(m)
           /\ XClaim(i) \/ (i = res.owner /\ \A j \in Inst : ~ XClaim(j))
<1>1. TypeOK
  BY DEF IInv
<1>2. Holds(i)
  BY DEF Holds
<1>3. ASSUME NEW m \in msgs, XPage(m) PROVE FALSE
  <2>1. m.t = "page" /\ m.mode = DRC_LOCK_EXCLUSIVE /\ m.to \in Inst
    BY <1>1, <1>3, MsgFields DEF XPage, TypeOK
  <2>2. m.to = i /\ m.to # res.owner
    BY <1>2, <2>1 DEF HoldsX, Safe, Power, Serving
  <2>3. \A n \in msgs : n.t # "claim"
    BY <2>1, RestAnswer DEF AtRest
  <2> QED BY <2>2, <2>3 DEF Place, XClaim
<1>4. ASSUME NEW j \in Inst, XClaim(j) PROVE XClaim(i)
  BY <1>2, <1>4 DEF XClaim, Safe, Giving
<1> QED BY <1>3, <1>4 DEF Place

\* The session changes the page: it has the only copy, and will write it.
LEMMA NowModify ==
    ASSUME IInv, IInv', Safe, Safe', Current, NEW i \in Inst, ModifyPage(i)
    PROVE  Current'
<1>1. /\ TypeOK /\ BlockOK(i) /\ WriterOK(i) /\ Latest \in Nat /\ Latest > 0 /\ ctrl[i] \in BufCtrl
      /\ Orderly(i) /\ LatchOK(i) /\ disk \in Nat
  BY LsnTypes DEF IInv, TypeOK, Current, Blocks, Writers, Safe, Orderly
<1>2. /\ res' = res /\ inv' = inv /\ sn' = sn /\ mark' = mark /\ msgs' = msgs
      /\ disk' = disk /\ panic' = panic
  BY DEF ModifyPage
<1> DEFINE f == dtc_buf_finish(ctrl[i], disk)
<1>3. /\ ses[i].st = "got" /\ ses[i].mode = DRC_LOCK_EXCLUSIVE /\ hist' = Append(hist, i)
      /\ ctrl' = [ctrl EXCEPT ![i] = [f EXCEPT !.lsn = Latest + 1, !.dirty = TRUE]]
      /\ ses' = [ses EXCEPT ![i] = [st |-> "idle", mode |-> DRC_LOCK_NULL]]
  BY DEF ModifyPage
<1>4. ctrl[i].lock = DRC_LOCK_EXCLUSIVE
  BY <1>1, <1>3 DEF LatchOK, BufCtrl, LockMode, DRC_LOCK_EXCLUSIVE
<1>5. Place(i) /\ ctrl[i].lock # DRC_LOCK_NULL
  BY <1>1, <1>4 DEF WriterOK, DRC_LOCK_NULL, DRC_LOCK_EXCLUSIVE
<1>6. ~ ctrl[i].edp
  BY <1>5, PlaceClean DEF Current
<1>7. f \in BufCtrl /\ f.load = "loaded" /\ f.lock = ctrl[i].lock /\ f.edp = FALSE /\ f.inmem = ctrl[i].inmem
  <2>1. f \in BufCtrl
    BY <1>1, FinishType
  <2> QED BY <1>1, <1>3, <1>5, <1>6, <2>1 DEF dtc_buf_finish, BufCtrl, BlockOK
<1>8. PICK a : a = [f EXCEPT !.lsn = Latest + 1, !.dirty = TRUE]
  OBVIOUS
<1>9. /\ a.load = "loaded" /\ a.lock = ctrl[i].lock /\ ~ a.edp /\ a.dirty /\ a.lsn = Latest + 1
      /\ a.inmem = ctrl[i].inmem
  <2> HIDE DEF f
  <2> QED BY <1>7, <1>8 DEF BufCtrl
<1>10. /\ ctrl'[i] = a /\ ses'[i].st = "idle"
       /\ \A j \in Inst : j # i => ctrl'[j] = ctrl[j] /\ ses'[j].st = ses[j].st
  BY <1>1, <1>3, <1>8 DEF TypeOK
<1>11. Latest' = Latest + 1
  BY <1>1, <1>3 DEF TypeOK, Latest
<1>12. \A j \in Inst : j # i => ~ Holds(j)
  BY <1>4 DEF HoldsX, Safe, Power
<1>13. \A n \in msgs : n.t \notin {"load", "already", "page"}
  <2> SUFFICES ASSUME NEW n \in msgs, n.t \in {"load", "already", "page"} PROVE FALSE
    OBVIOUS
  <2>1. n.to \in Inst /\ Token(n) /\ For(n) = n.to
    BY <1>1, MsgFields, ForWhom DEF TypeOK, Replies
  <2>2. n.to = i
    BY <1>12, <2>1 DEF Holds
  <2> QED BY <1>1, <1>3, <2>1, <2>2, NoRequest
<1>14. \A j \in Inst : j # i => /\ ctrl[j].lock = DRC_LOCK_NULL /\ ctrl[j].load # "loaded"
                                /\ mark[j] = 0 /\ ~ Unsaved(ctrl[j]) /\ BlockOK(j)
                                /\ ctrl[j].lsn \in Nat
  BY <1>1, <1>12, LsnTypes DEF Holds, Current, Blocks, BlockOK, Writers, WriterOK
<1>15. Blocks'
  <2>1. BlockOK(i)'
    BY <1>1, <1>4, <1>5, <1>9, <1>10, <1>11 DEF BlockOK, Busy
  <2>2. ASSUME NEW j \in Inst, j # i PROVE BlockOK(j)'
    BY <1>1, <1>10, <1>11, <1>14, <2>2 DEF BlockOK, Busy
  <2> QED BY <2>1, <2>2 DEF Blocks
<1>16. \A j : (Place(j)' <=> Place(j)) /\ (XClaim(j)' <=> XClaim(j))
  BY <1>2 DEF Place, XClaim
<1>17. Writers'
  <2>1. WriterOK(i)'
    BY <1>5, <1>9, <1>10, <1>16 DEF WriterOK
  <2>2. ASSUME NEW j \in Inst, j # i PROVE WriterOK(j)'
    BY <1>2, <1>10, <1>14, <2>2 DEF WriterOK, DRC_LOCK_NULL, DRC_LOCK_EXCLUSIVE
  <2> QED BY <2>1, <2>2 DEF Writers
<1>18. Flow'
  <2>0. \A m \in msgs : m.t = "claim" => m.lsn \in Nat
    BY <1>1, MsgFields DEF TypeOK
  <2>1. Lsns'
    <3>1. res.lsn \in Nat
      BY <1>1 DEF TypeOK, BufRes
    <3> QED BY <1>1, <1>2, <1>11, <1>13, <2>0, <3>1 DEF Current, Flow, Lsns
  <2>2. ~ Loads'
    <3>1. \A j \in Inst : ~ (ses'[j].st = "got" /\ ctrl'[j].load = "need")
      <4> SUFFICES ASSUME NEW j \in Inst, j # i, ses[j].st = "got" PROVE FALSE
        BY <1>10
      <4>1. LatchOK(j)
        BY DEF Safe, Orderly
      <4> QED BY <1>14, <4>1 DEF LatchOK, ReqMode, DRC_LOCK_NULL, DRC_LOCK_SHARE, DRC_LOCK_EXCLUSIVE
    <3> QED BY <1>2, <1>13, <3>1 DEF Loads
  <2>3. Keeper(i)'
    <3>1. Keeps(i)'
      BY <1>9, <1>10 DEF Keeps, Unsaved
    <3>2. XClaim(i) \/ (i = res.owner /\ \A j \in Inst : ~ XClaim(j))
      BY <1>5, PlaceOnly
    <3> QED BY <1>2, <1>16, <3>1, <3>2 DEF Keeper
  <2>4. Kept'
    BY <1>2, <1>13, <2>3 DEF Kept, XPage
  <2>5. OwnerClean'
    <3> SUFFICES ASSUME NEW j \in Inst, j = res.owner, ctrl'[j].edp
                 PROVE  \E n \in msgs : Leaving(n)
      BY <1>2 DEF OwnerClean, Leaving, XPage
    <3> QED BY <1>9, <1>10 DEF Current, Flow, OwnerClean
  <2>9. ClaimsClean'
    BY <1>9, <1>10, <1>16 DEF Current, Flow, ClaimsClean
  <2> QED BY <2>1, <2>2, <2>4, <2>5, <2>9 DEF Flow
<1>19. Truthful' /\ Recycles' /\ Served'
  <2>1. \A j \in Inst : ctrl'[j].lock = ctrl[j].lock
    BY <1>9, <1>10
  <2> QED BY <1>1, <1>2, <1>11, <2>1, EntryKept
<1> QED BY <1>2, <1>15, <1>17, <1>18, <1>19 DEF Current

-----------------------------------------------------------------------------
(***************************************************************************)
(* The checkpoint.                                                         *)
(***************************************************************************)
\* The flags of a block go because its early dirty page does, or because its
\* page is being written.
LEMMA FlagsGone ==
    ASSUME Safe, Current, NEW i \in Inst, hist' = hist, disk' = disk, msgs' = msgs, ses' = ses,
           res' = res, NEW c, ctrl'[i] = c,
           c.lock = ctrl[i].lock, c.load = ctrl[i].load, c.lsn = ctrl[i].lsn,
           ~ c.edp, ~ c.dirty, ~ c.rdirty,
           \/ ctrl[i].edp /\ mark'[i] = mark[i]
           \/ mark'[i] = Latest /\ ctrl[i].lock # DRC_LOCK_NULL,
           \A j \in Inst : j # i => ctrl'[j] = ctrl[j] /\ mark'[j] = mark[j],
           c.inmem = ctrl[i].inmem
    PROVE  Blocks' /\ Writers' /\ Flow' /\ Latest' = Latest
<1>1. BlockOK(i) /\ WriterOK(i)
  BY DEF Current, Blocks, Writers
<1>2. SameGiven /\ Latest' = Latest
  BY DEF SameGiven, Latest
<1>3. BlockOK(i)'
  BY <1>1, <1>2 DEF BlockOK, Busy
<1>4. mark'[i] # 0 => ctrl[i].lock # DRC_LOCK_NULL /\ mark'[i] = Latest
  BY <1>1 DEF WriterOK
<1>5. WriterOK(i)'
  BY <1>1, <1>2, <1>4, PlaceSame DEF WriterOK, Unsaved
<1>6. Keeps(i) /\ Place(i) => Keeps(i)'
  <2> SUFFICES ASSUME Keeps(i), Place(i) PROVE Keeps(i)'
    OBVIOUS
  <2>1. ctrl[i].lock # DRC_LOCK_NULL /\ ctrl[i].load = "loaded"
    BY <1>1 DEF Keeps, BlockOK
  <2>2. ~ ctrl[i].edp
    BY <2>1, PlaceClean DEF Current
  <2> QED BY <1>2, <2>1, <2>2 DEF Keeps
<1> QED BY <1>2, <1>3, <1>5, <1>6, Lowered

\* The early dirty page that may be dropped (dcs_buf_clean_ctrl_edp).
LEMMA CleanFields ==
    ASSUME NEW c \in BufCtrl, c.edp
    PROVE  LET f == dcs_buf_clean_ctrl_edp(c)
           IN  /\ f \in BufCtrl /\ ~ f.edp /\ ~ f.dirty /\ ~ f.rdirty
               /\ f.lock = c.lock /\ f.load = c.load /\ f.lsn = c.lsn /\ f.inmem = c.inmem
<1>1. dcs_buf_clean_ctrl_edp(c) = [c EXCEPT !.dirty = FALSE, !.rdirty = FALSE, !.edp = FALSE]
  BY DEF dcs_buf_clean_ctrl_edp
<1> QED BY <1>1 DEF BufCtrl

\* The block whose page was copied into the write group (CkptCopied).
LEMMA CopiedFields ==
    ASSUME NEW c \in BufCtrl
    PROVE  LET f == CkptCopied(c)
           IN  /\ ~ f.dirty /\ ~ f.rdirty /\ f.edp = c.edp
               /\ f.lock = c.lock /\ f.load = c.load /\ f.lsn = c.lsn /\ f.inmem = c.inmem
BY DEF CkptCopied, BufCtrl

\* An early dirty page may be dropped: its instance is not the exclusive owner.
LEMMA CleanAllowed ==
    ASSUME IInv, Safe, Current, NEW i \in Inst
    PROVE  ~ CleanEdpPanics(ctrl[i])
<1>1. BlockOK(i) /\ ctrl[i] \in BufCtrl
  BY DEF Current, Blocks, IInv, TypeOK
<1>2. ctrl[i].edp => ctrl[i].lock \in {DRC_LOCK_NULL, DRC_LOCK_SHARE}
  BY DEF Safe, EdpSound, Current
<1> QED BY <1>1, <1>2 DEF CleanEdpPanics, DCS_BUF_CTRL_NOT_OWNER, BlockOK

\* A written page is announced: the early dirty page goes.
LEMMA NowCleanLocal ==
    ASSUME IInv, IInv', Safe, Safe', Current, NEW i \in Inst, CkptCleanLocal(i)
    PROVE  Current'
<1>1. TypeOK /\ ctrl[i] \in BufCtrl /\ Latest \in Nat
  BY LsnTypes DEF IInv, TypeOK
<1>2. PICK clean :
        /\ clean => ctrl[i].edp
        /\ ctrl' = [ctrl EXCEPT ![i] = IF clean THEN dcs_buf_clean_ctrl_edp(ctrl[i]) ELSE ctrl[i]]
        /\ panic' = (panic \/ (clean /\ CleanEdpPanics(ctrl[i])))
  BY Zenon DEF CkptCleanLocal
<1>3. /\ res' = res /\ inv' = inv /\ sn' = sn /\ mark' = mark /\ msgs' = msgs /\ ses' = ses
      /\ disk' = disk /\ hist' = hist
  BY DEF CkptCleanLocal
<1>4. /\ Blocks' /\ Writers' /\ Flow' /\ Latest' = Latest
      /\ \A j \in Inst : ctrl'[j].lock = ctrl[j].lock
  <2>1. CASE clean
    <3>1. /\ ctrl'[i] = dcs_buf_clean_ctrl_edp(ctrl[i])
          /\ \A j \in Inst : j # i => ctrl'[j] = ctrl[j]
      BY <1>1, <1>2, <2>1 DEF TypeOK
    <3>2. PICK c : c = dcs_buf_clean_ctrl_edp(ctrl[i])
      OBVIOUS
    <3>3. /\ ~ c.edp /\ ~ c.dirty /\ ~ c.rdirty /\ c.lock = ctrl[i].lock
          /\ c.load = ctrl[i].load /\ c.lsn = ctrl[i].lsn /\ c.inmem = ctrl[i].inmem
      BY <1>1, <1>2, <2>1, <3>2, CleanFields
    <3>4. Blocks' /\ Writers' /\ Flow' /\ Latest' = Latest
      BY <1>2, <1>3, <2>1, <3>1, <3>2, <3>3, FlagsGone
    <3> QED BY <3>1, <3>2, <3>3, <3>4
  <2>2. CASE ~ clean
    <3>1. ctrl' = ctrl
      BY <1>1, <1>2, <2>2 DEF TypeOK
    <3>2. SameGiven
      BY <1>3 DEF SameGiven
    <3> QED BY <1>3, <3>1, <3>2, SameBlocks
  <2> QED BY <2>1, <2>2
<1>5. Truthful' /\ Recycles' /\ Served'
  BY <1>1, <1>3, <1>4, EntryKept
<1>6. ~ panic'
  BY <1>2, CleanAllowed DEF Current
<1> QED BY <1>4, <1>5, <1>6 DEF Current

\* The page goes into the write group, or its owner is asked to write it.
LEMMA NowPrepareNormal ==
    ASSUME IInv, IInv', Safe, Safe', Current, NEW i \in Inst, CkptPrepareNormal(i)
    PROVE  Current'
<1>1. TypeOK /\ ctrl[i] \in BufCtrl /\ Latest \in Nat /\ BlockOK(i) /\ WriterOK(i)
  BY LsnTypes DEF IInv, TypeOK, Current, Blocks, Writers
<1>2. /\ res' = res /\ inv' = inv /\ sn' = sn /\ ses' = ses /\ disk' = disk /\ hist' = hist
      /\ ctrl[i].dirty /\ ctrl[i].load # "need"
  BY DEF CkptPrepareNormal, CkptLatch
<1>3. CASE ctrl[i].edp
  <2>1. /\ panic' = (panic \/ ~ DCS_BUF_CTRL_NOT_OWNER(ctrl[i]))
        /\ Send({CkptReq(ctrl[i].lsn)}) /\ ctrl' = ctrl /\ mark' = mark
    BY <1>3 DEF CkptPrepareNormal
  <2>2. /\ \A m \in msgs' : m \in msgs \/ m \in {CkptReq(ctrl[i].lsn)}
        /\ \A m \in msgs : m \in msgs'
    BY <2>1, Network, Delivered
  <2>3. \A m \in msgs' : m \in msgs \/ m.t = "ckpt"
    BY <2>2 DEF CkptReq
  <2>4. SameGiven
    BY <2>2, <2>3 DEF SameGiven, Gives
  <2>5. Blocks' /\ Writers' /\ Flow' /\ Latest' = Latest
    BY <1>2, <2>1, <2>4, SameBlocks
  <2>6. Truthful' /\ Recycles' /\ Served'
    BY <1>1, <1>2, <2>1, <2>2, <2>3, <2>5, EntryKept
  <2>7. ~ panic'
    BY <1>1, <1>3, <2>1, CleanAllowed DEF CleanEdpPanics, Current
  <2> QED BY <2>5, <2>6, <2>7 DEF Current
<1>4. CASE ~ ctrl[i].edp
  <2>1. /\ panic' = (panic \/ ~ DCS_BUF_CTRL_IS_OWNER(ctrl[i]))
        /\ mark' = [mark EXCEPT ![i] = IF mark[i] = 0 THEN ctrl[i].lsn ELSE mark[i]]
        /\ ctrl' = [ctrl EXCEPT ![i] = IF mark[i] = 0 THEN CkptCopied(ctrl[i]) ELSE ctrl[i]]
        /\ msgs' = msgs
    BY <1>4 DEF CkptPrepareNormal
  <2>2. ctrl[i].lock # DRC_LOCK_NULL /\ ctrl[i].lsn = Latest
    BY <1>1, <1>2, <1>4 DEF WriterOK, Unsaved, BlockOK
  <2>3. /\ Blocks' /\ Writers' /\ Flow' /\ Latest' = Latest
        /\ \A j \in Inst : ctrl'[j].lock = ctrl[j].lock
    <3>1. CASE mark[i] = 0
      <4>1. /\ ctrl'[i] = CkptCopied(ctrl[i]) /\ mark'[i] = Latest
            /\ \A j \in Inst : j # i => ctrl'[j] = ctrl[j] /\ mark'[j] = mark[j]
        BY <1>1, <2>1, <2>2, <3>1 DEF TypeOK
      <4>2. PICK c : c = CkptCopied(ctrl[i])
        OBVIOUS
      <4>3. /\ ~ c.edp /\ ~ c.dirty /\ ~ c.rdirty /\ c.lock = ctrl[i].lock
            /\ c.load = ctrl[i].load /\ c.lsn = ctrl[i].lsn /\ c.inmem = ctrl[i].inmem
        BY <1>1, <1>4, <4>2, CopiedFields
      <4>4. Blocks' /\ Writers' /\ Flow' /\ Latest' = Latest
        BY <1>2, <2>1, <2>2, <4>1, <4>2, <4>3, FlagsGone
      <4> QED BY <4>1, <4>2, <4>3, <4>4
    <3>2. CASE mark[i] # 0
      <4>1. ctrl' = ctrl /\ mark' = mark
        BY <1>1, <2>1, <3>2 DEF TypeOK
      <4>2. SameGiven
        BY <2>1 DEF SameGiven
      <4> QED BY <1>2, <4>1, <4>2, SameBlocks
    <3> QED BY <3>1, <3>2
  <2>4. Truthful' /\ Recycles' /\ Served'
    BY <1>1, <1>2, <2>1, <2>3, EntryKept
  <2>5. DCS_BUF_CTRL_IS_OWNER(ctrl[i])
    BY <1>1, <1>4, <2>2 DEF DCS_BUF_CTRL_IS_OWNER, BufCtrl, LockMode, DRC_LOCK_NULL, DRC_LOCK_SHARE, DRC_LOCK_EXCLUSIVE
  <2> QED BY <2>1, <2>3, <2>4, <2>5 DEF Current
<1> QED BY <1>3, <1>4

\* A former owner asked that the page be written (dcs_ckpt_remote_edp_prepare).
LEMMA NowRemotePrepare ==
    ASSUME IInv, IInv', Safe, Safe', Current, NEW i \in Inst, CkptRemotePrepare(i)
    PROVE  Current'
<1> DEFINE d == dcs_buf_clean_ctrl_edp(ctrl[i])
<1>1. TypeOK /\ ctrl[i] \in BufCtrl /\ Latest \in Nat /\ BlockOK(i) /\ WriterOK(i)
  BY LsnTypes DEF IInv, TypeOK, Current, Blocks, Writers
<1>2. /\ res' = res /\ inv' = inv /\ sn' = sn /\ ses' = ses /\ disk' = disk /\ hist' = hist
      /\ msgs' = msgs
  BY DEF CkptRemotePrepare
<1>3. PICK c :
        /\ c = ctrl[i] \/ (ctrl[i].edp /\ c = d)
        /\ \/ ctrl' = ctrl /\ mark' = mark /\ panic' = panic
           \/ /\ ctrl' = [ctrl EXCEPT ![i] = c] /\ mark' = mark
              /\ panic' = (panic \/ (c # ctrl[i] /\ CleanEdpPanics(ctrl[i])))
           \/ /\ ctrl[i].load # "need" /\ ~ c.edp /\ DCS_BUF_CTRL_IS_OWNER(c)
              /\ mark' = [mark EXCEPT ![i] = c.lsn]
              /\ ctrl' = [ctrl EXCEPT ![i] = CkptCopied(c)]
              /\ panic' = (panic \/ (c # ctrl[i] /\ CleanEdpPanics(ctrl[i])))
  <2> DEFINE C(g) == IF g.clean /\ ctrl[i].edp /\ g.lsn >= ctrl[i].lsn THEN d ELSE ctrl[i]
  <2>1. PICK g \in grp[i] :
          \/ ctrl' = ctrl /\ mark' = mark /\ panic' = panic
          \/ /\ ctrl' = [ctrl EXCEPT ![i] = C(g)] /\ mark' = mark
             /\ panic' = (panic \/ (C(g) # ctrl[i] /\ CleanEdpPanics(ctrl[i])))
          \/ /\ CkptLatch(i) /\ ~ C(g).edp /\ DCS_BUF_CTRL_IS_OWNER(C(g))
             /\ mark' = [mark EXCEPT ![i] = C(g).lsn]
             /\ ctrl' = [ctrl EXCEPT ![i] = CkptCopied(C(g))]
             /\ panic' = (panic \/ (C(g) # ctrl[i] /\ CleanEdpPanics(ctrl[i])))
    BY Zenon DEF CkptRemotePrepare
  <2>2. C(g) = ctrl[i] \/ (ctrl[i].edp /\ C(g) = d)
    OBVIOUS
  <2> WITNESS C(g)
  <2> HIDE DEF C
  <2> QED BY <2>1, <2>2, Zenon DEF CkptLatch
<1>4. ~ panic'
  BY <1>3, CleanAllowed DEF Current
<1>5. /\ c \in BufCtrl /\ c.lock = ctrl[i].lock /\ c.load = ctrl[i].load
      /\ c.lsn = ctrl[i].lsn /\ c.inmem = ctrl[i].inmem
      /\ c # ctrl[i] => ctrl[i].edp /\ ~ c.edp /\ ~ c.dirty /\ ~ c.rdirty
  BY <1>1, <1>3, CleanFields
<1> HIDE DEF d
<1>6. SameGiven
  BY <1>2 DEF SameGiven
<1>7. /\ Blocks' /\ Writers' /\ Flow' /\ Latest' = Latest
      /\ \A j \in Inst : ctrl'[j].lock = ctrl[j].lock
  <2>1. CASE ctrl' = ctrl /\ mark' = mark
    BY <1>2, <1>6, <2>1, SameBlocks
  <2>2. CASE ctrl' = [ctrl EXCEPT ![i] = c] /\ mark' = mark /\ ctrl' # ctrl
    <3>1. ctrl'[i] = c /\ \A j \in Inst : j # i => ctrl'[j] = ctrl[j] /\ mark'[j] = mark[j]
      BY <1>1, <2>2 DEF TypeOK
    <3>2. c # ctrl[i]
      BY <1>1, <2>2 DEF TypeOK
    <3>3. Blocks' /\ Writers' /\ Flow' /\ Latest' = Latest
      BY <1>2, <1>5, <2>2, <3>1, <3>2, FlagsGone
    <3> QED BY <1>5, <3>1, <3>3
  <2>3. CASE /\ ctrl[i].load # "need" /\ ~ c.edp /\ DCS_BUF_CTRL_IS_OWNER(c)
             /\ mark' = [mark EXCEPT ![i] = c.lsn]
             /\ ctrl' = [ctrl EXCEPT ![i] = CkptCopied(c)]
    <3>1. ctrl[i].lock # DRC_LOCK_NULL
      BY <1>5, <2>3 DEF DCS_BUF_CTRL_IS_OWNER, DRC_LOCK_NULL, DRC_LOCK_SHARE, DRC_LOCK_EXCLUSIVE
    <3>2. c.lsn = Latest
      BY <1>1, <1>5, <2>3, <3>1 DEF BlockOK
    <3>3. PICK f : f = CkptCopied(c)
      OBVIOUS
    <3>4. /\ ctrl'[i] = f /\ mark'[i] = Latest
          /\ \A j \in Inst : j # i => ctrl'[j] = ctrl[j] /\ mark'[j] = mark[j]
      BY <1>1, <2>3, <3>2, <3>3 DEF TypeOK
    <3>5. /\ ~ f.edp /\ ~ f.dirty /\ ~ f.rdirty /\ f.lock = ctrl[i].lock
          /\ f.load = ctrl[i].load /\ f.lsn = ctrl[i].lsn /\ f.inmem = ctrl[i].inmem
      BY <1>5, <2>3, <3>3, CopiedFields
    <3>6. Blocks' /\ Writers' /\ Flow' /\ Latest' = Latest
      BY <1>2, <3>1, <3>4, <3>5, FlagsGone
    <3> QED BY <3>4, <3>5, <3>6
  <2> QED BY <1>3, <2>1, <2>2, <2>3
<1>8. Truthful' /\ Recycles' /\ Served'
  BY <1>1, <1>2, <1>7, EntryKept
<1> QED BY <1>4, <1>7, <1>8 DEF Current

\* The write ends: the disk has the newest page, or one that is dirty again.
LEMMA NowWrite ==
    ASSUME IInv, IInv', Safe, Safe', Current, NEW i \in Inst, CkptWrite(i)
    PROVE  Current'
<1>1. TypeOK /\ Latest \in Nat /\ Latest > 0 /\ BlockOK(i) /\ WriterOK(i)
  BY LsnTypes DEF IInv, Current, Blocks, Writers
<1>2. /\ res' = res /\ inv' = inv /\ sn' = sn /\ ses' = ses /\ ctrl' = ctrl /\ hist' = hist
      /\ msgs' = msgs /\ panic' = panic /\ mark[i] # 0 /\ disk' = mark[i]
      /\ mark' = [mark EXCEPT ![i] = 0]
  BY DEF CkptWrite
<1>3. mark'[i] = 0 /\ \A j \in Inst : j # i => mark'[j] = mark[j]
  BY <1>1, <1>2 DEF TypeOK
<1>4. Latest' = Latest
  BY <1>2 DEF Latest
<1>5. Blocks'
  BY <1>2, BlockSame DEF Current, Blocks
<1>6. \A j : (Place(j)' <=> Place(j)) /\ (XClaim(j)' <=> XClaim(j))
  BY <1>2 DEF Place, XClaim
<1>7. Writers'
  <2>1. WriterOK(i)'
    BY <1>1, <1>2, <1>3, <1>6 DEF WriterOK
  <2>2. ASSUME NEW j \in Inst, j # i PROVE WriterOK(j)'
    BY <1>2, <1>3, <1>6, <2>2, WriterSame DEF Current, Writers
  <2> QED BY <2>1, <2>2 DEF Writers
<1>8. Flow'
  <2>1. Lsns' /\ OwnerClean'
    BY <1>2, <1>4 DEF Current, Flow, Lsns, OwnerClean, Leaving, XPage
  <2>2. Loads' => Stored'
    <3>1. Loads' => Loads
      BY <1>2 DEF Loads
    <3>2. Stored => Stored'
      BY <1>2, <1>3, <1>4 DEF Stored
    <3> QED BY <3>1, <3>2 DEF Current, Flow
  <2>3. Kept'
    <3>1. CASE mark[i] = Latest
      BY <1>2, <1>4, <3>1 DEF Kept
    <3>2. CASE mark[i] # Latest
      <4>1. ctrl[i].lock # DRC_LOCK_NULL /\ Unsaved(ctrl[i]) /\ Place(i)
        BY <1>1, <1>2, <3>2 DEF WriterOK, Unsaved
      <4>2. ctrl[i].load = "loaded"
        BY <1>1, <1>2, <3>2, <4>1 DEF BlockOK, Current, Flow, Loads, Stored
      <4>3. Keeps(i)'
        BY <1>2, <4>1, <4>2 DEF Keeps
      <4>4. /\ \A m \in msgs : ~ XPage(m)
            /\ XClaim(i) \/ (i = res.owner /\ \A j \in Inst : ~ XClaim(j))
        BY <4>1, PlaceOnly
      <4>5. Keeper(i)'
        BY <1>2, <1>6, <4>3, <4>4 DEF Keeper
      <4> QED BY <1>2, <4>4, <4>5 DEF Kept, XPage
    <3> QED BY <3>1, <3>2
  <2>9. ClaimsClean'
    BY <1>2, <1>4 DEF Current, Flow, ClaimsClean, XClaim
  <2> QED BY <2>1, <2>2, <2>3, <2>9 DEF Flow
<1>9. Truthful' /\ Recycles' /\ Served'
  BY <1>1, <1>2, <1>4, EntryKept
<1> QED BY <1>2, <1>5, <1>7, <1>8, <1>9 DEF Current

-----------------------------------------------------------------------------
(***************************************************************************)
(* The owner sends the page.                                               *)
(***************************************************************************)
\* An owner that is asked for the page has the newest one and may give it, or
\* has no lock on it and the disk has the newest one (dcs_owner_transfer_page).
LEMMA OwnerAnswers ==
    ASSUME IInv, Safe, Current, NEW o \in Inst, NEW m \in msgs, m.t = "own", m.to = o,
           ctrl[o].inmem => LatchFree(o)
    PROVE  /\ m.req \in ReqInfo /\ m.req.inst \in Inst /\ m.req.inst # o /\ o = res.owner
           /\ ses[o].st \notin {"ask", "got"}
           /\ \A n \in msgs : n # m => n.t \notin {"own", "already", "page", "claim"}
           /\ inv = {}
           /\ TransferFromDisk(o) =>
                ctrl[o].lock = DRC_LOCK_NULL /\ ~ ctrl[o].dirty /\ Stored
           /\ ~ TransferFromDisk(o) =>
                /\ ctrl[o].lock # DRC_LOCK_NULL /\ ctrl[o].load = "loaded" /\ ~ ctrl[o].edp
                /\ ctrl[o].lsn = Latest /\ ~ TransferRefused(ctrl[o], m)
<1>1. /\ TypeOK /\ BlockOK(o) /\ WriterOK(o) /\ Latest \in Nat /\ ctrl[o] \in BufCtrl
      /\ Orderly(o) /\ ctrl[o].lsn \in Nat /\ Global /\ ~ panic
  BY LsnTypes, SafeParts DEF IInv, TypeOK, Current, Blocks, Writers, Safe
<1>2. /\ m.req \in ReqInfo /\ m.req = res.conv /\ o = res.owner /\ m.req.inst # o
      /\ m.req.inst \in Inst /\ m.req.lsn \in Nat
  BY <1>1, MsgFields, ReqFields DEF TypeOK, Global, Serving, ReqInfo
<1>3. AtRest(msgs \ {m}) /\ inv = {}
  BY RestOwn
<1>4. \A n \in msgs : n # m => n.t \notin {"own", "already", "page", "claim"}
  BY <1>3 DEF AtRest
<1>5. ses[o].st \notin {"ask", "got"} /\ (~ ctrl[o].inmem => ctrl[o].lock = DRC_LOCK_NULL)
  BY <1>1 DEF Orderly, LatchOK, LatchFree
<1>6. ~ ctrl[o].edp
  <2>1. \A n \in msgs : ~ (Token(n) /\ For(n) = o)
    BY <1>1, <1>5, NoRequest
  <2>2. \A n \in msgs : n.t # "load"
    BY <1>1, <1>2, <2>1, ForWhom DEF Global, Serving, Replies
  <2> QED BY <1>2, <1>4, <2>2 DEF Current, Flow, OwnerClean, Leaving, XPage
<1>7. ctrl[o].lock = DRC_LOCK_NULL => /\ ~ ctrl[o].dirty /\ ~ ctrl[o].rdirty /\ mark[o] = 0
                                      /\ Stored
  <2>1. ASSUME ctrl[o].lock = DRC_LOCK_NULL PROVE Stored
    BY <1>1, <1>2, <1>4, <2>1, OwnerEmpty
  <2> QED BY <1>1, <1>6, <2>1 DEF WriterOK, Unsaved
<1>8. ctrl[o].load \in {"need", "loaded", "failed"}
  BY <1>1 DEF BufCtrl
<1>9. ctrl[o].lock # DRC_LOCK_NULL <=> ctrl[o].load = "loaded"
  BY <1>1, <1>5 DEF BlockOK
<1>10. TransferFromDisk(o) => ctrl[o].lock = DRC_LOCK_NULL
  BY <1>5, <1>9 DEF TransferFromDisk
<1>11. ctrl[o].lock = DRC_LOCK_NULL => TransferFromDisk(o)
  BY <1>1, <1>5, <1>6, <1>7, <1>8, <1>9 DEF TransferFromDisk, BlockOK, Busy, BUF_IN_USE_IS_RECYCLABLE
<1>12. ASSUME ctrl[o].lock # DRC_LOCK_NULL
       PROVE  ctrl[o].lsn = Latest /\ ~ TransferRefused(ctrl[o], m)
  <2>1. ctrl[o].load = "loaded" /\ ctrl[o].lsn = Latest
    BY <1>1, <1>9, <1>12 DEF BlockOK
  <2>2. Tells(m.req)
    BY DEF Current, Truthful
  <2>3. PICK i \in Inst : i = m.req.inst
    BY <1>2
  <2>4. m.req.curr = ctrl[i].lock /\ m.req.lsn <= Latest
    BY <2>2, <2>3 DEF Tells
  <2>5. /\ ctrl[i].lock # DRC_LOCK_NULL => ctrl[o].lock # DRC_LOCK_EXCLUSIVE
        /\ ctrl[i].lock # DRC_LOCK_EXCLUSIVE
    BY <1>1, <1>2, <1>12, <2>3 DEF Global, Power, Holds, HoldsX
  <2>6. ctrl[o].lock \in {DRC_LOCK_SHARE, DRC_LOCK_EXCLUSIVE}
    BY <1>1, <1>12 DEF BufCtrl, LockMode, DRC_LOCK_NULL, DRC_LOCK_SHARE, DRC_LOCK_EXCLUSIVE
  <2>7. DCS_BUF_CTRL_IS_OWNER(ctrl[o])
    BY <1>6, <2>6 DEF DCS_BUF_CTRL_IS_OWNER
  <2>8. ~ (m.req.lsn > ctrl[o].lsn)
    BY <1>1, <1>2, <2>1, <2>4
  <2>9. m.req.curr = DRC_LOCK_SHARE => ctrl[o].lock = DRC_LOCK_SHARE
    BY <2>4, <2>5, <2>6 DEF DRC_LOCK_NULL, DRC_LOCK_SHARE, DRC_LOCK_EXCLUSIVE
  <2>10. m.req.curr # DRC_LOCK_EXCLUSIVE
    BY <2>4, <2>5
  <2> QED BY <2>1, <2>7, <2>8, <2>9, <2>10 DEF TransferRefused
<1> QED BY <1>2, <1>4, <1>3, <1>5, <1>6, <1>7, <1>9, <1>10, <1>11, <1>12

\* The page message carries what the owner's block has.
LEMMA ReadyFields ==
    ASSUME NEW r, NEW flag, NEW c
    PROVE  LET n == PageReady(r, flag, c)
           IN  /\ n.t = "page" /\ n.to = r.inst /\ n.sn = r.sn /\ n.mode = r.mode /\ n.flag = flag
               /\ n.lsn = c.lsn /\ n.dirty = c.dirty /\ n.rdirty = c.rdirty
<1>1. PICK n : n = [Reply("page", r) EXCEPT !.flag = flag, !.lsn = c.lsn, !.dirty = c.dirty, !.rdirty = c.rdirty]
  OBVIOUS
<1>2. /\ n.t = "page" /\ n.to = r.inst /\ n.sn = r.sn /\ n.mode = r.mode /\ n.flag = flag
      /\ n.lsn = c.lsn /\ n.dirty = c.dirty /\ n.rdirty = c.rdirty
  BY <1>1 DEF Reply
<1> QED BY <1>1, <1>2 DEF PageReady

\* What the owner's block becomes.
LEMMA SentAway ==
    ASSUME NEW c \in BufCtrl, NEW mode, c.lock # DRC_LOCK_NULL => ~ c.edp
    PROVE  LET f == OwnerAfterTransfer(c, mode)
           IN  /\ f.inmem = c.inmem /\ f.lsn = c.lsn /\ f.dirty = c.dirty
               /\ c.lock = DRC_LOCK_NULL => f = c
               /\ c.lock # DRC_LOCK_NULL /\ mode = DRC_LOCK_EXCLUSIVE =>
                    /\ f.lock = DRC_LOCK_NULL /\ f.load = "failed" /\ ~ f.rdirty
                    /\ f.edp = c.dirty
               /\ c.lock # DRC_LOCK_NULL /\ mode # DRC_LOCK_EXCLUSIVE =>
                    f.lock = DRC_LOCK_SHARE /\ f.load = c.load /\ f.rdirty = c.rdirty /\ f.edp = c.edp
<1>1. c.lock \in {DRC_LOCK_NULL, DRC_LOCK_SHARE, DRC_LOCK_EXCLUSIVE} /\ c.edp \in BOOLEAN /\ c.dirty \in BOOLEAN
  BY DEF BufCtrl, LockMode, DRC_LOCK_NULL, DRC_LOCK_SHARE, DRC_LOCK_EXCLUSIVE
<1>2. CASE c.lock = DRC_LOCK_NULL
  <2>1. OwnerAfterTransfer(c, mode) = c
    BY <1>2 DEF OwnerAfterTransfer, DCS_BUF_CTRL_IS_OWNER, DRC_LOCK_NULL, DRC_LOCK_SHARE, DRC_LOCK_EXCLUSIVE
  <2> QED BY <1>2, <2>1
<1>3. CASE c.lock # DRC_LOCK_NULL /\ mode = DRC_LOCK_EXCLUSIVE
  <2>1. PICK f : f = [c EXCEPT !.lock = DRC_LOCK_NULL, !.load = "failed", !.edp = c.edp \/ c.dirty, !.rdirty = FALSE]
    OBVIOUS
  <2>2. OwnerAfterTransfer(c, mode) = f
    BY <1>1, <1>3, <2>1 DEF OwnerAfterTransfer, DCS_BUF_CTRL_IS_OWNER
  <2>3. /\ f.inmem = c.inmem /\ f.lsn = c.lsn /\ f.dirty = c.dirty /\ f.lock = DRC_LOCK_NULL
        /\ f.load = "failed" /\ ~ f.rdirty /\ f.edp = (c.edp \/ c.dirty)
    BY <2>1 DEF BufCtrl
  <2> QED BY <1>1, <1>3, <2>2, <2>3
<1>4. CASE c.lock # DRC_LOCK_NULL /\ mode # DRC_LOCK_EXCLUSIVE
  <2>1. OwnerAfterTransfer(c, mode) = [c EXCEPT !.lock = DRC_LOCK_SHARE]
    BY <1>1, <1>4 DEF OwnerAfterTransfer, DCS_BUF_CTRL_IS_OWNER
  <2> QED BY <1>4, <2>1 DEF BufCtrl
<1> QED BY <1>2, <1>3, <1>4

\* The owner gives its page or, when it has none, points to the disk; it never
\* refuses, and the duty to write the page goes with an exclusive page.
LEMMA NowTransfer ==
    ASSUME IInv, IInv', Safe, Safe', Current, NEW o \in Inst, OwnerTransfer(o)
    PROVE  Current'
<1>1. /\ TypeOK /\ BlockOK(o) /\ WriterOK(o) /\ Latest \in Nat /\ ctrl[o] \in BufCtrl /\ ~ panic
  BY LsnTypes DEF IInv, TypeOK, Current, Blocks, Writers
<1> DEFINE D == TransferFromDisk(o)
           Sends(m, f) == /\ Exchange(m, {PageReady(m.req, f, ctrl[o])})
                          /\ ctrl' = [ctrl EXCEPT ![o] = OwnerAfterTransfer(ctrl[o], m.req.mode)]
<1>2. PICK m \in msgs :
        /\ m.t = "own" /\ m.to = o
        /\ ctrl[o].inmem => LatchFree(o) /\ (m.req.mode = DRC_LOCK_EXCLUSIVE => mark[o] = 0)
        /\ \/ D /\ Sends(m, "need")
           \/ ~ D /\ TransferRefused(ctrl[o], m)
           \/ /\ ~ D
              /\ Sends(m, IF m.req.curr = DRC_LOCK_SHARE /\ m.req.mode = DRC_LOCK_EXCLUSIVE
                          THEN "r2x" ELSE "page")
  BY Zenon DEF OwnerTransfer
<1>3. /\ res' = res /\ inv' = inv /\ ses' = ses /\ sn' = sn /\ mark' = mark
      /\ disk' = disk /\ hist' = hist /\ panic' = panic
  BY DEF OwnerTransfer
<1>4. /\ m.req \in ReqInfo /\ m.req.inst \in Inst /\ m.req.inst # o /\ o = res.owner
      /\ ses[o].st \notin {"ask", "got"}
      /\ \A n \in msgs : n # m => n.t \notin {"own", "already", "page", "claim"}
      /\ inv = {}
      /\ D => ctrl[o].lock = DRC_LOCK_NULL /\ ~ ctrl[o].dirty /\ Stored
      /\ ~ D => /\ ctrl[o].lock # DRC_LOCK_NULL /\ ctrl[o].load = "loaded" /\ ~ ctrl[o].edp
                /\ ctrl[o].lsn = Latest /\ ~ TransferRefused(ctrl[o], m)
  BY <1>2, OwnerAnswers
<1> HIDE DEF D
<1>5. PICK f : /\ Sends(m, f)
               /\ \/ D /\ f = "need"
                  \/ ~ D /\ f = "page"
                  \/ ~ D /\ f = "r2x" /\ m.req.curr = DRC_LOCK_SHARE
  BY <1>2, <1>4
<1>6. PICK n : n = PageReady(m.req, f, ctrl[o])
  OBVIOUS
<1>7. PICK a : a = OwnerAfterTransfer(ctrl[o], m.req.mode)
  OBVIOUS
<1>8. Exchange(m, {n}) /\ ctrl' = [ctrl EXCEPT ![o] = a]
  BY <1>5, <1>6, <1>7, Zenon
<1> HIDE DEF Sends
<1>9. /\ n.t = "page" /\ n.to = m.req.inst /\ n.sn = m.req.sn /\ n.mode = m.req.mode /\ n.flag = f
      /\ n.lsn = ctrl[o].lsn /\ n.dirty = ctrl[o].dirty /\ n.rdirty = ctrl[o].rdirty
  BY <1>6, ReadyFields
<1>10. /\ a.inmem = ctrl[o].inmem /\ a.lsn = ctrl[o].lsn /\ a.dirty = ctrl[o].dirty
       /\ ctrl[o].lock = DRC_LOCK_NULL => a = ctrl[o]
       /\ ctrl[o].lock # DRC_LOCK_NULL /\ m.req.mode = DRC_LOCK_EXCLUSIVE =>
            /\ a.lock = DRC_LOCK_NULL /\ a.load = "failed" /\ ~ a.rdirty
            /\ a.edp = ctrl[o].dirty
       /\ ctrl[o].lock # DRC_LOCK_NULL /\ m.req.mode # DRC_LOCK_EXCLUSIVE =>
            /\ a.lock = DRC_LOCK_SHARE /\ a.load = ctrl[o].load /\ a.rdirty = ctrl[o].rdirty
            /\ a.edp = ctrl[o].edp
  <2>1. ctrl[o].lock # DRC_LOCK_NULL => ~ ctrl[o].edp
    BY <1>4
  <2> QED BY <1>1, <1>7, <2>1, SentAway
<1>11. ctrl'[o] = a /\ \A j \in Inst : j # o => ctrl'[j] = ctrl[j]
  BY <1>1, <1>8 DEF TypeOK
<1>12. Tells(m.req) /\ Latest' = Latest
  BY <1>2, <1>3 DEF Current, Truthful, Latest
<1>13. /\ n \in msgs' /\ \A y \in msgs' : (y \in msgs /\ y # m) \/ y = n
       /\ \A y \in msgs : y # m => y \in msgs'
  <2>1. /\ \A y \in msgs' : (y \in msgs /\ y # m) \/ y \in {n}
        /\ \A y \in msgs : y # m => y \in msgs'
        /\ \A y \in {n} : y.t \notin Replies \/ y.sn = sn[y.to] => y \in msgs'
    BY <1>8, Network, Delivered
  <2>2. n.sn = sn[n.to]
    BY <1>9, <1>12 DEF Tells
  <2> QED BY <2>1, <2>2
<1>14. m.req.mode \in {DRC_LOCK_SHARE, DRC_LOCK_EXCLUSIVE}
  BY <1>4 DEF ReqInfo, ReqMode
<1>15. \A j \in Inst : ~ XClaim(j) /\ ~ XClaim(j)' /\ (Place(j)' <=> Place(j))
  <2>1. \A y \in msgs : y.t # "claim"
    BY <1>2, <1>4
  <2>2. \A y \in msgs' : y.t # "claim"
    BY <1>9, <1>13, <2>1
  <2> QED BY <1>3, <2>1, <2>2 DEF XClaim, Place
<1>16. ctrl[o].lock # DRC_LOCK_NULL /\ m.req.mode = DRC_LOCK_EXCLUSIVE => mark[o] = 0
  <2>1. ctrl[o].lock # DRC_LOCK_NULL => ctrl[o].inmem
    BY DEF Safe, Orderly, LatchOK
  <2> QED BY <1>2, <2>1
<1>17. BlockOK(o)'
  <2>1. ~ Busy(o)'
    BY <1>3, <1>4 DEF Busy
  <2>2. CASE ctrl[o].lock = DRC_LOCK_NULL
    BY <1>1, <1>3, <1>10, <1>11, <1>12, <2>2 DEF BlockOK, Busy
  <2>3. CASE ctrl[o].lock # DRC_LOCK_NULL /\ m.req.mode = DRC_LOCK_EXCLUSIVE
    <3>1. ctrl[o].inmem
      BY <2>3 DEF Safe, Orderly, LatchOK
    <3> QED BY <1>1, <1>10, <1>11, <1>12, <2>1, <2>3, <3>1 DEF BlockOK
  <2>4. CASE ctrl[o].lock # DRC_LOCK_NULL /\ m.req.mode # DRC_LOCK_EXCLUSIVE
    <3>1. DRC_LOCK_SHARE # DRC_LOCK_NULL
      BY DEF DRC_LOCK_SHARE, DRC_LOCK_NULL
    <3> QED BY <1>1, <1>4, <1>5, <1>10, <1>11, <1>12, <2>1, <2>4, <3>1 DEF BlockOK
  <2> QED BY <2>2, <2>3, <2>4
<1>18. Place(o)'
  BY <1>3, <1>4 DEF Place
<1>19. WriterOK(o)'
  <2>2. CASE ctrl[o].lock = DRC_LOCK_NULL
    BY <1>1, <1>3, <1>10, <1>11, <1>12, <1>18, <2>2 DEF WriterOK
  <2>3. CASE ctrl[o].lock # DRC_LOCK_NULL /\ m.req.mode = DRC_LOCK_EXCLUSIVE
    <3>1. ~ Unsaved(a) /\ mark'[o] = 0
      BY <1>1, <1>3, <1>10, <1>16, <2>3 DEF Unsaved, BufCtrl
    <3> QED BY <1>11, <1>18, <3>1 DEF WriterOK
  <2>4. CASE ctrl[o].lock # DRC_LOCK_NULL /\ m.req.mode # DRC_LOCK_EXCLUSIVE
    <3>1. DRC_LOCK_SHARE # DRC_LOCK_NULL
      BY DEF DRC_LOCK_SHARE, DRC_LOCK_NULL
    <3> QED BY <1>1, <1>3, <1>10, <1>11, <1>12, <1>18, <2>4, <3>1 DEF WriterOK, Unsaved
  <2> QED BY <2>2, <2>3, <2>4
<1>20. Blocks' /\ Writers'
  BY <1>3, <1>11, <1>15, <1>17, <1>19, OthersStay
<1>21. Flow'
  <2>1. Lsns'
    <3>1. n.flag = "page" => n.lsn = Latest
      BY <1>4, <1>5, <1>9
    <3>2. n.flag = "need" => ~ n.dirty
      BY <1>4, <1>5, <1>9
    <3> QED BY <1>3, <1>9, <1>12, <1>13, <3>1, <3>2 DEF Current, Flow, Lsns
  <2>2. Stored => Stored'
    BY <1>3, <1>12 DEF Stored
  <2>3. Loads' => Stored'
    <3>1. Loads' => Loads \/ D
      BY <1>3, <1>4, <1>5, <1>9, <1>11, <1>13 DEF Loads
    <3> QED BY <1>4, <2>2, <3>1 DEF Current, Flow
  <2>4. OwnerClean'
    <3> SUFFICES ASSUME NEW j \in Inst, j = res.owner, ctrl'[j].edp
                 PROVE  \E y \in msgs' : Leaving(y)
      BY <1>3 DEF OwnerClean, Leaving, XPage
    <3>1. CASE m.req.mode = DRC_LOCK_EXCLUSIVE
      BY <1>9, <1>13, <3>1 DEF Leaving, XPage
    <3>2. CASE m.req.mode # DRC_LOCK_EXCLUSIVE
      <4>1. ctrl[j].edp
        BY <1>4, <1>10, <1>11, <3>2
      <4>2. PICK y \in msgs : Leaving(y)
        BY <4>1 DEF Current, Flow, OwnerClean
      <4> QED BY <1>2, <1>13, <4>2 DEF Leaving, XPage
    <3> QED BY <3>1, <3>2
  <2>5. Kept'
    <3>1. CASE disk = Latest
      BY <1>3, <1>12, <3>1 DEF Kept
    <3>2. CASE disk # Latest
      <4>1. ~ D
        BY <1>4, <3>2 DEF Stored
      <4>2. \A y \in msgs : ~ XPage(y)
        BY <1>2, <1>4 DEF XPage
      <4>3. Keeps(o)
        BY <1>4, <1>15, <3>2, <4>2 DEF Current, Flow, Kept, Keeper
      <4>4. CASE m.req.mode = DRC_LOCK_EXCLUSIVE
        <5>1. Latest # 0
          BY <1>1, LsnTypes
        <5>2. ctrl[o].dirty \/ ctrl[o].rdirty
          BY <1>4, <1>16, <4>1, <4>3, <4>4, <5>1 DEF Keeps, Unsaved
        <5> QED BY <1>9, <1>13, <4>4, <5>2 DEF Kept, XPage
      <4>5. CASE m.req.mode # DRC_LOCK_EXCLUSIVE
        <5>1. Keeps(o)'
          BY <1>3, <1>4, <1>10, <1>11, <1>12, <4>1, <4>3, <4>5 DEF Keeps, Unsaved
        <5>2. \A y \in msgs' : ~ XPage(y)
          BY <1>9, <1>13, <4>2, <4>5 DEF XPage
        <5>3. Keeper(o)'
          BY <1>3, <1>4, <1>15, <5>1 DEF Keeper
        <5> QED BY <5>2, <5>3 DEF Kept, XPage
      <4> QED BY <4>4, <4>5
    <3> QED BY <3>1, <3>2
  <2>9. ClaimsClean'
    BY <1>15 DEF ClaimsClean
  <2> QED BY <2>1, <2>3, <2>4, <2>5, <2>9 DEF Flow
<1>22. Truthful'
  <2>1. \A y \in msgs' : y.t \in {"ask", "own"} => y \in msgs
    BY <1>9, <1>13
  <2>2. \A y \in msgs' : y.t = "page" /\ y.flag = "r2x" => ctrl[y.to].lock = DRC_LOCK_SHARE
    <3>1. n.flag = "r2x" => ctrl[n.to].lock = DRC_LOCK_SHARE
      BY <1>5, <1>9, <1>12 DEF Tells
    <3> QED BY <1>13, <3>1 DEF Current, Truthful
  <2>3. \A j \in Inst : ses'[j].st = "ask" => ctrl'[j].lock = ctrl[j].lock
    BY <1>3, <1>4, <1>11
  <2> QED BY <1>1, <1>3, <1>12, <2>1, <2>2, <2>3, TruthKept DEF Current, Truthful
<1>23. Recycles' /\ ~ panic'
  BY <1>1, <1>3, <1>4 DEF Recycles
<1>24. Served'
  BY <1>9, <1>13 DEF Served
<1> QED BY <1>20, <1>21, <1>22, <1>23, <1>24 DEF Current

-----------------------------------------------------------------------------
(***************************************************************************)
(* Claims.                                                                 *)
(***************************************************************************)
\* No claim is dropped: it is that of the request being converted, its lsn is
\* not older than the entry's, and it says from where an early dirty page
\* comes (drc_claim_page_owner).
LEMMA ClaimTaken ==
    ASSUME IInv, Safe, Current, NEW i \in Inst
    PROVE  ~ ProcClaimIgnored(i)
<1> SUFFICES ASSUME NEW m \in msgs, m.t = "claim", ClaimIgnored(m) PROVE FALSE
  BY DEF ProcClaimIgnored
<1>1. TypeOK /\ Claims /\ EntrySound
  BY SafeParts DEF IInv, CatalogueSound
<1>2. m.inst \in Inst /\ m.lsn \in Nat /\ res.conv.inst = m.inst /\ res.conv.mode = m.mode
  BY <1>1, MsgFields DEF TypeOK, Claims
<1>3. Converting(res)
  BY <1>2, NoInstAssumption DEF Converting, NoReq
<1>4. res.used /\ res.owner # NoInst
  BY <1>1, <1>3, NoInstAssumption DEF EntrySound, NoRes, Converting
<1>5. res.lsn \in Nat /\ (m.lsn > 0 => res.lsn <= m.lsn)
  BY <1>1 DEF Current, Flow, Lsns, TypeOK, BufRes
<1>6. ~ (m.lsn > 0 /\ m.lsn < res.lsn)
  BY <1>2, <1>5
<1>7. ~ (m.mode = DRC_LOCK_EXCLUSIVE /\ m.edp /\ m.lsn = 0)
  BY DEF Current, Flow, Lsns
<1>8. ~ drc_claim_info_is_invalid(res, m)
  BY <1>4, <1>6, <1>7, Zenon DEF drc_claim_info_is_invalid
<1> QED BY <1>2, <1>3, <1>4, <1>8 DEF ClaimIgnored, drc_is_same_claim_request

\* The lsn of the entry is the claim's, if it has one, or stays.
LEMMA ClaimLsn ==
    ASSUME NEW rs \in BufRes, NEW c
    PROVE  LET n == drc_claim_new_page_owner(rs, c)
           IN  n.lsn = rs.lsn \/ (c.lsn > 0 /\ n.lsn = c.lsn)
<1> DEFINE e == (rs.edp \ {c.inst}) \cup (IF c.edp THEN {rs.owner} ELSE {})
           l == IF c.edp THEN rs.owner ELSE rs.latest
           s == [rs EXCEPT !.mode = DRC_LOCK_SHARE, !.copies = @ \cup {c.inst}]
           x == [rs EXCEPT !.owner = c.inst, !.mode = c.mode, !.copies = {},
                           !.edp = e, !.latest = l]
           n == drc_claim_new_page_owner(rs, c)
<1>1. s.lsn = rs.lsn /\ [s EXCEPT !.lsn = c.lsn].lsn = c.lsn
  BY DEF BufRes
<1>2. x.lsn = rs.lsn /\ [x EXCEPT !.lsn = c.lsn].lsn = c.lsn
  <2> HIDE DEF e, l
  <2> QED BY DEF BufRes
<1>3. \/ n \in {rs, s, x}
      \/ c.lsn > 0 /\ n \in {[s EXCEPT !.lsn = c.lsn], [x EXCEPT !.lsn = c.lsn]}
  BY Zenon DEF drc_claim_new_page_owner
<1> HIDE DEF s, x, n
<1>4. n.lsn = rs.lsn \/ (c.lsn > 0 /\ n.lsn = c.lsn)
  BY <1>1, <1>2, <1>3
<1> QED BY <1>4 DEF n

\* Converting the next request leaves the lsn.
LEMMA PopLsn ==
    ASSUME NEW rs \in BufRes, NEW k \in 0 .. Len(rs.q),
           NEW n, n = drc_pop_request(rs, k),
           NEW f, f = drc_check_first_req_in_convert_queue(n)
    PROVE  f.lsn = rs.lsn
<1>1. n.lsn = rs.lsn /\ n \in BufRes
  <2> DEFINE s == SubSeq(rs.q, k + 2, Len(rs.q))
  <2>1. CASE k >= Len(rs.q)
    <3>1. n = [rs EXCEPT !.q = <<>>, !.conv = NoReq]
      BY <2>1 DEF drc_pop_request
    <3>2. n.lsn = rs.lsn
      BY <3>1 DEF BufRes
    <3> QED BY <3>2, PopType
  <2>2. CASE ~ (k >= Len(rs.q))
    <3>1. n = [rs EXCEPT !.q = s, !.conv = rs.q[k + 1]]
      BY <2>2 DEF drc_pop_request
    <3> HIDE DEF s
    <3>2. n.lsn = rs.lsn
      BY <3>1 DEF BufRes
    <3> QED BY <3>2, PopType
  <2> QED BY <2>1, <2>2
<1>2. CASE FirstConflicts(n)
  <2>1. f = [n EXCEPT !.q = Tail(n.q)]
    BY <1>2 DEF drc_check_first_req_in_convert_queue
  <2> QED BY <1>1, <2>1 DEF BufRes
<1>3. CASE ~ FirstConflicts(n)
  BY <1>1, <1>3 DEF drc_check_first_req_in_convert_queue
<1> QED BY <1>2, <1>3

\* A claim is recorded: who claims exclusively is the owner now, and has the
\* page; the next request is converted.
LEMMA NowClaim ==
    ASSUME IInv, IInv', Safe, Safe', Current, NEW i \in Inst, ProcClaim(i)
    PROVE  Current'
<1>1. TypeOK /\ Ordered /\ Global /\ Claims /\ EntrySound /\ res \in BufRes /\ Latest \in Nat
  BY SafeParts, LsnTypes DEF IInv, CatalogueSound, TypeOK
<1> DEFINE Refused(n) == IF FirstConflicts(n) THEN {Reply("err", Head(n.q))} ELSE {}
<1>2. PICK m \in msgs, k \in 0 .. Len(res.q) :
        /\ m.t = "claim" /\ ~ ClaimIgnored(m)
        /\ LET n == drc_pop_request(drc_claim_new_page_owner(res, m), k)
           IN  /\ res' = drc_check_first_req_in_convert_queue(n)
               /\ IF Converting(n)
                  THEN Convert(m, n, n.conv, FALSE, "claim", i = Master, Refused(n))
                  ELSE inv' = inv /\ Exchange(m, {})
  BY Zenon DEF ProcClaim
<1>3. /\ ctrl' = ctrl /\ ses' = ses /\ sn' = sn /\ mark' = mark /\ disk' = disk /\ hist' = hist
      /\ panic' = (panic \/ res.pending)
  BY DEF ProcClaim
<1>4. PICK rs : rs = drc_claim_new_page_owner(res, m)
  OBVIOUS
<1>5. PICK n : n = drc_pop_request(rs, k)
  OBVIOUS
<1>6. m.inst \in Inst /\ m.mode \in {DRC_LOCK_SHARE, DRC_LOCK_EXCLUSIVE} /\ m.lsn \in Nat
  BY <1>1, <1>2, MsgFields DEF TypeOK, ReqMode
<1>7. rs \in BufRes /\ rs.q = res.q
  <2>1. res.used /\ res.owner \in Inst
    BY <1>1, <1>2 DEF ClaimIgnored, EntrySound
  <2>2. m.inst \in Inst /\ m.mode \in ReqMode /\ m.lsn \in Nat /\ m.edp \in BOOLEAN
    BY <1>1, <1>2, MsgFields DEF TypeOK
  <2> QED BY <1>1, <1>4, <2>1, <2>2, ClaimType
<1>8. /\ res' = drc_check_first_req_in_convert_queue(n)
      /\ Converting(n) => Convert(m, n, n.conv, FALSE, "claim", i = Master, Refused(n))
      /\ ~ Converting(n) => inv' = inv /\ Exchange(m, {})
  BY <1>2, <1>4, <1>5
<1>9. Errors(Refused(n))
  <2>1. Reply("err", Head(n.q)).t = "err"
    BY DEF Reply
  <2> QED BY <2>1 DEF Errors
<1> HIDE DEF Refused
<1>10. /\ res'.owner = rs.owner /\ res'.conv = n.conv
       /\ ~ Converting(n) => n.conv = NoReq /\ res'.q = <<>>
       /\ Converting(n) =>
            /\ k + 1 \in 1 .. Len(res.q) /\ n.conv = res.q[k + 1]
            /\ \E d \in Nat : Shifted(res.q, res'.q, d)
  BY <1>5, <1>7, <1>8, PopFields
<1>11. res'.lsn \in {res.lsn, m.lsn} /\ (res'.lsn = res.lsn \/ m.lsn > 0)
  <2>1. res'.lsn = rs.lsn
    BY <1>5, <1>7, <1>8, PopLsn
  <2>2. rs.lsn = res.lsn \/ (m.lsn > 0 /\ rs.lsn = m.lsn)
    BY <1>1, <1>4, ClaimLsn
  <2> QED BY <2>1, <2>2
<1> DEFINE x == m.mode = DRC_LOCK_EXCLUSIVE
<1>12. res'.owner = IF x THEN m.inst ELSE res.owner
  <2>1. \/ res.owner = m.inst /\ rs.owner = res.owner
        \/ m.mode = DRC_LOCK_SHARE /\ rs.owner = res.owner
        \/ m.mode # DRC_LOCK_SHARE /\ rs.owner = m.inst
    BY <1>1, <1>4, ClaimFields
  <2> QED BY <1>6, <1>10, <2>1 DEF DRC_LOCK_SHARE, DRC_LOCK_EXCLUSIVE
<1>13. AtRest(msgs \ {m}) /\ inv = {}
  BY <1>2, RestClaim
<1>14. \A y \in msgs : y # m => y.t \notin {"own", "already", "page", "claim"}
  BY <1>13 DEF AtRest
<1>15. /\ \A y \in msgs' : (y \in msgs /\ y # m) \/ y.t \in {"err", "already", "own"}
       /\ \A y \in msgs : y # m => y \in msgs'
       /\ Truthful' /\ Recycles' /\ Served'
  <2>1. CASE ~ Converting(n)
    <3>1. inv' = {} /\ Exchange(m, {}) /\ res'.conv = NoReq /\ 1 .. Len(res'.q) = {}
      BY <1>8, <1>10, <1>13, <2>1
    <3>2. (\A y \in msgs' : y \in msgs /\ y # m) /\ \A y \in msgs : y # m => y \in msgs'
      BY <3>1, Network, Delivered
    <3>3. Latest' = Latest
      BY <1>3 DEF Latest
    <3>4. Truthful'
      BY <1>1, <1>3, <3>1, <3>2, <3>3, TruthKept DEF Current, Truthful
    <3>5. Recycles' /\ Served'
      BY <3>1 DEF Recycles, Served, Converting
    <3> QED BY <3>2, <3>4, <3>5
  <2>2. CASE Converting(n)
    <3>1. PICK r : r = n.conv
      OBVIOUS
    <3>2. PICK d \in Nat : Shifted(res.q, res'.q, d)
      BY <1>10, <2>2
    <3>3. Tells(r) /\ \A j \in 1 .. Len(res'.q) : Tells(res'.q[j])
      BY <1>10, <2>2, <3>1, <3>2 DEF Current, Truthful, Shifted
    <3>4. PICK E : E = Refused(n)
      OBVIOUS
    <3>5. Convert(m, n, r, FALSE, "claim", i = Master, E) /\ Errors(E)
      BY <1>8, <1>9, <2>2, <3>1, <3>4
    <3>6. r.sn = sn[r.inst]
      BY <3>3 DEF Tells
    <3>7. Onward(m, r)
      BY <3>5, <3>6, ConvertOnward
    <3>8. Truthful'
      BY <1>3, <3>3, <3>7, TruthOnward DEF Current
    <3>9. Recycles' /\ Served'
      BY <1>13, <3>7 DEF Onward, Recycles, Served, Serves, IsRecycle
    <3>10. \A y \in msgs' : (y \in msgs /\ y # m) \/ y.t \in {"err", "already", "own"}
      <4>1. (\E z : IntoRound(z, m, n, r, E)) \/ (\E z : ToOwner(z, m, n, r, E))
        BY <3>5, ConvertWays
      <4>2. CASE \E z : IntoRound(z, m, n, r, E)
        BY <3>5, <4>2 DEF IntoRound, Errors
      <4>3. CASE \E z : ToOwner(z, m, n, r, E)
        <5>1. PICK z : /\ \A y \in msgs' : (y \in msgs /\ y # m) \/ y \in E \/ y = z
                       /\ z.t \in {"already", "own"}
          BY <4>3 DEF ToOwner
        <5> QED BY <3>5, <5>1 DEF Errors
      <4> QED BY <4>1, <4>2, <4>3
    <3> QED BY <3>7, <3>8, <3>9, <3>10 DEF Onward
  <2> QED BY <2>1, <2>2
<1>16. \A y \in msgs' : y.t # "claim" /\ ~ XPage(y) /\ (y.t = "load" => y \in msgs)
  BY <1>14, <1>15 DEF XPage
<1>17. \A y \in msgs : y.t \notin {"page"} /\ ~ XPage(y)
  BY <1>2, <1>14 DEF XPage
<1>18. /\ \A j \in Inst : ~ XClaim(j)'
       /\ \A j \in Inst : XClaim(j) <=> x /\ j = m.inst
       /\ \A j \in Inst : Place(j)' <=> j = res'.owner
       /\ \A j \in Inst : Place(j) <=> j = res.owner \/ (x /\ j = m.inst)
  BY <1>2, <1>14, <1>16 DEF XClaim, Place
<1>19. Latest' = Latest
  BY <1>3 DEF Latest
<1>20. Blocks'
  BY <1>3, BlockSame DEF Current, Blocks
<1>21. Writers'
  <2> SUFFICES ASSUME NEW j \in Inst PROVE WriterOK(j)'
    BY DEF Writers
  <2>1. WriterOK(j)
    BY DEF Current, Writers
  <2>2. CASE Place(j) => Place(j)'
    BY <1>3, <2>1, <2>2, WriterSame
  <2>3. CASE Place(j) /\ ~ Place(j)'
    <3>1. x /\ j # m.inst
      BY <1>12, <1>18, <2>3
    <3>2. ~ Holds(j)
      BY <1>1, <1>2, <3>1 DEF Global, Giving
    <3>3. ctrl[j].lock = DRC_LOCK_NULL
      BY <3>2 DEF Holds
    <3> QED BY <1>3, <2>1, <3>3 DEF WriterOK, Unsaved, DRC_LOCK_NULL, DRC_LOCK_EXCLUSIVE
  <2> QED BY <2>2, <2>3
<1>22. Flow'
  <2>1. Lsns'
    <3>1. res'.lsn <= Latest
      BY <1>2, <1>11 DEF Current, Flow, Lsns
    <3>2. \A y \in msgs' : y.t # "page"
      BY <1>14, <1>15
    <3> QED BY <1>16, <1>19, <3>1, <3>2 DEF Lsns
  <2>2. Loads' => Stored'
    <3>1. Loads' => Loads
      BY <1>3, <1>14, <1>15 DEF Loads
    <3>2. Stored => Stored'
      BY <1>3, <1>19 DEF Stored
    <3> QED BY <3>1, <3>2 DEF Current, Flow
  <2>3. Kept'
    <3>1. CASE disk = Latest
      BY <1>3, <1>19, <3>1 DEF Kept
    <3>2. CASE disk # Latest
      <4>1. PICK j \in Inst : Keeper(j)
        BY <1>17, <3>2 DEF Current, Flow, Kept
      <4>2. j = res'.owner
        <5>1. XClaim(j) \/ (j = res.owner /\ ~ XClaim(m.inst))
          BY <1>6, <4>1 DEF Keeper
        <5> QED BY <1>6, <1>12, <1>18, <5>1
      <4>3. Keeps(j)'
        BY <1>3, <1>19, <4>1 DEF Keeper, Keeps
      <4>4. Keeper(j)'
        <5>1. j = res'.owner /\ \A y \in msgs' : y.t # "claim"
          BY <1>16, <4>2
        <5> QED BY <4>3, <5>1 DEF Keeper, XClaim
      <4> QED BY <1>16, <4>4 DEF Kept, XPage
    <3> QED BY <3>1, <3>2
  <2>4. OwnerClean'
    <3> SUFFICES ASSUME NEW j \in Inst, j = res'.owner, ctrl[j].edp
                 PROVE  \E y \in msgs' : Leaving(y)
      BY <1>3 DEF OwnerClean, Leaving, XPage
    <3>1. ~ x /\ j = res.owner
      BY <1>6, <1>12, <1>18 DEF Current, Flow, ClaimsClean
    <3>2. PICK y \in msgs : Leaving(y)
      BY <3>1 DEF Current, Flow, OwnerClean
    <3>3. y # m
      BY <1>2, <3>1, <3>2 DEF Leaving, XPage
    <3> QED BY <1>15, <3>2, <3>3
  <2>5. ClaimsClean'
    BY <1>16 DEF ClaimsClean, XClaim
  <2> QED BY <2>1, <2>2, <2>3, <2>4, <2>5 DEF Flow
<1>23. ~ panic'
  <2>1. ~ res.pending
    BY <1>1, <1>2 DEF ClaimIgnored, EntrySound
  <2> QED BY <1>3, <2>1 DEF Current
<1> QED BY <1>15, <1>20, <1>21, <1>22, <1>23 DEF Current

-----------------------------------------------------------------------------
(***************************************************************************)
(* The theorems.                                                           *)
(***************************************************************************)
\* At the start the page is on disk only.
LEMMA CurrentInit == Init => Current
<1> SUFFICES ASSUME Init PROVE Current
  OBVIOUS
<1>1. msgs = {} /\ inv = {} /\ disk = 1 /\ hist = <<>> /\ ~ panic
  BY DEF Init
<1>2. res.q = <<>> /\ res.lsn = 0 /\ res.conv = NoReq /\ res.owner = NoInst
  BY DEF Init, NoRes
<1>3. Latest = 1
  BY <1>1 DEF Latest
<1>4. \A i \in Inst : ses[i].st = "idle" /\ ctrl[i] = NoCtrl /\ mark[i] = 0
  BY DEF Init
<1>5. /\ NoCtrl.lock = DRC_LOCK_NULL /\ ~ NoCtrl.inmem /\ NoCtrl.load = "need" /\ NoCtrl.lsn = 0
      /\ ~ NoCtrl.edp /\ ~ NoCtrl.dirty /\ ~ NoCtrl.rdirty
  BY DEF NoCtrl
<1>6. Blocks
  BY <1>3, <1>4, <1>5 DEF Blocks, BlockOK, Busy
<1>7. Writers
  BY <1>4, <1>5 DEF Writers, WriterOK, Unsaved, DRC_LOCK_NULL, DRC_LOCK_EXCLUSIVE
<1>8. Truthful
  BY <1>1, <1>2 DEF Truthful
<1>9. Flow
  <2>1. Lsns
    BY <1>1, <1>2, <1>3 DEF Lsns
  <2>2. ~ Loads /\ Kept
    BY <1>1, <1>3, <1>4 DEF Loads, Kept
  <2>3. OwnerClean /\ ClaimsClean
    BY <1>1, <1>4, <1>5 DEF OwnerClean, ClaimsClean, XClaim
  <2> QED BY <2>1, <2>2, <2>3 DEF Flow
<1>10. Recycles /\ Served
  BY <1>1, <1>2 DEF Recycles, Served, Converting
<1> QED BY <1>1, <1>6, <1>7, <1>8, <1>9, <1>10 DEF Current

\* Every step keeps the invariant, unless a request times out or overtakes a
\* claim of its instance.
LEMMA CurrentNext ==
    ASSUME IInv, IInv', Safe, Safe', Current, Prompt, [Next]_vars
    PROVE  Current'
<1>1. ASSUME NEW i \in Inst, Session(i) \/ LeavePage(i)
      PROVE  Current'
  <2>1. ~ RequestTimeout(i)
    BY DEF RequestTimeout, Prompt
  <2>2. ASSUME NEW mode \in ReqMode, EnterLocal(i, mode) \/ EnterRemote(i, mode)
        PROVE  Current'
    BY <2>2, NowEnterLocal, NowEnterRemote
  <2>3. CASE ModifyPage(i) \/ Evict(i) \/ LeavePage(i)
    BY <2>3, NowModify, NowEvict, NowLeave
  <2> QED BY <1>1, <2>1, <2>2, <2>3 DEF Session
<1>2. ASSUME NEW i \in Inst, Answer(i)
      PROVE  Current'
  BY <1>2, NowError, NowNeedLoad, NowAlreadyOwner, NowPageReady DEF Answer
<1>3. ASSUME NEW i \in Inst, MasterAsk(i)
      PROVE  Current'
  <2>1. ~ AskRetried(i)
    BY NotRepeated DEF AskRetried, drc_is_retry_request, AskOf
  <2> QED BY <1>3, <2>1, NowGranted, NowRejected, NowConverting, NowQueued DEF MasterAsk
<1>4. ASSUME NEW i \in Inst, MasterClaim(i)
      PROVE  Current'
  BY <1>4, NowClaim, ClaimTaken DEF MasterClaim
<1>5. ASSUME NEW i \in Inst, Ckpt(i) \/ CkptWrite(i)
      PROVE  Current'
  BY <1>5, NowRemotePrepare, NowCleanLocal, NowPrepareNormal, NowAnnounce, NowWrite DEF Ckpt
<1>6. ASSUME NEW i \in Inst, NodeStep(i)
      PROVE  Current'
  BY <1>1, <1>2, <1>3, <1>4, <1>5, <1>6, NowInvalidate, NowTransfer DEF NodeStep
<1>7. ASSUME Recycle
      PROVE  Current'
  BY <1>7, NowRecycleStart, NowRecycleOwner, NowRecycleDone DEF Recycle
<1>8. CASE Next
  BY <1>5, <1>6, <1>7, <1>8, NowRoundDone, NowAnnounce, Zenon DEF Next
<1>9. CASE UNCHANGED vars
  <2>1. UNCHANGED <<res, inv, ctrl, ses, sn, msgs, mark, disk, hist, panic>>
    BY <1>9 DEF vars
  <2>2. SameGiven /\ Latest \in Nat
    BY <2>1, LsnTypes DEF SameGiven, IInv
  <2>3. Blocks' /\ Writers' /\ Flow' /\ Latest' = Latest
    BY <2>1, <2>2, SameBlocks
  <2>4. Truthful' /\ Recycles' /\ Served'
    BY <2>1, <2>2, <2>3, EntryKept
  <2> QED BY <2>1, <2>3, <2>4 DEF Current
<1> QED BY <1>8, <1>9

\* Everything that is reachable without a timeout or an overtaken claim
\* satisfies the invariant.
LEMMA AlwaysCurrent == Spec => [](Prompt => Current)
<1>1. Init => (Prompt => Current)
  BY CurrentInit
<1>2. (/\ IInv /\ IInv' /\ (Prompt => Safe) /\ (Prompt => Safe)'
       /\ (Prompt => Current) /\ [Next]_vars) => (Prompt => Current)'
  BY CurrentNext DEF Prompt
<1> QED BY <1>1, <1>2, AlwaysIInv, AlwaysSafe, PTL DEF Spec

\* A session that got the page works on the last change of it.
LEMMA CurrentFresh ==
    ASSUME IInv, Safe, Current
    PROVE  Fresh
<1> SUFFICES ASSUME NEW i \in Inst, ses[i].st = "got" PROVE Seen(i) = Latest
  BY DEF Fresh
<1>1. BlockOK(i) /\ ctrl[i].load \in {"need", "loaded", "failed"}
  BY DEF Current, Blocks, IInv, TypeOK, BufCtrl
<1>2. CASE ctrl[i].load = "need"
  BY <1>2 DEF Seen, Current, Flow, Loads, Stored
<1>3. CASE ctrl[i].load # "need"
  BY <1>1, <1>3 DEF Seen, BlockOK, Busy
<1> QED BY <1>2, <1>3

\* A session that got the page, by its own lock, by a grant, from the owner or
\* from disk, sees every change that was made before, in a cluster of any size,
\* with evictions, checkpoints and recycling of the entry at any moment, as
\* long as no request times out and a claim reaches the master before later
\* requests of its instance (dcs_handle_page_from_owner, dcs_set_ctrl4granted,
\* dtc_buf_finish).
THEOREM PageFresh == Spec => [](Prompt => Fresh)
<1>1. IInv /\ (Prompt => Safe) /\ (Prompt => Current) => (Prompt => Fresh)
  BY CurrentFresh
<1> QED BY <1>1, AlwaysIInv, AlwaysSafe, AlwaysCurrent, PTL

\* Under the same assumptions none of the knl_panic checks of the page protocol
\* fires: those on the early dirty page and the lsn when a page is taken, on
\* the entry when it is claimed or recycled, and on the owner when the
\* checkpoint prepares the page (dcs_handle_page_from_owner,
\* drc_recycle_items, ckpt_prepare_normal).
THEOREM PanicFree == Spec => [](Prompt => NoPanic)
<1>1. (Prompt => Current) => (Prompt => NoPanic)
  BY DEF Current, NoPanic
<1> QED BY <1>1, AlwaysCurrent, PTL

-----------------------------------------------------------------------------
(***************************************************************************)
(* The refinement of CoherentPage.                                         *)
(***************************************************************************)
\* The lock modes are those of the coherent page.
LEMMA SameModes ==
    /\ Page!DRC_LOCK_NULL = DRC_LOCK_NULL /\ Page!DRC_LOCK_EXCLUSIVE = DRC_LOCK_EXCLUSIVE
    /\ Page!ReqMode = ReqMode
BY DEF Page!DRC_LOCK_NULL, Page!DRC_LOCK_SHARE, Page!DRC_LOCK_EXCLUSIVE, Page!ReqMode,
       DRC_LOCK_NULL, DRC_LOCK_SHARE, DRC_LOCK_EXCLUSIVE, ReqMode

\* How a session uses the page, when it sees the last change.
LEMMA AccessFields ==
    ASSUME Fresh, NEW i \in Inst
    PROVE  /\ ses[i].st = "got" => Access(i) = [mode |-> ses[i].mode, seen |-> Latest]
           /\ ses[i].st # "got" => Access(i) = [mode |-> DRC_LOCK_NULL, seen |-> 0]
BY DEF Access, Fresh

\* No session gets or gives back the page, and nobody changes it: nothing
\* happens to the coherent page.
LEMMA PageStutters ==
    ASSUME Fresh, Fresh', hist' = hist,
           \A i \in Inst : \/ ses'[i] = ses[i]
                           \/ ses[i].st # "got" /\ ses'[i].st # "got"
    PROVE  UNCHANGED Page!vars
<1>1. Latest' = Latest
  BY DEF Latest
<1>2. ASSUME NEW i \in Inst PROVE Access(i)' = Access(i)
  <2>1. /\ ses[i].st = "got" => Access(i) = [mode |-> ses[i].mode, seen |-> Latest]
        /\ ses[i].st # "got" => Access(i) = [mode |-> DRC_LOCK_NULL, seen |-> 0]
    BY AccessFields
  <2>2. /\ ses'[i].st = "got" => Access(i)' = [mode |-> ses'[i].mode, seen |-> Latest']
        /\ ses'[i].st # "got" => Access(i)' = [mode |-> DRC_LOCK_NULL, seen |-> 0]
    BY DEF Access, Fresh
  <2> QED BY <1>1, <2>1, <2>2
<1>3. [i \in Inst |-> Access(i)]' = [i \in Inst |-> Access(i)]
  BY <1>2
<1> QED BY <1>1, <1>3 DEF Page!vars

\* A session gets the page: it enters the coherent page, and in no conflict.
LEMMA PageEntered ==
    ASSUME IInv', SingleWriter', Fresh, Fresh', hist' = hist, NEW i \in Inst,
           ses[i].st # "got", ses'[i].st = "got", ses'[i].mode \in ReqMode,
           \A j \in Inst : j # i => ses'[j] = ses[j]
    PROVE  Page!Next
<1>1. Latest' = Latest /\ TypeOK'
  BY DEF Latest, IInv
<1>2. PICK mode \in ReqMode : mode = ses'[i].mode
  OBVIOUS
<1>3. /\ Access(i) = [mode |-> DRC_LOCK_NULL, seen |-> 0]
      /\ Access(i)' = [mode |-> mode, seen |-> Latest]
  BY <1>1, <1>2 DEF Access, Fresh
<1>4. ASSUME NEW j \in Inst, j # i PROVE Access(j)' = Access(j)
  BY <1>1, <1>4 DEF Access, Fresh
<1>5. ASSUME NEW j \in Inst PROVE mode + Access(j).mode <= DRC_LOCK_EXCLUSIVE
  <2>1. CASE j = i \/ ses[j].st # "got"
    <3>1. Access(j).mode = 0
      BY <1>3, <2>1 DEF Access, DRC_LOCK_NULL
    <3> QED BY <3>1 DEF ReqMode, DRC_LOCK_SHARE, DRC_LOCK_EXCLUSIVE
  <2>2. CASE j # i /\ ses[j].st = "got"
    <3>1. ses'[j] = ses[j] /\ ses[j].mode \in LockMode /\ Access(j).mode = ses[j].mode
      BY <1>1, <2>2 DEF TypeOK, Access
    <3>2. mode # DRC_LOCK_EXCLUSIVE /\ ses[j].mode # DRC_LOCK_EXCLUSIVE
      BY <1>2, <2>2, <3>1 DEF SingleWriter, Using
    <3> QED BY <3>1, <3>2 DEF ReqMode, LockMode, DRC_LOCK_SHARE, DRC_LOCK_EXCLUSIVE
  <2> QED BY <2>1, <2>2
<1>6. [j \in Inst |-> Access(j)]' =
        [[j \in Inst |-> Access(j)] EXCEPT ![i] = [mode |-> mode, seen |-> Latest]]
  BY <1>3, <1>4
<1>7. Page!Enter(i, mode)
  BY <1>1, <1>3, <1>5, <1>6, SameModes DEF Page!Enter, Page!NoAccess, Page!Compatible
<1> QED BY <1>2, <1>7, SameModes DEF Page!Next

\* A session gives the page back, changed or not.
LEMMA PageLeft ==
    ASSUME NEW i \in Inst, LatchOK(i), Fresh, Fresh',
           ses[i].st = "got", ses'[i].st # "got",
           \A j \in Inst : j # i => ses'[j] = ses[j] /\ (hist' # hist => ses[j].st # "got"),
           \/ hist' = hist
           \/ Latest' = Latest + 1 /\ ses[i].mode = DRC_LOCK_EXCLUSIVE
    PROVE  Page!Next
<1>1. /\ Access(i) = [mode |-> ses[i].mode, seen |-> Latest]
      /\ Access(i)' = [mode |-> DRC_LOCK_NULL, seen |-> 0]
  BY DEF Access, Fresh
<1>2. ASSUME NEW j \in Inst, j # i PROVE Access(j)' = Access(j)
  <2>1. ses[j].st = "got" => Latest' = Latest
    BY <1>2 DEF Latest
  <2> QED BY <1>2, <2>1 DEF Access, Fresh
<1>3. [j \in Inst |-> Access(j)]' =
        [[j \in Inst |-> Access(j)] EXCEPT ![i] = [mode |-> DRC_LOCK_NULL, seen |-> 0]]
  BY <1>1, <1>2
<1>4. Access(i).mode = ses[i].mode /\ ses[i].mode # DRC_LOCK_NULL
  BY <1>1 DEF LatchOK, ReqMode, DRC_LOCK_SHARE, DRC_LOCK_EXCLUSIVE, DRC_LOCK_NULL
<1>5. Access(i) # [mode |-> DRC_LOCK_NULL, seen |-> 0]
  BY <1>4
<1>6. CASE hist' = hist
  <2>1. Latest' = Latest
    BY <1>6 DEF Latest
  <2>2. Page!Leave(i)
    BY <1>3, <1>5, <2>1, SameModes DEF Page!Leave, Page!NoAccess
  <2> QED BY <2>2 DEF Page!Next
<1>7. CASE Latest' = Latest + 1 /\ ses[i].mode = DRC_LOCK_EXCLUSIVE
  <2>1. Page!Change(i)
    BY <1>3, <1>4, <1>7, SameModes DEF Page!Change, Page!NoAccess
  <2> QED BY <2>1 DEF Page!Next
<1> QED BY <1>6, <1>7

\* Every step is one of the coherent page, or none for it.
LEMMA PageStep ==
    ASSUME IInv, IInv', Safe, SingleWriter, SingleWriter', Fresh, Fresh', [Next]_vars
    PROVE  [Page!Next]_(Page!vars)
<1>1. TypeOK
  BY DEF IInv
<1>2. ASSUME NEW i \in Inst, NEW mode \in ReqMode, EnterLocal(i, mode)
      PROVE  Page!Next
  <2>1. ses' = [ses EXCEPT ![i] = [st |-> "got", mode |-> mode]] /\ ses[i].st # "got" /\ hist' = hist
    BY <1>2 DEF EnterLocal
  <2>2. /\ ses'[i].st = "got" /\ ses'[i].mode = mode
        /\ \A j \in Inst : j # i => ses'[j] = ses[j]
    BY <1>1, <2>1 DEF TypeOK
  <2> QED BY <2>1, <2>2, PageEntered
<1>3. ASSUME NEW i \in Inst, HandleNeedLoad(i) \/ HandleAlreadyOwner(i) \/ HandlePageReady(i)
      PROVE  Page!Next
  <2>1. ses' = [ses EXCEPT ![i].st = "got"] /\ ses[i].st = "ask" /\ hist' = hist
    BY <1>3 DEF HandleNeedLoad, HandleAlreadyOwner, HandlePageReady
  <2>2. /\ ses'[i].st = "got" /\ ses'[i].mode = ses[i].mode
        /\ \A j \in Inst : j # i => ses'[j] = ses[j]
    BY <1>1, <2>1 DEF TypeOK
  <2>3. ses[i].mode \in ReqMode
    BY <2>1 DEF Safe, Orderly, LatchOK
  <2> QED BY <2>1, <2>2, <2>3, PageEntered
<1>4. ASSUME NEW i \in Inst, LeavePage(i) \/ ModifyPage(i)
      PROVE  Page!Next
  <2>1. /\ ses' = [ses EXCEPT ![i] = [st |-> "idle", mode |-> DRC_LOCK_NULL]] /\ ses[i].st = "got"
        /\ \/ hist' = hist
           \/ hist' = Append(hist, i) /\ ses[i].mode = DRC_LOCK_EXCLUSIVE
    BY <1>4 DEF LeavePage, ModifyPage
  <2>2. ses'[i].st # "got" /\ \A j \in Inst : j # i => ses'[j] = ses[j]
    BY <1>1, <2>1 DEF TypeOK
  <2>3. hist' = Append(hist, i) => Latest' = Latest + 1
    BY <1>1 DEF TypeOK, Latest
  <2>4. \A j \in Inst : j # i => (hist' # hist => ses[j].st # "got")
    BY <2>1 DEF SingleWriter, Using
  <2>5. LatchOK(i)
    BY DEF Safe, Orderly
  <2> QED BY <2>1, <2>2, <2>3, <2>4, <2>5, PageLeft
<1>5. ASSUME NEW i \in Inst,
             \/ \E mode \in ReqMode : EnterRemote(i, mode)
             \/ HandleError(i) \/ RequestTimeout(i)
      PROVE  UNCHANGED Page!vars
  <2>1. /\ hist' = hist /\ ses[i].st # "got"
        /\ \/ ses' = [ses EXCEPT ![i].st = "sleep"]
           \/ \E mode \in ReqMode : ses' = [ses EXCEPT ![i] = [st |-> "ask", mode |-> mode]]
    BY <1>5 DEF EnterRemote, HandleError, RequestTimeout
  <2>2. \A j \in Inst : ses'[j] = ses[j] \/ (j = i /\ ses'[j].st # "got")
    BY <1>1, <2>1 DEF TypeOK
  <2> QED BY <2>1, <2>2, PageStutters
<1>6. ASSUME hist' = hist /\ ses' = ses
      PROVE  UNCHANGED Page!vars
  BY <1>6, PageStutters
<1>7. ASSUME NEW i \in Inst,
             \/ Evict(i) \/ MasterAsk(i) \/ MasterClaim(i) \/ InvalidateCopy(i)
             \/ OwnerTransfer(i) \/ Ckpt(i) \/ CkptWrite(i)
      PROVE  UNCHANGED Page!vars
  <2>1. CASE Evict(i) \/ InvalidateCopy(i) \/ OwnerTransfer(i) \/ CkptWrite(i)
    BY <1>6, <2>1 DEF Evict, InvalidateCopy, OwnerTransfer, CkptWrite
  <2>2. CASE MasterAsk(i)
    BY <1>6, <2>2 DEF MasterAsk, AskGranted, AskRejected, AskConverting, AskRetried, AskQueued
  <2>3. CASE MasterClaim(i)
    BY <1>6, <2>3 DEF MasterClaim, ProcClaim, ProcClaimIgnored
  <2>4. CASE Ckpt(i)
    BY <1>6, <2>4 DEF Ckpt, CkptRemotePrepare, CkptCleanLocal, CkptPrepareNormal, CkptAnnounce
  <2> QED BY <1>7, <2>1, <2>2, <2>3, <2>4
<1>8. ASSUME RoundDone \/ Recycle \/ ProcCkptReq \/ ProcCleanReq
      PROVE  UNCHANGED Page!vars
  BY <1>6, <1>8 DEF RoundDone, Recycle, RecycleStart, RecycleOwner, RecycleDone, ProcCkptReq, ProcCleanReq
<1>9. ASSUME NEW i \in Inst, Session(i) \/ Answer(i) \/ LeavePage(i)
      PROVE  Page!Next \/ UNCHANGED Page!vars
  BY <1>2, <1>3, <1>4, <1>5, <1>7, <1>9 DEF Session, Answer
<1>10. ASSUME NEW i \in Inst, NodeStep(i)
       PROVE  Page!Next \/ UNCHANGED Page!vars
  BY <1>7, <1>9, <1>10 DEF NodeStep
<1>11. CASE Next
  BY <1>7, <1>8, <1>10, <1>11, Zenon DEF Next
<1>12. CASE UNCHANGED vars
  BY <1>6, <1>12 DEF vars
<1> QED BY <1>11, <1>12

\* Under the same assumptions the cluster implements the one coherent page: a
\* session gets the page by its own lock, a grant, a transfer or a disk load
\* exactly as it would get the newest version of a single page without a
\* conflict, and what it has got does not change before it gives the page back
\* (dtc_read_page, dtc_buf_finish, dcs_owner_transfer_page).
THEOREM ClusterCoherent == Prompt /\ Spec => Coherent
<1>1. Init => Page!Init
  <2> SUFFICES ASSUME Init PROVE Page!Init
    OBVIOUS
  <2>1. Latest = 1
    BY DEF Init, Latest
  <2>2. \A i \in Inst : Access(i) = [mode |-> DRC_LOCK_NULL, seen |-> 0]
    BY DEF Init, Access
  <2> QED BY <2>1, <2>2, SameModes DEF Page!Init, Page!NoAccess
<1>2. Prompt /\ [Next]_vars => Prompt'
  BY DEF Prompt
<1>3. (/\ Prompt /\ IInv /\ IInv' /\ (Prompt => Safe)
       /\ (Prompt => SingleWriter) /\ (Prompt => SingleWriter)'
       /\ (Prompt => Fresh) /\ (Prompt => Fresh)' /\ [Next]_vars) => [Page!Next]_(Page!vars)
  BY PageStep DEF Prompt
<1> QED BY <1>1, <1>2, <1>3, AlwaysIInv, AlwaysSafe, OneWriter, PageFresh, PTL DEF Spec, Coherent, Page!Spec
=============================================================================
