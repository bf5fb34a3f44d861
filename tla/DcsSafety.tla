----------------------------- MODULE DcsSafety -----------------------------
(***************************************************************************)
(* Theorems about module Dcs, for any number of instances, with eviction,  *)
(* checkpoints and recycling, while no request times out and a claim       *)
(* reaches the master before the later requests of its instance: a page    *)
(* that is used exclusively is used by one instance only, and the          *)
(* catalogue knows every instance that may use the page.                   *)
(***************************************************************************)
EXTENDS DcsProofs

-----------------------------------------------------------------------------
(***************************************************************************)
(* The inductive invariant.                                                *)
(***************************************************************************)
\* Messages that stand for the request of an instance, and whose it is.
Replies == {"load", "already", "err", "page"}
Token(m) == m.t \in {"ask", "own"} \union Replies
For(m) == IF m.t \in {"ask", "own"} THEN m.req.inst ELSE m.to

\* Rounds that stand for a request.
Serves(r) == ~ IsRecycle(r)

\* The request of instance i: in a message, in a round or in the queue.
MsgFor(i) == {m \in msgs : Token(m) /\ For(m) = i}
RoundFor(i) == {r \in inv : Serves(r) /\ r.req.inst = i}
QueueFor(i) == {n \in 1 .. Len(res.q) : res.q[n].inst = i}

\* An instance that waits for an answer has at most one request under way,
\* in one place; any other instance has none.
Alone(i) ==
    /\ \A m, n \in MsgFor(i) : m = n
    /\ \A r, s \in RoundFor(i) : r = s
    /\ \A m, n \in QueueFor(i) : m = n
    /\ MsgFor(i) = {} \/ RoundFor(i) = {}
    /\ MsgFor(i) = {} \/ QueueFor(i) = {}
    /\ RoundFor(i) = {} \/ QueueFor(i) = {}
    /\ ses[i].st # "ask" => MsgFor(i) = {} /\ RoundFor(i) = {} /\ QueueFor(i) = {}

\* Who works on the page has its latch, its block and a sufficient lock.
LatchOK(i) ==
    /\ ses[i].st \in {"ask", "got"} => ctrl[i].inmem
    /\ ses[i].st # "idle" => ses[i].mode \in ReqMode
    /\ ~ ctrl[i].inmem => ctrl[i].lock = DRC_LOCK_NULL
    /\ ses[i].st = "got" => ctrl[i].lock >= ses[i].mode

\* The request of an instance asks for the mode that its session wants, or for
\* a larger one.
Wants(i) ==
    /\ \A m \in MsgFor(i) : m.t \in {"ask", "own"} => m.req.mode >= ses[i].mode
    /\ \A m \in MsgFor(i) : m.t \in {"already", "page"} => m.mode >= ses[i].mode
    /\ \A r \in RoundFor(i) : r.req.mode >= ses[i].mode
    /\ \A n \in QueueFor(i) : res.q[n].mode >= ses[i].mode

Orderly(i) == Alone(i) /\ LatchOK(i) /\ Wants(i)

\* What works on a request works on the one the entry converts, for the owner
\* that the entry has.
Serving ==
    /\ \A m \in msgs : m.t = "own" =>
          m.req = res.conv /\ m.to = res.owner /\ m.req.inst # res.owner
    /\ \A m \in msgs : m.t \in {"already", "page"} =>
          res.conv.inst = m.to /\ res.conv.mode = m.mode
    /\ \A m \in msgs : m.t = "already" => res.owner = m.to
    /\ \A m \in msgs : m.t = "page" => res.owner # m.to
    /\ \A m \in msgs : m.t = "load" => res.used /\ res.owner = m.to
    /\ \A r \in inv : Serves(r) =>
          /\ r.ok /\ r.req = res.conv /\ r.req.mode = DRC_LOCK_EXCLUSIVE
          /\ r.owner = res.owner
          /\ res.owner \notin r.wait /\ res.conv.inst \notin r.wait

\* A claim is that of the converting request, nothing else works on it.
Claims ==
    /\ \A m \in msgs : m.t = "claim" =>
          /\ res.conv.inst = m.inst /\ res.conv.mode = m.mode
          /\ \A n \in MsgFor(m.inst) : n.t = "ask"
          /\ RoundFor(m.inst) = {} /\ QueueFor(m.inst) = {}
    /\ \A m, n \in msgs : m.t = "claim" /\ n.t = "claim" => m = n

\* The instance may use the page, or will after the answer that is under way.
Holds(i) == \/ ctrl[i].lock # DRC_LOCK_NULL
            \/ \E m \in msgs : m.t \in {"load", "already", "page"} /\ m.to = i
HoldsX(i) == \/ ctrl[i].lock = DRC_LOCK_EXCLUSIVE
             \/ \E m \in msgs : m.t = "load" /\ m.to = i
             \/ \E m \in msgs : /\ m.t \in {"already", "page"} /\ m.to = i
                                /\ m.mode = DRC_LOCK_EXCLUSIVE

\* Who holds the page exclusively holds it alone, and the entry knows who
\* holds it and in which capacity.
Power ==
    /\ \A i \in Inst : Holds(i) =>
          res.used /\ (i = res.owner \/ i \in res.copies \/ i = res.conv.inst)
    /\ \A i \in Inst : HoldsX(i) => i = res.owner \/ i = res.conv.inst
    /\ \A i, j \in Inst : HoldsX(i) /\ Holds(j) => i = j

\* What the holders still have to give up.
Giving ==
    /\ \A m \in msgs : m.t = "own" /\ m.req.mode = DRC_LOCK_EXCLUSIVE =>
          \A i \in Inst : Holds(i) => i = res.owner \/ i = res.conv.inst
    /\ \A r \in inv : Serves(r) =>
          \A i \in Inst : Holds(i) => i = res.owner \/ i = res.conv.inst \/ i \in r.wait
    /\ \A m \in msgs : m.t = "claim" /\ m.mode = DRC_LOCK_EXCLUSIVE =>
          \A i \in Inst : Holds(i) => i = m.inst
    /\ \A m \in msgs : m.t = "claim" /\ m.mode = DRC_LOCK_SHARE =>
          (HoldsX(m.inst) => m.inst = res.owner)
    /\ \A r \in inv : r.kind = "recycle" /\ r.ok =>
          \A i \in Inst : Holds(i) => i = res.owner \/ i \in r.wait
    /\ \A r \in inv : r.kind = "recycled" /\ r.ok => \A i \in Inst : ~ Holds(i)

\* An owner that may use the page keeps no early dirty page.
EdpSound ==
    ~ panic => \A i \in Inst : ctrl[i].lock # DRC_LOCK_NULL /\ ctrl[i].edp =>
                 /\ ctrl[i].lock = DRC_LOCK_SHARE /\ i # res.owner
                 /\ \A m \in msgs : ~ (m.t = "claim" /\ m.mode = DRC_LOCK_EXCLUSIVE /\ m.inst = i)

Safe == /\ \A i \in Inst : Orderly(i)
        /\ Serving /\ Claims /\ Power /\ Giving /\ EdpSound

-----------------------------------------------------------------------------
(***************************************************************************)
(* Messages.                                                               *)
(***************************************************************************)
\* What an instance sends has the type and the addressee of its request
\* (dcs_send_page, dcs_notify_owner_for_page, dcs_claim_ownership).
LEMMA SentFields ==
    ASSUME NEW r
    PROVE  /\ Ask(r).t = "ask" /\ Ask(r).req = r
           /\ \A t : Reply(t, r).t = t /\ Reply(t, r).to = r.inst /\ Reply(t, r).mode = r.mode
           /\ \A f, c : /\ PageReady(r, f, c).t = "page" /\ PageReady(r, f, c).to = r.inst
                        /\ PageReady(r, f, c).mode = r.mode
           /\ \A o, y : AskOwner(o, r, y).t = "own" /\ AskOwner(o, r, y).to = o /\ AskOwner(o, r, y).req = r
<1>1. Ask(r).t = "ask" /\ Ask(r).req = r
  BY DEF Ask
<1>2. \A t : Reply(t, r).t = t /\ Reply(t, r).to = r.inst /\ Reply(t, r).mode = r.mode
  BY DEF Reply
<1>3. \A f, c : /\ PageReady(r, f, c).t = "page" /\ PageReady(r, f, c).to = r.inst
                /\ PageReady(r, f, c).mode = r.mode
  BY DEF Reply, PageReady
<1>4. \A o, y : AskOwner(o, r, y).t = "own" /\ AskOwner(o, r, y).to = o /\ AskOwner(o, r, y).req = r
  BY DEF AskOwner
<1> QED BY <1>1, <1>2, <1>3, <1>4

\* After a step a message is an old one that was not consumed, or a sent one.
LEMMA Network ==
    ASSUME NEW m, NEW S
    PROVE  /\ Exchange(m, S) => \A n \in msgs' : (n \in msgs /\ n # m) \/ n \in S
           /\ Send(S) => \A n \in msgs' : n \in msgs \/ n \in S
BY DEF Exchange, Send, Live

\* The request that a message stands for is named by its type.
LEMMA ForWhom ==
    ASSUME NEW m
    PROVE  /\ m.t \in {"ask", "own"} => Token(m) /\ For(m) = m.req.inst
           /\ m.t \in Replies => Token(m) /\ For(m) = m.to
           /\ m.t \in {"claim", "ckpt", "clean"} => ~ Token(m)
BY DEF Token, For, Replies

-----------------------------------------------------------------------------
(***************************************************************************)
(* The request of one instance.                                            *)
(***************************************************************************)
\* An instance that a step does not concern stays in order, although its
\* request may have moved up by d places in the queue.
LEMMA OrderlyShifted ==
    ASSUME NEW j \in Inst, Orderly(j), NEW d \in Nat, TypeOK, TypeOK',
           \A m \in msgs' : Token(m) /\ For(m) = j => m \in msgs,
           \A r \in inv' : Serves(r) /\ r.req.inst = j => r \in inv,
           \A n \in QueueFor(j)' : n + d \in QueueFor(j) /\ res'.q[n] = res.q[n + d],
           ses'[j] = ses[j], LatchOK(j)'
    PROVE  Orderly(j)'
<1>1. MsgFor(j)' \subseteq MsgFor(j)
  BY DEF MsgFor, Token, For
<1>2. RoundFor(j)' \subseteq RoundFor(j)
  BY DEF RoundFor, Serves, IsRecycle
<1>3. QueueFor(j)' \subseteq Nat
  BY DEF QueueFor, TypeOK, BufRes
<1>4. QueueFor(j) = {} => QueueFor(j)' = {}
  OBVIOUS
<1>5. \A m, n \in QueueFor(j)' : m = n
  <2> SUFFICES ASSUME NEW m \in QueueFor(j)', NEW n \in QueueFor(j)'
               PROVE  m = n
    OBVIOUS
  <2>1. m + d = n + d
    BY DEF Orderly, Alone
  <2> QED BY <1>3, <2>1
<1>6. Alone(j)'
  BY <1>1, <1>2, <1>4, <1>5 DEF Orderly, Alone
<1>7. Wants(j)'
  BY <1>1, <1>2 DEF Orderly, Wants
<1> QED BY <1>6, <1>7 DEF Orderly

\* The same when the queue stays as it is.
LEMMA OrderlyKept ==
    ASSUME NEW j \in Inst, Orderly(j),
           \A m \in msgs' : Token(m) /\ For(m) = j => m \in msgs,
           \A r \in inv' : Serves(r) /\ r.req.inst = j => r \in inv,
           res'.q = res.q, ses'[j] = ses[j], LatchOK(j)'
    PROVE  Orderly(j)'
<1>1. MsgFor(j)' \subseteq MsgFor(j)
  BY DEF MsgFor, Token, For
<1>2. RoundFor(j)' \subseteq RoundFor(j)
  BY DEF RoundFor, Serves, IsRecycle
<1>3. QueueFor(j)' = QueueFor(j)
  BY DEF QueueFor
<1>4. Alone(j)'
  BY <1>1, <1>2, <1>3 DEF Orderly, Alone
<1>5. Wants(j)'
  BY <1>1, <1>2, <1>3 DEF Orderly, Wants
<1> QED BY <1>4, <1>5 DEF Orderly

\* A request that is in one message is nowhere else.
LEMMA OnlyMsg ==
    ASSUME NEW i \in Inst, Orderly(i), NEW m \in msgs, Token(m), For(m) = i
    PROVE  /\ \A n \in msgs : Token(n) /\ For(n) = i => n = m
           /\ \A r \in inv : ~ (Serves(r) /\ r.req.inst = i)
           /\ QueueFor(i) = {} /\ ses[i].st = "ask"
<1>1. m \in MsgFor(i)
  BY DEF MsgFor
<1>2. RoundFor(i) = {} /\ QueueFor(i) = {} /\ ses[i].st = "ask"
  BY <1>1 DEF Orderly, Alone
<1>3. \A n \in msgs : Token(n) /\ For(n) = i => n = m
  BY <1>1 DEF MsgFor, Orderly, Alone
<1>4. \A r \in inv : ~ (Serves(r) /\ r.req.inst = i)
  BY <1>2 DEF RoundFor
<1> QED BY <1>2, <1>3, <1>4

\* An instance that waits for no answer has no request anywhere.
LEMMA NoRequest ==
    ASSUME NEW i \in Inst, Orderly(i), ses[i].st # "ask"
    PROVE  /\ \A n \in msgs : ~ (Token(n) /\ For(n) = i)
           /\ \A r \in inv : ~ (Serves(r) /\ r.req.inst = i)
           /\ QueueFor(i) = {}
<1>1. MsgFor(i) = {} /\ RoundFor(i) = {} /\ QueueFor(i) = {}
  BY DEF Orderly, Alone
<1> QED BY <1>1 DEF MsgFor, RoundFor

\* The instance is in order when its request is gone, whatever it does next.
LEMMA OrderlyDone ==
    ASSUME NEW i \in Inst,
           \A m \in msgs' : ~ (Token(m) /\ For(m) = i),
           \A r \in inv' : ~ (Serves(r) /\ r.req.inst = i),
           QueueFor(i)' = {}, LatchOK(i)'
    PROVE  Orderly(i)'
<1>1. MsgFor(i)' = {}
  BY DEF MsgFor, Token, For
<1>2. RoundFor(i)' = {}
  BY DEF RoundFor, Serves, IsRecycle
<1> QED BY <1>1, <1>2 DEF Orderly, Alone, Wants

\* The instance is in order when its request is in one message.
LEMMA OrderlyMsg ==
    ASSUME NEW i \in Inst, NEW n,
           \A m \in msgs' : Token(m) /\ For(m) = i => m = n,
           n.t \in {"ask", "own"} => n.req.mode >= ses'[i].mode,
           n.t \in {"already", "page"} => n.mode >= ses'[i].mode,
           \A r \in inv' : ~ (Serves(r) /\ r.req.inst = i),
           QueueFor(i)' = {}, ses'[i].st = "ask", LatchOK(i)'
    PROVE  Orderly(i)'
<1>1. MsgFor(i)' \subseteq {n}
  BY DEF MsgFor, Token, For
<1>2. RoundFor(i)' = {}
  BY DEF RoundFor, Serves, IsRecycle
<1>3. Alone(i)'
  BY <1>1, <1>2 DEF Alone
<1>4. Wants(i)'
  BY <1>1, <1>2 DEF Wants
<1> QED BY <1>3, <1>4 DEF Orderly

\* The instance is in order when its request is in one round.
LEMMA OrderlyRound ==
    ASSUME NEW i \in Inst, NEW x,
           \A m \in msgs' : ~ (Token(m) /\ For(m) = i),
           \A r \in inv' : Serves(r) /\ r.req.inst = i => r = x,
           x.req.mode >= ses'[i].mode,
           QueueFor(i)' = {}, ses'[i].st = "ask", LatchOK(i)'
    PROVE  Orderly(i)'
<1>1. MsgFor(i)' = {}
  BY DEF MsgFor, Token, For
<1>2. RoundFor(i)' \subseteq {x}
  BY DEF RoundFor, Serves, IsRecycle
<1>3. Alone(i)'
  BY <1>1, <1>2 DEF Alone
<1>4. Wants(i)'
  BY <1>1, <1>2 DEF Wants
<1> QED BY <1>3, <1>4 DEF Orderly

\* The latch of an instance whose session and block keep their state.
LEMMA LatchKept ==
    ASSUME NEW i \in Inst, LatchOK(i), ses'[i] = ses[i],
           ctrl'[i].lock = ctrl[i].lock, ctrl'[i].inmem = ctrl[i].inmem
    PROVE  LatchOK(i)'
BY DEF LatchOK

-----------------------------------------------------------------------------
(***************************************************************************)
(* Who holds the page.                                                     *)
(***************************************************************************)
\* Messages that give the page, or ask for it to be given, or report it taken.
Work == {"load", "already", "page", "own", "claim"}

\* No step but a grant, a transfer and an answer to the owner lets an instance
\* hold more than before.
LEMMA HoldsLess ==
    ASSUME NEW i \in Inst,
           \A m \in msgs' : m.t \in {"load", "already", "page"} => m \in msgs,
           ctrl'[i].lock \in {ctrl[i].lock, DRC_LOCK_NULL}
    PROVE  (Holds(i)' => Holds(i)) /\ (HoldsX(i)' => HoldsX(i))
<1>1. Holds(i)' => Holds(i)
  BY DEF Holds
<1>2. HoldsX(i)' => HoldsX(i)
  BY DEF HoldsX, DRC_LOCK_NULL, DRC_LOCK_EXCLUSIVE
<1> QED BY <1>1, <1>2

\* Who holds the page exclusively holds it.
LEMMA HoldsBoth ==
    ASSUME NEW i \in Inst
    PROVE  HoldsX(i) => Holds(i)
BY DEF Holds, HoldsX, DRC_LOCK_NULL, DRC_LOCK_EXCLUSIVE

\* The catalogue part of the invariant.
Global == Serving /\ Power /\ Giving

\* A claim may be made once the others gave up what the claimant took.
MayClaim(m) ==
    /\ m.mode = DRC_LOCK_EXCLUSIVE => \A i \in Inst : Holds(i) => i = m.inst
    /\ m.mode = DRC_LOCK_SHARE => (HoldsX(m.inst) => m.inst = res.owner)

\* The catalogue part is kept by the steps that let no instance hold more and
\* work on no request, but for the claim of a page that was taken.
LEMMA GlobalLess ==
    ASSUME Global, TypeOK,
           \A m \in msgs' : m.t \in Work => m \in msgs \/ (m.t = "claim" /\ MayClaim(m)'),
           \A r \in inv' : r \in inv,
           res'.used = res.used, res'.owner = res.owner, res'.copies = res.copies,
           res'.conv = res.conv,
           \A i \in Inst : (Holds(i)' => Holds(i)) /\ (HoldsX(i)' => HoldsX(i))
    PROVE  Global'
<1>2. \A i \in Inst : (Holds(i)' => Holds(i)) /\ (HoldsX(i)' => HoldsX(i))
  OBVIOUS
<1>3. Serving'
  <2>1. \A m \in msgs' : m.t = "own" =>
          m.req = res'.conv /\ m.to = res'.owner /\ m.req.inst # res'.owner
    BY DEF Global, Serving, Work
  <2>2. \A m \in msgs' : m.t \in {"already", "page"} =>
          res'.conv.inst = m.to /\ res'.conv.mode = m.mode
    BY DEF Global, Serving, Work
  <2>3. \A m \in msgs' : /\ m.t = "already" => res'.owner = m.to
                         /\ m.t = "page" => res'.owner # m.to
                         /\ m.t = "load" => res'.used /\ res'.owner = m.to
    BY DEF Global, Serving, Work
  <2>4. \A r \in inv' : Serves(r) =>
          /\ r.ok /\ r.req = res'.conv /\ r.req.mode = DRC_LOCK_EXCLUSIVE
          /\ r.owner = res'.owner
          /\ res'.owner \notin r.wait /\ res'.conv.inst \notin r.wait
    BY DEF Global, Serving
  <2> QED BY <2>1, <2>2, <2>3, <2>4 DEF Serving, Serves, IsRecycle
<1>4. Power'
  BY <1>2 DEF Global, Power
<1>5. Giving'
  <2>1. \A m \in msgs' : m.t = "own" => m \in msgs
    BY DEF Work
  <2>8. \A m \in msgs' : m.t = "claim" => m \in msgs \/ MayClaim(m)'
    BY DEF Work
  <2>2. \A m \in msgs' : m.t = "own" /\ m.req.mode = DRC_LOCK_EXCLUSIVE =>
          \A i \in Inst : Holds(i)' => i = res'.owner \/ i = res'.conv.inst
    BY <1>2, <2>1 DEF Global, Giving
  <2>3. \A r \in inv' : Serves(r) =>
          \A i \in Inst : Holds(i)' => i = res'.owner \/ i = res'.conv.inst \/ i \in r.wait
    BY <1>2 DEF Global, Giving
  <2>4. \A m \in msgs' : m.t = "claim" /\ m.mode = DRC_LOCK_EXCLUSIVE =>
          \A i \in Inst : Holds(i)' => i = m.inst
    BY <1>2, <2>8 DEF Global, Giving, MayClaim
  <2>5. ASSUME NEW m \in msgs', m.t = "claim", m.mode = DRC_LOCK_SHARE, HoldsX(m.inst)'
        PROVE  m.inst = res'.owner
    <3>1. CASE m \in msgs
      <4>1. m.inst \in Inst
        BY <2>5, <3>1, MsgFields DEF TypeOK
      <4>2. HoldsX(m.inst)
        BY <1>2, <2>5, <4>1
      <4> QED BY <2>5, <3>1, <4>2 DEF Global, Giving
    <3>2. CASE MayClaim(m)'
      BY <2>5, <3>2 DEF MayClaim
    <3> QED BY <2>5, <2>8, <3>1, <3>2
  <2>6. \A r \in inv' : r.kind = "recycle" /\ r.ok =>
          \A i \in Inst : Holds(i)' => i = res'.owner \/ i \in r.wait
    BY <1>2 DEF Global, Giving
  <2>7. \A r \in inv' : r.kind = "recycled" /\ r.ok => \A i \in Inst : ~ Holds(i)'
    BY <1>2 DEF Global, Giving
  <2> QED BY <2>2, <2>3, <2>4, <2>5, <2>6, <2>7 DEF Giving, Serves, IsRecycle
<1> QED BY <1>3, <1>4, <1>5 DEF Global

\* The same for the steps that work on no request at all.
LEMMA GlobalKept ==
    ASSUME Global, TypeOK,
           \A m \in msgs' : m.t \in Work => m \in msgs,
           \A r \in inv' : r \in inv,
           res'.used = res.used, res'.owner = res.owner, res'.copies = res.copies,
           res'.conv = res.conv,
           \A i \in Inst : ctrl'[i].lock \in {ctrl[i].lock, DRC_LOCK_NULL}
    PROVE  Global'
<1>1. \A m \in msgs' : m.t \in {"load", "already", "page"} => m \in msgs
  BY DEF Work
<1>2. \A i \in Inst : (Holds(i)' => Holds(i)) /\ (HoldsX(i)' => HoldsX(i))
  BY <1>1, HoldsLess
<1> QED BY <1>2, GlobalLess

\* The claims are kept when no claim is made and the claimants make no other
\* request than to the master.
LEMMA ClaimsKept ==
    ASSUME Claims,
           \A m \in msgs' : m.t = "claim" => m \in msgs,
           \A m \in msgs' : Token(m) /\ m.t # "ask" =>
              m \in msgs \/ \A n \in msgs : n.t = "claim" => n.inst # For(m),
           \A r \in inv' : Serves(r) => r \in inv,
           res'.conv = res.conv,
           \A i \in Inst : QueueFor(i) = {} /\ (\E n \in msgs : n.t = "claim" /\ n.inst = i)
                              => QueueFor(i)' = {},
           TypeOK
    PROVE  Claims'
<1>1. ASSUME NEW m \in msgs', m.t = "claim"
      PROVE  /\ res'.conv.inst = m.inst /\ res'.conv.mode = m.mode
             /\ \A n \in MsgFor(m.inst)' : n.t = "ask"
             /\ RoundFor(m.inst)' = {} /\ QueueFor(m.inst)' = {}
  <2>0. m \in msgs
    BY <1>1
  <2>1. m \in msgs /\ m.inst \in Inst
    BY <1>1, <2>0, MsgFields DEF TypeOK
  <2>2. /\ res.conv.inst = m.inst /\ res.conv.mode = m.mode
        /\ \A n \in MsgFor(m.inst) : n.t = "ask"
        /\ RoundFor(m.inst) = {} /\ QueueFor(m.inst) = {}
    BY <1>1, <2>1 DEF Claims
  <2>3. ASSUME NEW n \in MsgFor(m.inst)', n.t # "ask"
        PROVE  FALSE
    <3>1. n \in msgs' /\ Token(n) /\ For(n) = m.inst
      BY DEF MsgFor, Token, For
    <3>2. n \in msgs
      BY <1>1, <2>1, <2>3, <3>1
    <3>3. n \in MsgFor(m.inst)
      BY <3>1, <3>2 DEF MsgFor
    <3> QED BY <2>2, <2>3, <3>3
  <2>4. RoundFor(m.inst)' = {}
    BY <2>2 DEF RoundFor, Serves, IsRecycle
  <2>5. QueueFor(m.inst)' = {}
    BY <1>1, <2>1, <2>2
  <2> QED BY <2>2, <2>3, <2>4, <2>5
<1>2. \A m, n \in msgs' : m.t = "claim" /\ n.t = "claim" => m = n
  BY DEF Claims
<1> QED BY <1>1, <1>2 DEF Claims

\* Early dirty pages: no lock is taken, no early dirty page made, no claim.
LEMMA EdpKept ==
    ASSUME EdpSound, ~ panic, res'.owner = res.owner,
           \A m \in msgs' : m.t = "claim" => m \in msgs,
           \A i \in Inst : /\ ctrl'[i].lock \in {ctrl[i].lock, DRC_LOCK_NULL}
                           /\ ctrl'[i].edp => ctrl[i].edp
    PROVE  EdpSound'
BY DEF EdpSound

\* A step that gives nobody the page and works on no request keeps the
\* catalogue, the claims and the early dirty pages in order.
LEMMA QuietStep ==
    ASSUME TypeOK, Global, Claims, EdpSound, ~ panic,
           \A m \in msgs' : \/ m \in msgs \/ m.t \in {"ask", "ckpt", "clean"}
                            \/ m.t = "err" /\ \A n \in msgs : n.t = "claim" => n.inst # m.to,
           \A r \in inv' : r \in inv,
           res'.used = res.used, res'.owner = res.owner, res'.copies = res.copies,
           res'.conv = res.conv, res'.q = res.q,
           \A i \in Inst : /\ ctrl'[i].lock \in {ctrl[i].lock, DRC_LOCK_NULL}
                           /\ ctrl'[i].edp => ctrl[i].edp
    PROVE  Global' /\ Claims' /\ EdpSound'
<1>1. \A m \in msgs' : m.t \in Work => m \in msgs
  BY DEF Work
<1>2. Global'
  BY <1>1, GlobalKept
<1>3. \A m \in msgs' : m.t = "claim" => m \in msgs
  BY <1>1 DEF Work
<1>4. \A m \in msgs' : Token(m) /\ m.t # "ask" =>
        m \in msgs \/ \A n \in msgs : n.t = "claim" => n.inst # For(m)
  BY DEF Token, For, Replies
<1>5. \A i \in Inst : QueueFor(i)' = QueueFor(i)
  BY DEF QueueFor
<1>6. Claims'
  BY <1>3, <1>4, <1>5, ClaimsKept
<1>7. EdpSound'
  BY <1>3, EdpKept
<1> QED BY <1>2, <1>6, <1>7

-----------------------------------------------------------------------------
(***************************************************************************)
(* The session of an instance.                                             *)
(***************************************************************************)
\* No request times out, and a claim is handled before later requests of its
\* instance: what the theorems of this module assume.
Prompt == Impatient = {} /\ ClaimsOrdered

Ordered == \A i \in Inst : Orderly(i)

\* The parts of the invariant.
LEMMA SafeParts ==
    Safe <=> Ordered /\ Global /\ Claims /\ EdpSound
BY DEF Safe, Ordered, Global

\* The other instances stay in order in a step of instance i.
LEMMA OthersKept ==
    ASSUME Ordered, NEW i,
           \A m \in msgs' : Token(m) /\ For(m) # i => m \in msgs,
           \A r \in inv' : Serves(r) /\ r.req.inst # i => r \in inv,
           res'.q = res.q,
           \A j \in Inst : j # i => /\ ses'[j] = ses[j] /\ ctrl'[j].lock = ctrl[j].lock
                                    /\ ctrl'[j].inmem = ctrl[j].inmem
    PROVE  \A j \in Inst : j # i => Orderly(j)'
<1> SUFFICES ASSUME NEW j \in Inst, j # i
             PROVE  Orderly(j)'
  OBVIOUS
<1>1. Orderly(j)
  BY DEF Ordered
<1>2. \A m \in msgs' : Token(m) /\ For(m) = j => m \in msgs
  OBVIOUS
<1>3. \A r \in inv' : Serves(r) /\ r.req.inst = j => r \in inv
  OBVIOUS
<1>4. LatchOK(j)'
  BY <1>1, LatchKept DEF Orderly
<1> QED BY <1>1, <1>2, <1>3, <1>4, OrderlyKept

\* A block that is not in memory is allocated without a lock (buf_alloc_ctrl).
LEMMA AllocFields ==
    ASSUME NEW c \in BufCtrl, ~ c.inmem => c.lock = DRC_LOCK_NULL
    PROVE  LET a == buf_alloc_ctrl(c)
           IN  a \in BufCtrl /\ a.inmem /\ a.lock = c.lock /\ (a.edp => c.edp)
<1>1. buf_alloc_ctrl(c) \in BufCtrl
  BY CtrlTypes
<1>2. CASE ~ c.inmem
  <2>1. buf_alloc_ctrl(c) = [NoCtrl EXCEPT !.inmem = TRUE]
    BY <1>2 DEF buf_alloc_ctrl
  <2> QED BY <1>1, <1>2, <2>1 DEF NoCtrl
<1>3. CASE c.inmem
  BY <1>1, <1>3 DEF buf_alloc_ctrl, BufCtrl
<1> QED BY <1>2, <1>3

\* The session latches the page, with a sufficient lock or to ask for one
\* (dtc_read_page).
LEMMA SafeEnter ==
    ASSUME IInv, Safe, NEW i \in Inst, NEW mode \in ReqMode,
           EnterLocal(i, mode) \/ EnterRemote(i, mode)
    PROVE  Safe'
<1> DEFINE a == buf_alloc_ctrl(ctrl[i])
           q == [inst |-> i, mode |-> mode, curr |-> a.lock, lsn |-> a.lsn, sn |-> sn[i]]
<1>0. q.inst = i /\ q.mode = mode
  OBVIOUS
<1>1. TypeOK /\ Ordered /\ Global /\ Claims /\ EdpSound
  BY SafeParts DEF IInv
<1>2. Orderly(i) /\ LatchOK(i)
  BY <1>1 DEF Ordered, Orderly
<1>3. ctrl[i] \in BufCtrl /\ a \in BufCtrl /\ a.inmem /\ a.lock = ctrl[i].lock /\ (a.edp => ctrl[i].edp)
  BY <1>1, <1>2, AllocFields DEF TypeOK, LatchOK
<1>4. ~ panic /\ ses[i].st # "ask" /\ ctrl' = [ctrl EXCEPT ![i] = a]
  BY DEF EnterLocal, EnterRemote, Running
<1>5. EnterRemote(i, mode) => Send({Ask(q)})
  BY Zenon DEF EnterRemote
<1> HIDE DEF a, q
<1>20. UNCHANGED <<res, inv>>
  BY DEF EnterLocal, EnterRemote
<1>6. /\ ctrl'[i] = a
      /\ \A j \in Inst : j # i => ctrl'[j] = ctrl[j]
  BY <1>1, <1>4 DEF TypeOK
<1>7. /\ ses'[i].mode = mode
      /\ \A j \in Inst : j # i => ses'[j] = ses[j]
  BY <1>1 DEF EnterLocal, EnterRemote, TypeOK
<1>8. \A m \in msgs' : m \in msgs \/ (m.t = "ask" /\ m.req.inst = i)
  <2>1. CASE EnterLocal(i, mode)
    BY <2>1 DEF EnterLocal
  <2>2. CASE EnterRemote(i, mode)
    <3>1. \A m \in msgs' : m \in msgs \/ m \in {Ask(q)}
      BY <1>5, <2>2, Network
    <3> QED BY <1>0, <3>1, SentFields
  <2> QED BY <2>1, <2>2
<1>9. QueueFor(i)' = {} /\ \A r \in inv' : ~ (Serves(r) /\ r.req.inst = i)
  BY <1>2, <1>4, <1>20, NoRequest DEF QueueFor
<1>10. \A m \in msgs : ~ (Token(m) /\ For(m) = i)
  BY <1>2, <1>4, NoRequest
<1>11. mode \in Nat /\ ctrl[i].lock \in Nat
  BY <1>3 DEF BufCtrl, LockMode, ReqMode, DRC_LOCK_SHARE, DRC_LOCK_EXCLUSIVE
<1>12. Orderly(i)'
  <2>1. CASE EnterLocal(i, mode)
    <3>1. msgs' = msgs /\ ses'[i].st = "got" /\ ctrl[i].lock >= mode
      BY <1>1, <1>3, <2>1 DEF EnterLocal, dcs_local_page_usable, TypeOK, a
    <3>2. LatchOK(i)'
      BY <1>3, <1>6, <1>7, <3>1 DEF LatchOK
    <3> QED BY <1>9, <1>10, <3>1, <3>2, OrderlyDone
  <2>2. CASE EnterRemote(i, mode)
    <3>1. \A m \in msgs' : m \in msgs \/ m \in {Ask(q)}
      BY <1>5, <2>2, Network
    <3>2. ses'[i].st = "ask"
      BY <1>1, <2>2 DEF EnterRemote, TypeOK
    <3>3. LatchOK(i)'
      BY <1>3, <1>6, <1>7, <3>2 DEF LatchOK
    <3>4. Ask(q).t = "ask" /\ Ask(q).req.mode >= ses'[i].mode
      BY <1>0, <1>7, <1>11, SentFields
    <3>5. \A m \in msgs' : Token(m) /\ For(m) = i => m = Ask(q)
      BY <1>10, <3>1
    <3> QED BY <1>9, <3>2, <3>3, <3>4, <3>5, OrderlyMsg
  <2> QED BY <2>1, <2>2
<1>13. Ordered'
  <2>1. \A m \in msgs' : Token(m) /\ For(m) # i => m \in msgs
    BY <1>8, ForWhom
  <2>2. \A j \in Inst : j # i => Orderly(j)'
    BY <1>1, <1>20, <1>6, <1>7, <2>1, OthersKept
  <2> QED BY <1>12, <2>2 DEF Ordered
<1>14. \A j \in Inst : ctrl'[j].lock = ctrl[j].lock /\ (ctrl'[j].edp => ctrl[j].edp)
  BY <1>3, <1>6
<1>15. Global' /\ Claims' /\ EdpSound'
  BY <1>1, <1>4, <1>8, <1>14, <1>20, QuietStep
<1> QED BY <1>13, <1>15, SafeParts DEF Ordered, Global, Safe

\* The changes of a block that leave its lock (dtc_buf_request_failed,
\* dtc_buf_finish, dcs_buf_clean_ctrl_edp, ckpt_prepare_normal).
LEMMA SameLock ==
    ASSUME NEW c \in BufCtrl
    PROVE  /\ LET f == dtc_buf_request_failed(c)
              IN  f.lock = c.lock /\ f.inmem = c.inmem /\ f.edp = c.edp
           /\ \A d : LET f == dtc_buf_finish(c, d)
                     IN  f.lock = c.lock /\ f.inmem = c.inmem /\ f.edp = c.edp
           /\ LET f == dcs_buf_clean_ctrl_edp(c)
              IN  f.lock = c.lock /\ f.inmem = c.inmem /\ ~ f.edp
           /\ LET f == CkptCopied(c)
              IN  f.lock = c.lock /\ f.inmem = c.inmem /\ f.edp = c.edp
<1>1. LET f == dtc_buf_request_failed(c)
      IN  f.lock = c.lock /\ f.inmem = c.inmem /\ f.edp = c.edp
  BY DEF BufCtrl, dtc_buf_request_failed
<1>2. ASSUME NEW d
      PROVE  LET f == dtc_buf_finish(c, d)
             IN  f.lock = c.lock /\ f.inmem = c.inmem /\ f.edp = c.edp
  BY DEF BufCtrl, dtc_buf_finish
<1>3. LET f == dcs_buf_clean_ctrl_edp(c)
      IN  f.lock = c.lock /\ f.inmem = c.inmem /\ ~ f.edp
  BY DEF BufCtrl, dcs_buf_clean_ctrl_edp
<1>4. LET f == CkptCopied(c)
      IN  f.lock = c.lock /\ f.inmem = c.inmem /\ f.edp = c.edp
  BY DEF BufCtrl, CkptCopied
<1> QED BY <1>1, <1>2, <1>3, <1>4

\* The session takes an error answer (dtc_read_page).
LEMMA SafeError ==
    ASSUME IInv, Safe, NEW i \in Inst, HandleError(i)
    PROVE  Safe'
<1>1. TypeOK /\ Ordered /\ Global /\ Claims /\ EdpSound
  BY SafeParts DEF IInv
<1>2. Orderly(i) /\ LatchOK(i) /\ ctrl[i] \in BufCtrl
  BY <1>1 DEF Ordered, Orderly, TypeOK
<1>3. PICK m \in msgs : m.t = "err" /\ m.to = i /\ Exchange(m, {})
  BY DEF HandleError
<1>4. /\ ~ panic /\ ses[i].st = "ask" /\ UNCHANGED <<res, inv>>
      /\ ctrl' = [ctrl EXCEPT ![i] = dtc_buf_request_failed(ctrl[i])]
      /\ ses' = [ses EXCEPT ![i].st = "sleep"]
  BY DEF HandleError, Running
<1>5. /\ \A j \in Inst : /\ ctrl'[j].lock = ctrl[j].lock
                         /\ ctrl'[j].inmem = ctrl[j].inmem /\ ctrl'[j].edp = ctrl[j].edp
      /\ ses'[i].st = "sleep" /\ ses'[i].mode = ses[i].mode
      /\ \A j \in Inst : j # i => ses'[j] = ses[j]
  BY <1>1, <1>2, <1>4, SameLock DEF TypeOK
<1>6. \A n \in msgs' : n \in msgs /\ n # m
  BY <1>3, Network
<1>7. /\ \A n \in msgs : Token(n) /\ For(n) = i => n = m
      /\ \A r \in inv : ~ (Serves(r) /\ r.req.inst = i)
      /\ QueueFor(i) = {}
  <2>1. Token(m) /\ For(m) = i
    BY <1>3, ForWhom DEF Replies
  <2> QED BY <1>2, <2>1, OnlyMsg
<1>8. QueueFor(i)' = {}
  BY <1>4, <1>7 DEF QueueFor
<1>9. LatchOK(i)'
  BY <1>2, <1>4, <1>5 DEF LatchOK
<1>10. Orderly(i)'
  BY <1>4, <1>6, <1>7, <1>8, <1>9, OrderlyDone
<1>11. \A j \in Inst : j # i => Orderly(j)'
  BY <1>1, <1>4, <1>5, <1>6, OthersKept
<1>12. Global' /\ Claims' /\ EdpSound'
  BY <1>1, <1>4, <1>5, <1>6, QuietStep
<1> QED BY <1>10, <1>11, <1>12 DEF Global, Safe

\* The session leaves the page (buf_leave_page), or the block is evicted.
LEMMA SafeLeave ==
    ASSUME IInv, Safe, NEW i \in Inst, LeavePage(i) \/ ModifyPage(i) \/ Evict(i)
    PROVE  Safe'
<1>1. TypeOK /\ Ordered /\ Global /\ Claims /\ EdpSound
  BY SafeParts DEF IInv
<1>2. Orderly(i) /\ LatchOK(i) /\ ctrl[i] \in BufCtrl
  BY <1>1 DEF Ordered, Orderly, TypeOK
<1>3. ~ panic /\ UNCHANGED <<res, inv, msgs>> /\ ses[i].st # "ask"
  BY DEF LeavePage, ModifyPage, Evict, Running, CanEvict, LatchFree
<1>4. /\ \A j \in Inst : j # i => ctrl'[j] = ctrl[j] /\ ses'[j] = ses[j]
      /\ ctrl'[i].lock \in {ctrl[i].lock, DRC_LOCK_NULL} /\ (ctrl'[i].edp => ctrl[i].edp)
      /\ LatchOK(i)'
  <2>1. CASE LeavePage(i) \/ ModifyPage(i)
    <3> DEFINE f == dtc_buf_finish(ctrl[i], disk)
    <3>1. /\ \/ ctrl' = [ctrl EXCEPT ![i] = f]
             \/ ctrl' = [ctrl EXCEPT ![i] = [f EXCEPT !.lsn = Latest + 1, !.dirty = TRUE]]
          /\ ses' = [ses EXCEPT ![i] = [st |-> "idle", mode |-> DRC_LOCK_NULL]]
      BY <2>1 DEF LeavePage, ModifyPage
    <3>2. f \in BufCtrl /\ f.lock = ctrl[i].lock /\ f.inmem = ctrl[i].inmem /\ f.edp = ctrl[i].edp
      BY <1>1, <1>2, SameLock, FinishType DEF TypeOK
    <3> HIDE DEF f
    <3>3. /\ ctrl'[i].lock = f.lock /\ ctrl'[i].inmem = f.inmem /\ ctrl'[i].edp = f.edp
          /\ \A j \in Inst : j # i => ctrl'[j] = ctrl[j]
      <4> DEFINE g == [f EXCEPT !.lsn = Latest + 1, !.dirty = TRUE]
      <4>1. g.lock = f.lock /\ g.inmem = f.inmem /\ g.edp = f.edp
        BY <3>2 DEF BufCtrl
      <4>2. ctrl' = [ctrl EXCEPT ![i] = f] \/ ctrl' = [ctrl EXCEPT ![i] = g]
        BY <3>1
      <4> HIDE DEF g
      <4> QED BY <1>1, <4>1, <4>2 DEF TypeOK
    <3>4. ses'[i].st = "idle" /\ \A j \in Inst : j # i => ses'[j] = ses[j]
      BY <1>1, <3>1 DEF TypeOK
    <3>5. LatchOK(i)'
      BY <1>2, <3>2, <3>3, <3>4 DEF LatchOK
    <3> QED BY <3>2, <3>3, <3>4, <3>5
  <2>2. CASE Evict(i)
    <3>1. /\ ctrl' = [ctrl EXCEPT ![i] = NoCtrl] /\ ses' = ses
          /\ ses[i].st \in {"idle", "sleep"}
      BY <2>2 DEF Evict, CanEvict, LatchFree
    <3>2. ctrl'[i] = NoCtrl /\ \A j \in Inst : j # i => ctrl'[j] = ctrl[j]
      BY <1>1, <3>1 DEF TypeOK
    <3>3. NoCtrl.lock = DRC_LOCK_NULL /\ ~ NoCtrl.edp
      BY DEF NoCtrl
    <3>4. LatchOK(i)'
      BY <1>2, <3>1, <3>2, <3>3 DEF LatchOK
    <3> QED BY <3>1, <3>2, <3>3, <3>4
  <2> QED BY <2>1, <2>2
<1>5. /\ \A n \in msgs : ~ (Token(n) /\ For(n) = i)
      /\ \A r \in inv : ~ (Serves(r) /\ r.req.inst = i)
      /\ QueueFor(i) = {}
  BY <1>2, <1>3, NoRequest
<1>6. QueueFor(i)' = {}
  BY <1>3, <1>5 DEF QueueFor
<1>7. Orderly(i)'
  BY <1>3, <1>4, <1>5, <1>6, OrderlyDone
<1>8. \A j \in Inst : j # i => Orderly(j)'
  BY <1>1, <1>3, <1>4, OthersKept
<1>9. \A j \in Inst : ctrl'[j].lock \in {ctrl[j].lock, DRC_LOCK_NULL} /\ (ctrl'[j].edp => ctrl[j].edp)
  BY <1>4
<1>10. Global' /\ Claims' /\ EdpSound'
  BY <1>1, <1>3, <1>9, QuietStep
<1> QED BY <1>7, <1>8, <1>10 DEF Global, Safe

\* The session takes the page: by a grant, as the owner that it is, or from the
\* owner.  The answer was the only place of its request, and what it holds now
\* it held through the answer; it may claim what it took.
LEMMA Taken ==
    ASSUME TypeOK, Safe, ~ panic, NEW i \in Inst, NEW m \in msgs, NEW c,
           m.t \in {"load", "already", "page"}, m.to = i,
           ctrl'[i].lock = IF m.t = "load" THEN DRC_LOCK_EXCLUSIVE ELSE m.mode,
           ctrl'[i].inmem = ctrl[i].inmem,
           \/ panic' \/ ~ ctrl'[i].edp
           \/ m.t = "page" /\ m.mode = DRC_LOCK_SHARE,
           ses'[i].st = "got", ses'[i].mode = ses[i].mode,
           \A j \in Inst : j # i => ctrl'[j] = ctrl[j] /\ ses'[j] = ses[j],
           res' = res, inv' = inv,
           \A n \in msgs' : \/ n \in msgs /\ n # m
                            \/ m.t # "load" /\ n = c,
           c.t = "claim" /\ c.inst = i /\ c.mode = m.mode
    PROVE  Safe'
<1>1. Ordered /\ Global /\ Claims /\ EdpSound
  BY SafeParts
<1>2. Orderly(i) /\ LatchOK(i)
  BY <1>1 DEF Ordered, Orderly
<1>3. Token(m) /\ For(m) = i /\ m \in MsgFor(i)
  BY ForWhom DEF Replies, MsgFor
<1>4. /\ \A n \in msgs : Token(n) /\ For(n) = i => n = m
      /\ \A r \in inv : ~ (Serves(r) /\ r.req.inst = i)
      /\ QueueFor(i) = {} /\ ses[i].st = "ask"
  BY <1>2, <1>3, OnlyMsg
<1>5. ~ Token(c)
  BY ForWhom
<1>6. \A n \in msgs' : ~ (Token(n) /\ For(n) = i)
  BY <1>4, <1>5
<1>7. m.mode \in ReqMode /\ ses[i].mode \in ReqMode /\ ctrl[i].inmem
  BY <1>2, <1>4, MsgFields DEF TypeOK, LatchOK
<1>8. Orderly(i)'
  <2>1. QueueFor(i)' = {}
    BY <1>4 DEF QueueFor
  <2>2. m.t # "load" => m.mode >= ses[i].mode
    BY <1>2, <1>3 DEF Orderly, Wants
  <2>3. ctrl'[i].lock >= ses[i].mode
    BY <1>7, <2>2 DEF ReqMode, DRC_LOCK_SHARE, DRC_LOCK_EXCLUSIVE
  <2>4. LatchOK(i)'
    BY <1>7, <2>3 DEF LatchOK
  <2> QED BY <1>4, <1>6, <2>1, <2>4, OrderlyDone
<1>9. \A j \in Inst : j # i => Orderly(j)'
  <2>1. \A n \in msgs' : Token(n) /\ For(n) # i => n \in msgs
    BY <1>5
  <2> QED BY <1>1, <2>1, OthersKept
<1>10. \A n \in msgs : n.t = "claim" => n.inst # i
  BY <1>1, <1>3 DEF Claims
<1>11. m.t # "load" => \A n \in msgs : n.t # "claim"
  BY <1>1, <1>10 DEF Global, Serving, Claims
<1>12. \A n \in msgs' : n.t \in {"load", "already", "page"} => n \in msgs
  OBVIOUS
<1>13. ASSUME NEW j \in Inst
       PROVE  (Holds(j)' => Holds(j)) /\ (HoldsX(j)' => HoldsX(j))
  <2>1. CASE j = i
    <3>1. Holds(i)
      BY DEF Holds
    <3>2. HoldsX(i)' => ctrl'[i].lock = DRC_LOCK_EXCLUSIVE
      <4>1. \A n \in msgs' : n.t \in {"load", "already", "page"} => n.to # i
        BY <1>6, ForWhom DEF Replies
      <4> QED BY <4>1 DEF HoldsX
    <3>3. ctrl'[i].lock = DRC_LOCK_EXCLUSIVE => HoldsX(i)
      BY DEF HoldsX
    <3> QED BY <2>1, <3>1, <3>2, <3>3
  <2>2. CASE j # i
    BY <1>12, <2>2, HoldsLess
  <2> QED BY <2>1, <2>2
<1>14. m.t # "load" => MayClaim(c)'
  <2> SUFFICES ASSUME m.t # "load"
               PROVE  MayClaim(c)'
    OBVIOUS
  <2>1. ASSUME c.mode = DRC_LOCK_EXCLUSIVE, NEW j \in Inst, Holds(j)'
        PROVE  j = i
    <3>1. HoldsX(i)
      BY <2>1 DEF HoldsX
    <3>2. Holds(j)
      BY <1>13, <2>1
    <3> QED BY <1>1, <3>1, <3>2 DEF Global, Power
  <2>2. ASSUME c.mode = DRC_LOCK_SHARE, HoldsX(i)'
        PROVE  i = res.owner
    <3>1. \A n \in msgs' : n.t \in {"load", "already", "page"} => n.to # i
      BY <1>6, ForWhom DEF Replies
    <3>2. ctrl'[i].lock = DRC_LOCK_EXCLUSIVE
      BY <2>2, <3>1 DEF HoldsX
    <3> QED BY <2>2, <3>2 DEF DRC_LOCK_SHARE, DRC_LOCK_EXCLUSIVE
  <2> QED BY <2>1, <2>2 DEF MayClaim
<1>15. Global'
  <2>1. \A n \in msgs' : n.t \in Work => n \in msgs \/ (n.t = "claim" /\ MayClaim(n)')
    BY <1>14
  <2> QED BY <1>1, <1>13, <2>1, GlobalLess
<1>16. Claims'
  <2>1. CASE m.t = "load"
    <3>1. \A n \in msgs' : n \in msgs
      BY <2>1
    <3>2. \A j \in Inst : QueueFor(j)' = QueueFor(j)
      BY DEF QueueFor
    <3> QED BY <1>1, <3>1, <3>2, ClaimsKept
  <2>2. CASE m.t # "load"
    <3>1. \A n \in msgs' : n.t = "claim" => n = c
      BY <1>11, <2>2
    <3>2. MsgFor(i)' = {} /\ RoundFor(i)' = {} /\ QueueFor(i)' = {}
      BY <1>4, <1>6 DEF MsgFor, RoundFor, QueueFor, Token, For, Serves, IsRecycle
    <3>3. res'.conv.inst = i /\ res'.conv.mode = m.mode
      BY <1>1, <2>2 DEF Global, Serving
    <3> QED BY <3>1, <3>2, <3>3 DEF Claims
  <2> QED BY <2>1, <2>2
<1>17. EdpSound'
  <2> SUFFICES ASSUME ~ panic', NEW j \in Inst,
                      ctrl'[j].lock # DRC_LOCK_NULL, ctrl'[j].edp
               PROVE  /\ ctrl'[j].lock = DRC_LOCK_SHARE /\ j # res'.owner
                      /\ \A n \in msgs' : ~ (n.t = "claim" /\ n.mode = DRC_LOCK_EXCLUSIVE /\ n.inst = j)
    BY DEF EdpSound
  <2>1. CASE j = i
    <3>1. m.t = "page" /\ m.mode = DRC_LOCK_SHARE
      BY <2>1
    <3>2. \A n \in msgs' : n.t = "claim" => n.mode = DRC_LOCK_SHARE
      BY <1>11, <3>1
    <3>3. i # res.owner
      BY <1>1, <3>1 DEF Global, Serving
    <3> QED BY <2>1, <3>1, <3>2, <3>3 DEF DRC_LOCK_SHARE, DRC_LOCK_EXCLUSIVE
  <2>2. CASE j # i
    BY <1>1, <2>2 DEF EdpSound
  <2> QED BY <2>1, <2>2
<1> QED BY <1>8, <1>9, <1>15, <1>16, <1>17 DEF Global, Safe

\* The blocks after the page was taken (dcs_set_ctrl4granted,
\* dcs_set_ctrl4already_owner, dcs_handle_page_from_owner).
LEMMA TakenFields ==
    ASSUME NEW c \in BufCtrl
    PROVE  /\ LET f == dcs_set_ctrl4granted(c)
              IN  f.lock = DRC_LOCK_EXCLUSIVE /\ f.inmem = c.inmem /\ ~ f.edp
           /\ \A mode \in LockMode :
                LET f == dcs_set_ctrl4already_owner(c, mode)
                IN  f.lock = mode /\ f.inmem = c.inmem /\ f.edp = c.edp
           /\ \A ack : ack.lsn \in Nat =>
                LET f == dcs_handle_page_from_owner(c, ack)
                IN  /\ f.lock = ack.mode /\ f.inmem = c.inmem
                    /\ ack.mode = DRC_LOCK_EXCLUSIVE => ~ f.edp
<1>1. LET f == dcs_set_ctrl4granted(c)
      IN  f.lock = DRC_LOCK_EXCLUSIVE /\ f.inmem = c.inmem /\ ~ f.edp
  <2> DEFINE g == dcs_buf_clean_ctrl_edp(c)
  <2>1. g \in BufCtrl /\ g.inmem = c.inmem /\ ~ g.edp
    BY CtrlTypes, SameLock
  <2>2. dcs_set_ctrl4granted(c) = [g EXCEPT !.load = "need", !.lock = DRC_LOCK_EXCLUSIVE]
    BY DEF dcs_set_ctrl4granted
  <2> HIDE DEF g
  <2> QED BY <2>1, <2>2 DEF BufCtrl
<1>2. ASSUME NEW mode \in LockMode
      PROVE  LET f == dcs_set_ctrl4already_owner(c, mode)
             IN  f.lock = mode /\ f.inmem = c.inmem /\ f.edp = c.edp
  BY DEF dcs_set_ctrl4already_owner, BufCtrl
<1>3. ASSUME NEW ack, ack.lsn \in Nat
      PROVE  LET f == dcs_handle_page_from_owner(c, ack)
             IN  /\ f.lock = ack.mode /\ f.inmem = c.inmem
                 /\ ack.mode = DRC_LOCK_EXCLUSIVE => ~ f.edp
  <2> DEFINE c1 == IF ack.flag = "page" THEN [c EXCEPT !.lsn = ack.lsn] ELSE c
             c2 == IF ack.flag = "need" THEN dcs_buf_clean_ctrl_edp(c1) ELSE c1
             rd == ack.mode = DRC_LOCK_EXCLUSIVE /\ (ack.dirty \/ ack.rdirty)
             ld == IF ack.flag = "need" THEN "need" ELSE "loaded"
             ed == IF ack.mode = DRC_LOCK_EXCLUSIVE THEN FALSE ELSE c2.edp
  <2>1. c1 \in BufCtrl /\ c1.inmem = c.inmem
    BY <1>3 DEF BufCtrl
  <2>2. c2 \in BufCtrl /\ c2.inmem = c.inmem
    BY <2>1, CtrlTypes, SameLock
  <2>3. dcs_handle_page_from_owner(c, ack) =
          [c2 EXCEPT !.lock = ack.mode, !.load = ld, !.edp = ed, !.rdirty = rd]
    BY Zenon DEF dcs_handle_page_from_owner
  <2>4. ack.mode = DRC_LOCK_EXCLUSIVE => ~ ed
    OBVIOUS
  <2> HIDE DEF c2, rd, ld, ed
  <2> QED BY <2>2, <2>3, <2>4 DEF BufCtrl
<1> QED BY <1>1, <1>2, <1>3

\* The three ways to take the page (dcs_handle_ack_need_load,
\* dcs_handle_ack_already_owner, dcs_handle_ack_page_ready).
LEMMA SafeTaken ==
    ASSUME IInv, Safe, NEW i \in Inst,
           HandleNeedLoad(i) \/ HandleAlreadyOwner(i) \/ HandlePageReady(i)
    PROVE  Safe'
<1>1. TypeOK /\ ctrl[i] \in BufCtrl /\ ses[i] \in [st : {"idle", "sleep", "ask", "got"}, mode : LockMode]
  BY DEF IInv, TypeOK
<1>2. ~ panic /\ res' = res /\ inv' = inv
  BY DEF HandleNeedLoad, HandleAlreadyOwner, HandlePageReady, Running
<1>3. /\ ses'[i].st = "got" /\ ses'[i].mode = ses[i].mode
      /\ \A j \in Inst : j # i => ses'[j] = ses[j]
  <2>1. ses' = [ses EXCEPT ![i].st = "got"]
    BY Zenon DEF HandleNeedLoad, HandleAlreadyOwner, HandlePageReady
  <2> QED BY <1>1, <2>1 DEF TypeOK
<1>4. CASE HandleNeedLoad(i)
  <2> DEFINE c == dcs_set_ctrl4granted(ctrl[i])
  <2>1. PICK m \in msgs : m.t = "load" /\ m.to = i /\ Exchange(m, {})
    BY <1>4 DEF HandleNeedLoad
  <2>2. ctrl' = [ctrl EXCEPT ![i] = c]
    BY <1>4 DEF HandleNeedLoad
  <2>3. c.lock = DRC_LOCK_EXCLUSIVE /\ c.inmem = ctrl[i].inmem /\ ~ c.edp
    BY <1>1, TakenFields
  <2> HIDE DEF c
  <2>4. ctrl'[i] = c /\ \A j \in Inst : j # i => ctrl'[j] = ctrl[j]
    BY <1>1, <2>2 DEF TypeOK
  <2>5. PICK k : k.t = "claim" /\ k.inst = i /\ k.mode = m.mode
    <3>1. LET k == Claim(i, m.mode, 0, 0) IN k.t = "claim" /\ k.inst = i /\ k.mode = m.mode
      BY DEF Claim
    <3> QED BY <3>1
  <2>6. \A n \in msgs' : n \in msgs /\ n # m
    BY <2>1, Network
  <2>7. ctrl'[i].lock = IF m.t = "load" THEN DRC_LOCK_EXCLUSIVE ELSE m.mode
    BY <2>1, <2>3, <2>4
  <2> QED BY <1>1, <1>2, <1>3, <2>1, <2>3, <2>4, <2>5, <2>6, <2>7, Taken
<1>5. CASE HandleAlreadyOwner(i)
  <2> DEFINE C(m) == dcs_set_ctrl4already_owner(ctrl[i], m.mode)
             K(m) == Claim(i, m.mode, FALSE, dtc_get_ctrl_latest_lsn(C(m)))
  <2>1. PICK m \in msgs : /\ m.t = "already" /\ m.to = i /\ Exchange(m, {K(m)})
                          /\ ctrl' = [ctrl EXCEPT ![i] = C(m)]
                          /\ panic' = (panic \/ ctrl[i].edp \/ ses[i].mode > m.mode)
    BY <1>5, Zenon DEF HandleAlreadyOwner
  <2>2. m.mode \in LockMode
    BY <1>1, <2>1, MsgFields, Modes DEF TypeOK
  <2>3. C(m).lock = m.mode /\ C(m).inmem = ctrl[i].inmem /\ C(m).edp = ctrl[i].edp
    BY <1>1, <2>2, TakenFields
  <2>4. K(m).t = "claim" /\ K(m).inst = i /\ K(m).mode = m.mode
    BY DEF Claim
  <2>5. \A n \in msgs' : (n \in msgs /\ n # m) \/ n \in {K(m)}
    BY <2>1, Network
  <2> HIDE DEF C, K
  <2>6. ctrl'[i] = C(m) /\ \A j \in Inst : j # i => ctrl'[j] = ctrl[j]
    BY <1>1, <2>1 DEF TypeOK
  <2>7. panic' \/ ~ ctrl'[i].edp
    BY <2>1, <2>3, <2>6
  <2>8. \A n \in msgs' : (n \in msgs /\ n # m) \/ (m.t # "load" /\ n = K(m))
    BY <2>1, <2>5
  <2>9. ctrl'[i].lock = IF m.t = "load" THEN DRC_LOCK_EXCLUSIVE ELSE m.mode
    BY <2>1, <2>3, <2>6
  <2> QED BY <1>1, <1>2, <1>3, <2>1, <2>3, <2>4, <2>6, <2>7, <2>8, <2>9, Taken
<1>6. CASE HandlePageReady(i)
  <2> DEFINE C(m) == dcs_handle_page_from_owner(ctrl[i], m)
             K(m) == Claim(i, m.mode, m.dirty, dtc_get_ctrl_latest_lsn(C(m)))
  <2>1. PICK m \in msgs : /\ m.t = "page" /\ m.to = i /\ Exchange(m, {K(m)})
                          /\ ctrl' = [ctrl EXCEPT ![i] = C(m)]
    BY <1>6, Zenon DEF HandlePageReady
  <2>2. m.mode \in ReqMode /\ m.lsn \in Nat
    BY <1>1, <2>1, MsgFields DEF TypeOK
  <2>3. /\ C(m).lock = m.mode /\ C(m).inmem = ctrl[i].inmem
        /\ m.mode = DRC_LOCK_EXCLUSIVE => ~ C(m).edp
    BY <1>1, <2>2, TakenFields
  <2>4. K(m).t = "claim" /\ K(m).inst = i /\ K(m).mode = m.mode
    BY DEF Claim
  <2>5. \A n \in msgs' : (n \in msgs /\ n # m) \/ n \in {K(m)}
    BY <2>1, Network
  <2> HIDE DEF C, K
  <2>6. ctrl'[i] = C(m) /\ \A j \in Inst : j # i => ctrl'[j] = ctrl[j]
    BY <1>1, <2>1 DEF TypeOK
  <2>7. ~ ctrl'[i].edp \/ (m.t = "page" /\ m.mode = DRC_LOCK_SHARE)
    BY <2>1, <2>2, <2>3, <2>6 DEF ReqMode
  <2>8. \A n \in msgs' : (n \in msgs /\ n # m) \/ (m.t # "load" /\ n = K(m))
    BY <2>1, <2>5
  <2>9. ctrl'[i].lock = IF m.t = "load" THEN DRC_LOCK_EXCLUSIVE ELSE m.mode
    BY <2>1, <2>3, <2>6
  <2> QED BY <1>1, <1>2, <1>3, <2>1, <2>3, <2>4, <2>6, <2>7, <2>8, <2>9, Taken
<1> QED BY <1>4, <1>5, <1>6

-----------------------------------------------------------------------------
(***************************************************************************)
(* The requests that the master handles.                                   *)
(***************************************************************************)
\* A request moves from one message to another: everyone stays in order.
LEMMA MovedToMsg ==
    ASSUME Ordered, NEW i \in Inst, NEW m \in msgs, Token(m), For(m) = i,
           NEW n, n.t \in {"ask", "own"} => n.req.mode >= ses[i].mode,
           n.t \in {"already", "page"} => n.mode >= ses[i].mode,
           Token(n), For(n) = i,
           \A x \in msgs' : (x \in msgs /\ x # m) \/ x = n,
           \A r \in inv' : Serves(r) => r \in inv,
           res'.q = res.q, ses' = ses, \A j \in Inst : LatchOK(j)'
    PROVE  Ordered'
<1>1. Orderly(i)
  BY DEF Ordered
<1>2. /\ \A x \in msgs : Token(x) /\ For(x) = i => x = m
      /\ \A r \in inv : ~ (Serves(r) /\ r.req.inst = i)
      /\ QueueFor(i) = {} /\ ses[i].st = "ask"
  BY <1>1, OnlyMsg
<1>3. QueueFor(i)' = {}
  BY <1>2 DEF QueueFor
<1>4. \A x \in msgs' : Token(x) /\ For(x) = i => x = n
  BY <1>2
<1>5. \A r \in inv' : ~ (Serves(r) /\ r.req.inst = i)
  BY <1>2
<1>6. Orderly(i)'
  BY <1>2, <1>3, <1>4, <1>5, OrderlyMsg
<1>7. ASSUME NEW j \in Inst, j # i
      PROVE  Orderly(j)'
  <2>1. \A x \in msgs' : Token(x) /\ For(x) = j => x \in msgs
    BY <1>7
  <2>2. \A r \in inv' : Serves(r) /\ r.req.inst = j => r \in inv
    OBVIOUS
  <2>3. Orderly(j)
    BY DEF Ordered
  <2> QED BY <2>1, <2>2, <2>3, OrderlyKept
<1> QED BY <1>6, <1>7 DEF Ordered

\* What the master knows of a request that it handles: it is the only one of its
\* instance, and no claim of the instance is under way.
LEMMA AskFacts ==
    ASSUME TypeOK, Ordered, Prompt, NEW i \in Inst, NEW m \in AskOf(i)
    PROVE  /\ m \in msgs /\ m.t = "ask" /\ m.req \in ReqInfo /\ m.req.inst = i
           /\ Token(m) /\ For(m) = i
           /\ m.req.mode >= ses[i].mode
           /\ \A c \in msgs : c.t = "claim" => c.inst # i
           /\ \A x \in msgs : Token(x) /\ For(x) = i => x = m
           /\ \A r \in inv : ~ (Serves(r) /\ r.req.inst = i)
           /\ QueueFor(i) = {} /\ ses[i].st = "ask"
<1>1. /\ m \in msgs /\ m.t = "ask" /\ m.req.inst = i
      /\ \A c \in msgs : c.t = "claim" => c.inst # i
  BY DEF AskOf, Prompt
<1>2. m.req \in ReqInfo
  BY <1>1, MsgFields DEF TypeOK
<1>3. Token(m) /\ For(m) = i
  BY <1>1, ForWhom
<1>4. Orderly(i)
  BY DEF Ordered
<1>5. m.req.mode >= ses[i].mode
  BY <1>1, <1>3, <1>4 DEF Orderly, Wants, MsgFor
<1>6. /\ \A x \in msgs : Token(x) /\ For(x) = i => x = m
      /\ \A r \in inv : ~ (Serves(r) /\ r.req.inst = i)
      /\ QueueFor(i) = {} /\ ses[i].st = "ask"
  BY <1>1, <1>3, <1>4, OnlyMsg
<1> QED BY <1>1, <1>2, <1>3, <1>5, <1>6

\* The latches stay when neither sessions nor blocks change.
LEMMA LatchesKept ==
    ASSUME Ordered, ses' = ses, ctrl' = ctrl
    PROVE  \A j \in Inst : LatchOK(j)'
BY LatchKept DEF Ordered, Orderly

\* A request is answered by an error.
LEMMA SafeRejected ==
    ASSUME IInv, Safe, Prompt, NEW i \in Inst, AskRejected(i)
    PROVE  Safe'
<1>1. TypeOK /\ Ordered /\ Global /\ Claims /\ EdpSound
  BY SafeParts DEF IInv
<1>2. PICK m \in AskOf(i) : Exchange(m, {Reply("err", m.req)})
  BY DEF AskRejected
<1>3. ~ panic /\ res' = res /\ inv' = inv /\ ses' = ses /\ ctrl' = ctrl
  BY DEF AskRejected, Running
<1>4. /\ m \in msgs /\ m.req.inst = i /\ Token(m) /\ For(m) = i
      /\ \A c \in msgs : c.t = "claim" => c.inst # i
  BY <1>1, AskFacts
<1> DEFINE n == Reply("err", m.req)
<1>5. n.t = "err" /\ n.to = i /\ Token(n) /\ For(n) = i
  BY <1>4, SentFields, ForWhom DEF Replies
<1>6. \A x \in msgs' : (x \in msgs /\ x # m) \/ x = n
  BY <1>2, Network
<1> HIDE DEF n
<1>7. Ordered'
  BY <1>1, <1>3, <1>4, <1>5, <1>6, LatchesKept, MovedToMsg
<1>8. \A x \in msgs' : \/ x \in msgs \/ x.t \in {"ask", "ckpt", "clean"}
                       \/ x.t = "err" /\ \A c \in msgs : c.t = "claim" => c.inst # x.to
  BY <1>4, <1>5, <1>6
<1>9. Global' /\ Claims' /\ EdpSound'
  BY <1>1, <1>3, <1>8, QuietStep
<1> QED BY <1>7, <1>9 DEF Global, Safe, Ordered

\* The queue after an entry was added or none.
LEMMA AppendQueue ==
    ASSUME NEW q \in Seq(ReqInfo), NEW r \in ReqInfo
    PROVE  /\ Len(Append(q, r)) = Len(q) + 1 /\ Append(q, r)[Len(q) + 1] = r
           /\ \A n \in 1 .. Len(q) : Append(q, r)[n] = q[n]
           /\ Len(q) \in Nat
OBVIOUS

\* A request waits behind the one being converted.  It cannot replace an
\* earlier one: its instance has no other.
LEMMA SafeQueued ==
    ASSUME IInv, IInv', Safe, Prompt, NEW i \in Inst, AskQueued(i)
    PROVE  Safe'
<1>1. TypeOK /\ TypeOK' /\ Ordered /\ Global /\ Claims /\ EdpSound
  BY SafeParts DEF IInv
<1>2. PICK m \in AskOf(i) :
        drc_search_item_by_reqid(res, m.req) = {} =>
          res' = [res EXCEPT !.q = Append(@, m.req)] /\ Exchange(m, {})
  BY DEF AskQueued
<1>3. ~ panic /\ inv' = inv /\ ses' = ses /\ ctrl' = ctrl
  BY DEF AskQueued, Running
<1>4. /\ m \in msgs /\ m.t = "ask" /\ m.req \in ReqInfo /\ m.req.inst = i
      /\ m.req.mode >= ses[i].mode
      /\ \A c \in msgs : c.t = "claim" => c.inst # i
      /\ \A x \in msgs : Token(x) /\ For(x) = i => x = m
      /\ \A r \in inv : ~ (Serves(r) /\ r.req.inst = i)
      /\ QueueFor(i) = {} /\ ses[i].st = "ask"
  BY <1>1, AskFacts
<1>5. res \in BufRes /\ res.q \in Seq(ReqInfo) /\ Len(res.q) \in Nat /\ DOMAIN res.q = 1 .. Len(res.q)
  <2>1. res \in BufRes
    BY <1>1 DEF TypeOK
  <2>2. res.q \in Seq(ReqInfo)
    BY <2>1 DEF BufRes
  <2> QED BY <2>1, <2>2
<1>6. drc_search_item_by_reqid(res, m.req) = {}
  <2>1. \A k \in 1 .. Len(res.q) : res.q[k].inst # i
    BY <1>4 DEF QueueFor
  <2> QED BY <1>4, <1>5, <2>1 DEF drc_search_item_by_reqid, drc_is_retry_request
<1>7. res' = [res EXCEPT !.q = Append(res.q, m.req)] /\ Exchange(m, {})
  BY <1>2, <1>6
<1>8. /\ res'.used = res.used /\ res'.owner = res.owner /\ res'.copies = res.copies
      /\ res'.conv = res.conv /\ res'.q = Append(res.q, m.req)
  BY <1>5, <1>7 DEF BufRes
<1>9. /\ Len(res'.q) = Len(res.q) + 1 /\ res'.q[Len(res.q) + 1] = m.req
      /\ \A n \in 1 .. Len(res.q) : res'.q[n] = res.q[n]
  BY <1>4, <1>5, <1>8, AppendQueue
<1>10. \A x \in msgs' : x \in msgs /\ x # m
  BY <1>7, Network
<1>11. \A j \in Inst : LatchOK(j)'
  BY <1>1, <1>3, LatchesKept
<1>12. ASSUME NEW j \in Inst, j # i
       PROVE  \A n \in QueueFor(j)' : n \in QueueFor(j) /\ res'.q[n] = res.q[n]
  <2> SUFFICES ASSUME NEW n \in 1 .. Len(res'.q), res'.q[n].inst = j
               PROVE  n \in 1 .. Len(res.q) /\ res'.q[n] = res.q[n] /\ res.q[n].inst = j
    BY DEF QueueFor
  <2>1. n # Len(res.q) + 1
    BY <1>4, <1>9, <1>12
  <2> QED BY <1>5, <1>9, <2>1
<1>13. Orderly(i)'
  <2>1. MsgFor(i)' = {}
    BY <1>4, <1>10 DEF MsgFor, Token, For
  <2>2. RoundFor(i)' = {}
    BY <1>3, <1>4 DEF RoundFor, Serves, IsRecycle
  <2>3. QueueFor(i)' \subseteq {Len(res.q) + 1}
    <3> SUFFICES ASSUME NEW n \in 1 .. Len(res'.q), res'.q[n].inst = i
                 PROVE  n = Len(res.q) + 1
      BY DEF QueueFor
    <3>1. n \notin 1 .. Len(res.q)
      BY <1>4, <1>9 DEF QueueFor
    <3> QED BY <1>5, <1>9, <3>1
  <2>4. \A n \in QueueFor(i)' : res'.q[n].mode >= ses'[i].mode
    BY <1>3, <1>4, <1>9, <2>3
  <2>5. Alone(i)'
    BY <1>3, <1>4, <2>1, <2>2, <2>3 DEF Alone
  <2>6. Wants(i)'
    BY <2>1, <2>2, <2>4 DEF Wants
  <2> QED BY <1>11, <2>5, <2>6 DEF Orderly
<1>14. ASSUME NEW j \in Inst, j # i
       PROVE  Orderly(j)'
  <2>1. \A n \in QueueFor(j)' : n + 0 \in QueueFor(j) /\ res'.q[n] = res.q[n + 0]
    <3>1. \A n \in QueueFor(j)' : n \in Nat
      BY <1>9, <1>5 DEF QueueFor
    <3>2. \A n \in Nat : n + 0 = n
      OBVIOUS
    <3> QED BY <1>12, <1>14, <3>1, <3>2
  <2>2. Orderly(j)
    BY <1>1 DEF Ordered
  <2> QED BY <1>1, <1>3, <1>10, <1>11, <2>1, <2>2, OrderlyShifted
<1>15. Global'
  BY <1>1, <1>3, <1>8, <1>10, GlobalKept
<1>16. Claims'
  <2>1. \A j \in Inst : QueueFor(j) = {} /\ (\E n \in msgs : n.t = "claim" /\ n.inst = j)
                              => QueueFor(j)' = {}
    BY <1>4, <1>12
  <2> QED BY <1>1, <1>3, <1>8, <1>10, <2>1, ClaimsKept
<1>17. EdpSound'
  BY <1>1, <1>3, <1>8, <1>10, EdpKept
<1> QED BY <1>13, <1>14, <1>15, <1>16, <1>17 DEF Global, Safe

\* Nobody works on a request.
AtRest(M) == \A n \in M : n.t \notin {"own", "already", "page", "claim"}

\* Nobody works on a request while the entry converts none.
LEMMA RestIdle ==
    ASSUME TypeOK, Global, Claims, ~ Converting(res)
    PROVE  AtRest(msgs) /\ \A r \in inv : ~ Serves(r)
<1>1. res.conv = NoReq /\ res.conv.inst \notin Inst
  BY NoInstAssumption DEF Converting, NoReq
<1>2. NoReq \notin ReqInfo
  BY NoInstAssumption DEF NoReq, ReqInfo
<1>3. \A n \in msgs : n.t \notin {"already", "page"}
  BY <1>1, MsgFields DEF Global, Serving, TypeOK
<1>4. \A n \in msgs : n.t # "own"
  BY <1>1, <1>2, MsgFields DEF Global, Serving, TypeOK
<1>5. \A n \in msgs : n.t # "claim"
  BY <1>1, MsgFields DEF Claims, TypeOK
<1>6. \A r \in inv : ~ Serves(r)
  <2> SUFFICES ASSUME NEW r \in inv, Serves(r) PROVE FALSE
    OBVIOUS
  <2>1. r.req = NoReq /\ r.req.mode = DRC_LOCK_EXCLUSIVE
    BY <1>1 DEF Global, Serving
  <2> QED BY <2>1 DEF NoReq, DRC_LOCK_EXCLUSIVE, DRC_LOCK_NULL
<1> QED BY <1>3, <1>4, <1>5, <1>6 DEF AtRest

\* Nobody works on the request being converted while its instance asks again.
LEMMA RestAsked ==
    ASSUME TypeOK, Safe, NEW i \in Inst, NEW m \in msgs, m.t = "ask", m.req.inst = i,
           \A c \in msgs : c.t = "claim" => c.inst # i, res.conv.inst = i
    PROVE  AtRest(msgs) /\ \A r \in inv : ~ Serves(r)
<1>1. Ordered /\ Global /\ Claims /\ Orderly(i)
  BY SafeParts DEF Ordered
<1>2. Token(m) /\ For(m) = i
  BY ForWhom
<1>3. /\ \A x \in msgs : Token(x) /\ For(x) = i => x = m
      /\ \A r \in inv : ~ (Serves(r) /\ r.req.inst = i)
  BY <1>1, <1>2, OnlyMsg
<1>4. \A n \in msgs : n.t # "claim"
  BY <1>1 DEF Claims
<1>5. \A n \in msgs : n.t \notin {"own", "already", "page"}
  <2> SUFFICES ASSUME NEW n \in msgs, n.t \in {"own", "already", "page"} PROVE FALSE
    OBVIOUS
  <2>1. Token(n) /\ For(n) = i
    BY <1>1, ForWhom DEF Global, Serving, Replies
  <2> QED BY <1>3, <2>1
<1>6. \A r \in inv : ~ Serves(r)
  BY <1>1, <1>3 DEF Global, Serving
<1> QED BY <1>4, <1>5, <1>6 DEF AtRest

\* The first request gets the page: nobody holds it when there is no entry.
LEMMA SafeGranted ==
    ASSUME IInv, Safe, Prompt, NEW i \in Inst, AskGranted(i)
    PROVE  Safe'
<1>1. TypeOK /\ Ordered /\ Global /\ Claims /\ EdpSound /\ EntrySound /\ RoundsSound
  BY SafeParts DEF IInv, CatalogueSound
<1>2. PICK m \in AskOf(i) : /\ ~ res.used /\ res' = drc_grant(m.req)
                            /\ Exchange(m, {Reply("load", m.req)})
  BY DEF AskGranted
<1>3. ~ panic /\ inv' = inv /\ ses' = ses /\ ctrl' = ctrl
  BY DEF AskGranted, Running
<1>4. m \in msgs /\ m.t = "ask" /\ m.req \in ReqInfo /\ m.req.inst = i /\ Token(m) /\ For(m) = i
  BY <1>1, AskFacts
<1>5. res = NoRes /\ ~ res.pending /\ ~ Converting(res) /\ res.q = <<>>
  BY <1>1, <1>2, NoResType DEF EntrySound, NoRes, Converting
<1>6. res'.used /\ res'.owner = i /\ res'.copies = {} /\ res'.q = <<>> /\ res'.conv = NoReq
  BY <1>2, <1>4 DEF drc_grant, NoRes
<1> DEFINE n == Reply("load", m.req)
<1>7. n.t = "load" /\ n.to = i /\ Token(n) /\ For(n) = i
  BY <1>4, SentFields, ForWhom DEF Replies
<1>8. \A x \in msgs' : (x \in msgs /\ x # m) \/ x = n
  BY <1>2, Network
<1> HIDE DEF n
<1>9. Ordered'
  BY <1>1, <1>3, <1>4, <1>5, <1>6, <1>7, <1>8, LatchesKept, MovedToMsg
<1>10. AtRest(msgs) /\ inv = {}
  BY <1>1, <1>5, RestIdle DEF RoundsSound, Serves
<1>11. \A j \in Inst : ~ Holds(j) /\ ~ HoldsX(j)
  BY <1>1, <1>2, HoldsBoth DEF Global, Power
<1>12. \A j \in Inst : ctrl[j].lock = DRC_LOCK_NULL
  BY <1>11 DEF Holds
<1>13. \A x \in msgs' : x.t \in Work => x = n
  BY <1>1, <1>2, <1>8, <1>10 DEF AtRest, Work, Global, Serving
<1>14. \A j \in Inst : (Holds(j)' \/ HoldsX(j)') => j = i
  BY <1>3, <1>7, <1>12, <1>13
     DEF Holds, HoldsX, Work, DRC_LOCK_NULL, DRC_LOCK_EXCLUSIVE
<1>15. Serving'
  BY <1>3, <1>6, <1>7, <1>10, <1>13 DEF Serving, Work
<1>16. Power'
  BY <1>6, <1>14 DEF Power
<1>17. Giving'
  BY <1>3, <1>7, <1>10, <1>13 DEF Giving, Work
<1>18. Claims'
  BY <1>7, <1>13 DEF Claims, Work
<1>19. EdpSound'
  BY <1>3, <1>12 DEF EdpSound
<1> QED BY <1>9, <1>15, <1>16, <1>17, <1>18, <1>19 DEF Safe, Ordered

\* The request r that message m brought goes into the round x, or into the
\* message y, that the entry rs calls for; the others in also are answered.
IntoRound(x, m, rs, r, also) ==
    /\ inv' = inv \cup {x} /\ Serves(x) /\ x.req = r /\ x.ok
    /\ x.kind \notin {"recycle", "recycled"}
    /\ x.owner = rs.owner /\ x.wait = rs.copies \ {r.inst, rs.owner}
    /\ r.mode = DRC_LOCK_EXCLUSIVE
    /\ \A n \in msgs' : (n \in msgs /\ n # m) \/ n \in also

ToOwner(y, m, rs, r, also) ==
    /\ inv' = inv
    /\ r.mode = DRC_LOCK_EXCLUSIVE => rs.copies \ {r.inst, rs.owner} = {}
    /\ \A n \in msgs' : (n \in msgs /\ n # m) \/ n \in also \/ n = y
    /\ IF rs.owner = r.inst
       THEN y.t = "already" /\ y.to = r.inst /\ y.mode = r.mode
       ELSE y.t = "own" /\ y.to = rs.owner /\ y.req = r

\* Converting a request starts a round for it, or turns to the owner
\* (dcs_notify_owner_for_page).
LEMMA ConvertWays ==
    ASSUME NEW m, NEW rs, NEW r, NEW retry, NEW kind \in {"ask", "claim"}, NEW self, NEW also,
           Convert(m, rs, r, retry, kind, self, also)
    PROVE  \/ \E x : IntoRound(x, m, rs, r, also)
           \/ \E y : ToOwner(y, m, rs, r, also)
<1> DEFINE w == CopiesToInvalidate(rs, r)
           x == Round(kind, w, r, retry, rs.owner, self)
           y == NotifyOwner(rs.owner, r, retry)
<1>1. w = rs.copies \ {r.inst, rs.owner}
  BY DEF CopiesToInvalidate
<1>2. CASE w # {} /\ r.mode = DRC_LOCK_EXCLUSIVE
  <2>1. inv' = inv \cup {x} /\ Exchange(m, also)
    BY <1>2 DEF Convert
  <2>2. x.req = r /\ x.ok /\ x.kind = kind /\ x.owner = rs.owner /\ x.wait = w
    <3> HIDE DEF w
    <3> QED BY DEF Round
  <2>3. \A n \in msgs' : (n \in msgs /\ n # m) \/ n \in also
    BY <2>1, Network
  <2> HIDE DEF x, w
  <2>4. Serves(x) /\ x.kind \notin {"recycle", "recycled"}
    BY <2>2 DEF Serves, IsRecycle
  <2> QED BY <1>1, <1>2, <2>1, <2>2, <2>3, <2>4 DEF IntoRound
<1>3. CASE ~ (w # {} /\ r.mode = DRC_LOCK_EXCLUSIVE)
  <2>1. inv' = inv /\ Exchange(m, also \cup {y})
    BY <1>3 DEF Convert
  <2>2. \A n \in msgs' : (n \in msgs /\ n # m) \/ n \in also \cup {y}
    BY <2>1, Network
  <2>3. IF rs.owner = r.inst
        THEN y.t = "already" /\ y.to = r.inst /\ y.mode = r.mode
        ELSE y.t = "own" /\ y.to = rs.owner /\ y.req = r
    BY SentFields DEF NotifyOwner
  <2> HIDE DEF y, w
  <2> QED BY <1>1, <1>3, <2>1, <2>2, <2>3 DEF ToOwner
<1> QED BY <1>2, <1>3

\* The entry rs knows the holders, when its next request is r.
Knows(rs, r) ==
    /\ \A n \in msgs : n.t = "load" => n.to = rs.owner
    /\ \A j \in Inst : Holds(j) => j = rs.owner \/ j \in rs.copies \/ j = r.inst
    /\ \A j \in Inst : HoldsX(j) => j = rs.owner \/ j = r.inst
    /\ \A j, k \in Inst : HoldsX(j) /\ Holds(k) => j = k

Errors(S) == \A n \in S : n.t = "err"

\* Turning to the owner when nobody works on a request: the catalogue stays
\* sound.
LEMMA OwnerTold ==
    ASSUME NEW rs, NEW r, NEW y, Knows(rs, r), inv' = {},
           r.mode = DRC_LOCK_EXCLUSIVE => rs.copies \ {r.inst, rs.owner} = {},
           \A n \in msgs' : n.t \in Work => (n \in msgs /\ n.t = "load") \/ n = y,
           IF rs.owner = r.inst
           THEN y.t = "already" /\ y.to = r.inst /\ y.mode = r.mode
           ELSE y.t = "own" /\ y.to = rs.owner /\ y.req = r,
           ctrl' = ctrl, res'.used, res'.owner = rs.owner, res'.copies = rs.copies,
           res'.conv = r
    PROVE  Global' /\ Claims'
<1>1. /\ \A n \in msgs : n.t = "load" => n.to = rs.owner
      /\ \A j \in Inst : Holds(j) => j = rs.owner \/ j \in rs.copies \/ j = r.inst
      /\ \A j \in Inst : HoldsX(j) => j = rs.owner \/ j = r.inst
      /\ \A j, k \in Inst : HoldsX(j) /\ Holds(k) => j = k
  BY DEF Knows
<1>2. Claims'
  BY DEF Claims, Work
<1>3. Serving'
  BY <1>1 DEF Serving, Work
<1>4. CASE rs.owner # r.inst
  <2>1. \A n \in msgs' : n.t \in {"load", "already", "page"} => n \in msgs
    BY <1>4 DEF Work
  <2>2. \A j \in Inst : (Holds(j)' => Holds(j)) /\ (HoldsX(j)' => HoldsX(j))
    BY <2>1, HoldsLess
  <2>3. Power'
    BY <1>1, <2>2 DEF Power
  <2>4. Giving'
    BY <1>1, <1>4, <2>2 DEF Giving, Work
  <2> QED BY <1>2, <1>3, <2>3, <2>4 DEF Global
<1>5. CASE rs.owner = r.inst
  <2>1. \A j \in Inst : Holds(j)' => Holds(j) \/ j = r.inst
    BY <1>5 DEF Holds, Work
  <2>2. \A j \in Inst : HoldsX(j)' => HoldsX(j) \/ (j = r.inst /\ r.mode = DRC_LOCK_EXCLUSIVE)
    BY <1>5 DEF HoldsX, Work
  <2>3. r.mode = DRC_LOCK_EXCLUSIVE => \A j \in Inst : Holds(j) => j = r.inst
    BY <1>1, <1>5
  <2>4. \A j, k \in Inst : HoldsX(j)' /\ Holds(k)' => j = k
    BY <1>1, <1>5, <2>1, <2>2, <2>3
  <2>5. Power'
    BY <1>1, <1>5, <2>1, <2>2, <2>4 DEF Power
  <2>6. Giving'
    BY <1>5 DEF Giving, Work
  <2> QED BY <1>2, <1>3, <2>5, <2>6 DEF Global
<1> QED BY <1>4, <1>5

\* Converting a request when nobody works on one: the catalogue stays sound.
LEMMA ConvertGlobal ==
    ASSUME TypeOK, NEW m, NEW rs, NEW r, NEW retry, NEW kind \in {"ask", "claim"},
           NEW self, NEW also, Convert(m, rs, r, retry, kind, self, also),
           Errors(also), AtRest(msgs \ {m}), inv = {}, Knows(rs, r),
           ctrl' = ctrl, res'.used, res'.owner = rs.owner, res'.copies = rs.copies,
           res'.conv = r
    PROVE  Global' /\ Claims'
<1>3. /\ \A n \in also : n.t = "err"
      /\ \A n \in msgs : n.t = "load" => n.to = rs.owner
  BY DEF Errors, Knows
<1>4. /\ \A j \in Inst : Holds(j) => j = rs.owner \/ j \in rs.copies \/ j = r.inst
      /\ \A j \in Inst : HoldsX(j) => j = rs.owner \/ j = r.inst
      /\ \A j, k \in Inst : HoldsX(j) /\ Holds(k) => j = k
  BY DEF Knows
<1>1. CASE \E x : IntoRound(x, m, rs, r, also)
  <2>1. PICK x : /\ inv' = {x} /\ Serves(x) /\ x.req = r /\ x.ok
                 /\ x.kind \notin {"recycle", "recycled"}
                 /\ x.owner = rs.owner /\ x.wait = rs.copies \ {r.inst, rs.owner}
                 /\ r.mode = DRC_LOCK_EXCLUSIVE
                 /\ \A n \in msgs' : (n \in msgs /\ n # m) \/ n \in also
    BY <1>1 DEF IntoRound
  <2>2. \A n \in msgs' : n.t \in Work => n \in msgs /\ n.t = "load"
    BY <1>3, <2>1 DEF AtRest, Work
  <2>3. \A j \in Inst : (Holds(j)' => Holds(j)) /\ (HoldsX(j)' => HoldsX(j))
    BY <2>2, HoldsLess DEF Work
  <2>4. Serving'
    BY <1>3, <2>1, <2>2 DEF Serving, Work
  <2>5. Power'
    BY <1>4, <2>3 DEF Power
  <2>6. Giving'
    BY <1>4, <2>1, <2>2, <2>3 DEF Giving, Work, Serves, IsRecycle
  <2>7. Claims'
    BY <2>2 DEF Claims, Work
  <2> QED BY <2>4, <2>5, <2>6, <2>7 DEF Global
<1>2. CASE \E y : ToOwner(y, m, rs, r, also)
  <2>1. PICK y : /\ inv' = {}
                 /\ r.mode = DRC_LOCK_EXCLUSIVE => rs.copies \ {r.inst, rs.owner} = {}
                 /\ \A n \in msgs' : (n \in msgs /\ n # m) \/ n \in also \/ n = y
                 /\ IF rs.owner = r.inst
                    THEN y.t = "already" /\ y.to = r.inst /\ y.mode = r.mode
                    ELSE y.t = "own" /\ y.to = rs.owner /\ y.req = r
    BY <1>2 DEF ToOwner
  <2>2. \A n \in msgs' : n.t \in Work => (n \in msgs /\ n.t = "load") \/ n = y
    BY <1>3, <2>1 DEF AtRest, Work
  <2> QED BY <2>1, <2>2, OwnerTold
<1> QED BY <1>1, <1>2, ConvertWays

\* A request moves from a message into a round: everyone stays in order.
LEMMA MovedToRound ==
    ASSUME Ordered, NEW i \in Inst, NEW m \in msgs, Token(m), For(m) = i,
           NEW x, x.req.inst = i, x.req.mode >= ses[i].mode,
           \A n \in msgs' : n \in msgs /\ n # m,
           \A r \in inv' : Serves(r) => r \in inv \/ r = x,
           res'.q = res.q, ses' = ses, \A j \in Inst : LatchOK(j)'
    PROVE  Ordered'
<1>1. Orderly(i)
  BY DEF Ordered
<1>2. /\ \A n \in msgs : Token(n) /\ For(n) = i => n = m
      /\ \A r \in inv : ~ (Serves(r) /\ r.req.inst = i)
      /\ QueueFor(i) = {} /\ ses[i].st = "ask"
  BY <1>1, OnlyMsg
<1>3. QueueFor(i)' = {}
  BY <1>2 DEF QueueFor
<1>4. \A n \in msgs' : ~ (Token(n) /\ For(n) = i)
  BY <1>2
<1>5. \A r \in inv' : Serves(r) /\ r.req.inst = i => r = x
  BY <1>2
<1>6. Orderly(i)'
  BY <1>2, <1>3, <1>4, <1>5, OrderlyRound
<1>7. ASSUME NEW j \in Inst, j # i
      PROVE  Orderly(j)'
  <2>1. \A r \in inv' : Serves(r) /\ r.req.inst = j => r \in inv
    BY <1>7
  <2>2. Orderly(j)
    BY DEF Ordered
  <2> QED BY <2>1, <2>2, OrderlyKept
<1> QED BY <1>6, <1>7 DEF Ordered

\* A request is converted, as r, when nothing else is, or once more.
LEMMA SafeConversion ==
    ASSUME IInv, Safe, Prompt, NEW i \in Inst, NEW m \in AskOf(i), ~ panic,
           NEW r \in ReqInfo, r.inst = i, r.mode >= m.req.mode, NEW retry,
           res.used, ~ res.pending, ~ Converting(res) \/ res.conv.inst = i,
           res' = [res EXCEPT !.conv = r], ses' = ses, ctrl' = ctrl,
           Convert(m, res, r, retry, "ask", FALSE, {})
    PROVE  Safe'
<1>1. TypeOK /\ Ordered /\ Global /\ Claims /\ EdpSound /\ EntrySound /\ RoundsSound
  BY SafeParts DEF IInv, CatalogueSound
<1>2. /\ m \in msgs /\ m.t = "ask" /\ m.req \in ReqInfo /\ m.req.inst = i
      /\ Token(m) /\ For(m) = i /\ m.req.mode >= ses[i].mode
      /\ \A c \in msgs : c.t = "claim" => c.inst # i
  BY <1>1, AskFacts
<1>3. AtRest(msgs) /\ \A x \in inv : ~ Serves(x)
  BY <1>1, <1>2, RestIdle, RestAsked
<1>4. inv = {}
  BY <1>1, <1>3 DEF RoundsSound, Serves
<1>5. /\ res'.used /\ res'.owner = res.owner /\ res'.copies = res.copies
      /\ res'.conv = r /\ res'.q = res.q
  BY <1>1 DEF TypeOK, BufRes
<1>6. r.mode >= ses[i].mode
  <2>1. r.mode \in Nat /\ m.req.mode \in Nat /\ ses[i].mode \in Nat
    <3>1. LockMode \subseteq Nat
      BY DEF LockMode
    <3>2. r.mode \in LockMode /\ m.req.mode \in LockMode
      BY <1>2, ReqFields
    <3>3. ses[i].mode \in LockMode
      BY <1>1 DEF TypeOK
    <3> QED BY <3>1, <3>2, <3>3
  <2> QED BY <1>2, <2>1
<1>7. \A j \in Inst : LatchOK(j)'
  BY <1>1, LatchesKept
<1>8. Ordered'
  <2>1. CASE \E x : IntoRound(x, m, res, r, {})
    <3>1. PICK x : inv' = inv \cup {x} /\ x.req = r /\ \A n \in msgs' : n \in msgs /\ n # m
      BY <2>1 DEF IntoRound
    <3> QED BY <1>1, <1>2, <1>5, <1>6, <1>7, <3>1, MovedToRound
  <2>2. CASE \E y : ToOwner(y, m, res, r, {})
    <3>1. PICK y : /\ inv' = inv /\ \A n \in msgs' : (n \in msgs /\ n # m) \/ n = y
                   /\ IF res.owner = r.inst
                      THEN y.t = "already" /\ y.to = r.inst /\ y.mode = r.mode
                      ELSE y.t = "own" /\ y.to = res.owner /\ y.req = r
      BY <2>2 DEF ToOwner
    <3>2. Token(y) /\ For(y) = i
      BY <3>1, ForWhom DEF Replies
    <3>3. /\ y.t \in {"ask", "own"} => y.req.mode >= ses[i].mode
          /\ y.t \in {"already", "page"} => y.mode >= ses[i].mode
      BY <1>6, <3>1
    <3> QED BY <1>1, <1>2, <1>5, <1>7, <3>1, <3>2, <3>3, MovedToMsg
  <2> QED BY <2>1, <2>2, ConvertWays
<1>9. /\ \A j \in Inst : Holds(j) => j = res.owner \/ j \in res.copies \/ j = i
      /\ \A j \in Inst : HoldsX(j) => j = res.owner \/ j = i
  <2>1. \A j \in Inst : j = res.conv.inst => j = i
    BY NoInstAssumption DEF Converting, NoReq
  <2> QED BY <1>1, <2>1 DEF Global, Power
<1>10. Global' /\ Claims'
  <2>1. AtRest(msgs \ {m})
    BY <1>3 DEF AtRest
  <2>2. \A n \in msgs : n.t = "load" => n.to = res.owner
    BY <1>1 DEF Global, Serving
  <2>3. \A j, k \in Inst : HoldsX(j) /\ Holds(k) => j = k
    BY <1>1 DEF Global, Power
  <2>4. Errors({}) /\ Knows(res, r)
    BY <1>9, <2>2, <2>3 DEF Errors, Knows
  <2> QED BY <1>1, <1>4, <1>5, <2>1, <2>4, ConvertGlobal
<1>11. EdpSound'
  <2>1. \A n \in msgs' : n.t # "claim"
    <3>1. CASE \E x : IntoRound(x, m, res, r, {})
      BY <1>3, <3>1 DEF IntoRound, AtRest
    <3>2. CASE \E y : ToOwner(y, m, res, r, {})
      BY <1>3, <3>2 DEF ToOwner, AtRest
    <3> QED BY <3>1, <3>2, ConvertWays
  <2> QED BY <1>1, <1>5, <2>1, EdpKept
<1> QED BY <1>8, <1>10, <1>11 DEF Global, Safe, Ordered

\* A request that is converted when nothing else is (drc_request_page_owner).
LEMMA SafeConverting ==
    ASSUME IInv, Safe, Prompt, NEW i \in Inst, AskConverting(i)
    PROVE  Safe'
<1>1. PICK m \in AskOf(i) : /\ res' = [res EXCEPT !.conv = m.req]
                            /\ Convert(m, res, m.req, FALSE, "ask", FALSE, {})
  BY DEF AskConverting
<1>2. ~ panic /\ res.used /\ ~ res.pending /\ ~ Converting(res) /\ ses' = ses /\ ctrl' = ctrl
  BY DEF AskConverting, Running
<1>3. m.req \in ReqInfo /\ m.req.inst = i
  BY MsgFields DEF AskOf, IInv, TypeOK
<1>4. m.req.mode >= m.req.mode
  BY <1>3, ReqFields DEF LockMode
<1> QED BY <1>1, <1>2, <1>3, <1>4, SafeConversion

\* The request being converted that is asked again (drc_is_retry_request).
LEMMA SafeRetried ==
    ASSUME IInv, Safe, Prompt, NEW i \in Inst, AskRetried(i)
    PROVE  Safe'
<1> DEFINE R(m) == [m.req EXCEPT !.mode = IF res.conv.mode > @ THEN res.conv.mode ELSE @]
<1>1. PICK m \in AskOf(i) : /\ res' = [res EXCEPT !.conv = R(m)]
                            /\ Convert(m, res, R(m), TRUE, "ask", FALSE, {})
                            /\ res.conv.inst = m.req.inst
  BY DEF AskRetried, drc_is_retry_request
<1>2. ~ panic /\ res.used /\ ~ res.pending /\ Converting(res) /\ ses' = ses /\ ctrl' = ctrl
  BY DEF AskRetried, Running
<1>3. m.req \in ReqInfo /\ m.req.inst = i
  BY MsgFields DEF AskOf, IInv, TypeOK
<1>4. res.conv.mode \in ReqMode /\ m.req.mode \in ReqMode
  BY <1>2, <1>3, ConvertingReq, ReqFields DEF IInv, TypeOK
<1>5. R(m) \in ReqInfo /\ R(m).inst = i
  BY <1>3, <1>4 DEF ReqInfo
<1>6. R(m).mode >= m.req.mode
  BY <1>3, <1>4 DEF ReqInfo, ReqMode, DRC_LOCK_SHARE, DRC_LOCK_EXCLUSIVE
<1> HIDE DEF R
<1> QED BY <1>1, <1>2, <1>3, <1>5, <1>6, SafeConversion

-----------------------------------------------------------------------------
(***************************************************************************)
(* The owner sends the page.                                               *)
(***************************************************************************)
\* While the owner is asked for the page nobody else works on a request.
LEMMA RestOwn ==
    ASSUME IInv, Safe, NEW m \in msgs, m.t = "own"
    PROVE  AtRest(msgs \ {m}) /\ inv = {}
<1>1. TypeOK /\ Ordered /\ Global /\ Claims /\ EntrySound /\ RoundsSound
  BY SafeParts DEF IInv, CatalogueSound
<1>2. m.req \in ReqInfo /\ m.req = res.conv
  BY <1>1, MsgFields DEF TypeOK, Global, Serving
<1> DEFINE i == res.conv.inst
<1>3. i \in Inst /\ Token(m) /\ For(m) = i /\ Orderly(i)
  BY <1>1, <1>2, ReqFields, ForWhom DEF Ordered
<1>4. /\ \A x \in msgs : Token(x) /\ For(x) = i => x = m
      /\ \A r \in inv : ~ (Serves(r) /\ r.req.inst = i)
  BY <1>3, OnlyMsg
<1>5. \A n \in msgs : n.t # "claim"
  <2>1. m \in MsgFor(i)
    BY <1>3 DEF MsgFor
  <2> QED BY <1>1, <2>1 DEF Claims
<1>6. ASSUME NEW n \in msgs, n # m, n.t \in {"own", "already", "page"}
      PROVE  FALSE
  <2>1. Token(n) /\ For(n) = i
    BY <1>1, <1>6, ForWhom DEF Global, Serving, Replies
  <2> QED BY <1>4, <1>6, <2>1
<1>7. \A r \in inv : ~ Serves(r)
  BY <1>1, <1>4 DEF Global, Serving
<1>8. ~ res.pending
  <2>1. Converting(res)
    BY <1>1, <1>2, ConvertingReq DEF TypeOK
  <2> QED BY <1>1, <2>1 DEF EntrySound
<1>9. inv = {}
  BY <1>1, <1>7, <1>8 DEF RoundsSound, Serves
<1> QED BY <1>5, <1>6, <1>9 DEF AtRest

\* What the owner keeps when it sends the page (dcs_owner_transfer_page).
LEMMA TransferFields ==
    ASSUME NEW c \in BufCtrl, NEW mode, c.lock # DRC_LOCK_NULL => ~ c.edp
    PROVE  LET f == OwnerAfterTransfer(c, mode)
           IN  /\ f.inmem = c.inmem
               /\ f.lock # DRC_LOCK_NULL => /\ c.lock # DRC_LOCK_NULL /\ f.lock = DRC_LOCK_SHARE
                                            /\ ~ f.edp /\ mode # DRC_LOCK_EXCLUSIVE
<1>1. c.lock \in {DRC_LOCK_NULL, DRC_LOCK_SHARE, DRC_LOCK_EXCLUSIVE} /\ c.edp \in BOOLEAN
  BY DEF BufCtrl, LockMode, DRC_LOCK_NULL, DRC_LOCK_SHARE, DRC_LOCK_EXCLUSIVE
<1>2. CASE ~ DCS_BUF_CTRL_IS_OWNER(c)
  <2>1. OwnerAfterTransfer(c, mode) = c
    BY <1>2 DEF OwnerAfterTransfer
  <2>2. c.lock = DRC_LOCK_NULL
    BY <1>1, <1>2 DEF DCS_BUF_CTRL_IS_OWNER
  <2> QED BY <2>1, <2>2
<1>3. CASE DCS_BUF_CTRL_IS_OWNER(c) /\ mode = DRC_LOCK_EXCLUSIVE
  <2>1. OwnerAfterTransfer(c, mode) =
          [c EXCEPT !.lock = DRC_LOCK_NULL, !.load = "failed", !.edp = c.edp \/ c.dirty, !.rdirty = FALSE]
    BY <1>3 DEF OwnerAfterTransfer
  <2> QED BY <2>1 DEF BufCtrl
<1>4. CASE DCS_BUF_CTRL_IS_OWNER(c) /\ mode # DRC_LOCK_EXCLUSIVE
  <2>1. OwnerAfterTransfer(c, mode) = [c EXCEPT !.lock = DRC_LOCK_SHARE]
    BY <1>4 DEF OwnerAfterTransfer
  <2>2. c.lock # DRC_LOCK_NULL /\ ~ c.edp
    BY <1>4 DEF DCS_BUF_CTRL_IS_OWNER, DRC_LOCK_NULL, DRC_LOCK_SHARE, DRC_LOCK_EXCLUSIVE
  <2> QED BY <1>4, <2>1, <2>2 DEF BufCtrl
<1> QED BY <1>2, <1>3, <1>4

\* The owner gives the page to the request, which holds it from then on; the
\* owner keeps at most a shared lock, and none if the request is exclusive.
LEMMA Given ==
    ASSUME IInv, Safe, ~ panic, NEW o \in Inst, NEW m \in msgs, m.t = "own", m.to = o,
           NEW n, n.t = "page", n.to = m.req.inst, n.mode = m.req.mode,
           \A x \in msgs' : (x \in msgs /\ x # m) \/ x = n,
           ctrl[o].inmem => LatchFree(o),
           ctrl' = [ctrl EXCEPT ![o] = OwnerAfterTransfer(ctrl[o], m.req.mode)],
           res' = res, inv' = inv, ses' = ses
    PROVE  Safe'
<1>1. TypeOK /\ Ordered /\ Global /\ Claims /\ EdpSound /\ EntrySound /\ RoundsSound
  BY SafeParts DEF IInv, CatalogueSound
<1> DEFINE i == m.req.inst
<1>2. m.req \in ReqInfo /\ m.req = res.conv /\ o = res.owner /\ i # o /\ i \in Inst
  BY <1>1, MsgFields, ReqFields DEF TypeOK, Global, Serving
<1>3. Token(m) /\ For(m) = i /\ Token(n) /\ For(n) = i
  BY ForWhom DEF Replies
<1>4. AtRest(msgs \ {m}) /\ inv = {}
  BY RestOwn
<1>5. ses[o].st \notin {"ask", "got"} /\ LatchOK(o) /\ Orderly(o)
  BY <1>1 DEF Ordered, Orderly, LatchOK, LatchFree
<1>6. /\ ctrl'[o].inmem = ctrl[o].inmem
      /\ ctrl'[o].lock # DRC_LOCK_NULL =>
           /\ ctrl[o].lock # DRC_LOCK_NULL /\ ctrl'[o].lock = DRC_LOCK_SHARE
           /\ ~ ctrl'[o].edp /\ m.req.mode # DRC_LOCK_EXCLUSIVE
      /\ \A j \in Inst : j # o => ctrl'[j] = ctrl[j]
  <2> DEFINE f == OwnerAfterTransfer(ctrl[o], m.req.mode)
  <2>1. ctrl[o] \in BufCtrl
    BY <1>1 DEF TypeOK
  <2>2. ctrl[o].lock # DRC_LOCK_NULL => ~ ctrl[o].edp
    BY <1>1, <1>2 DEF EdpSound
  <2>3. /\ f.inmem = ctrl[o].inmem
        /\ f.lock # DRC_LOCK_NULL =>
             /\ ctrl[o].lock # DRC_LOCK_NULL /\ f.lock = DRC_LOCK_SHARE
             /\ ~ f.edp /\ m.req.mode # DRC_LOCK_EXCLUSIVE
    BY <2>1, <2>2, TransferFields
  <2> HIDE DEF f
  <2>4. ctrl' = [ctrl EXCEPT ![o] = f]
    BY DEF f
  <2> QED BY <1>1, <2>3, <2>4 DEF TypeOK
<1>7. \A j \in Inst : LatchOK(j)'
  <2>1. LatchOK(o)'
    BY <1>5, <1>6 DEF LatchOK
  <2>2. ASSUME NEW j \in Inst, j # o
        PROVE  LatchOK(j)'
    BY <1>1, <1>6, <2>2, LatchKept DEF Ordered, Orderly
  <2> QED BY <2>1, <2>2
<1>8. Ordered'
  <2>1. m.req.mode >= ses[i].mode
    BY <1>1, <1>2, <1>3 DEF Ordered, Orderly, Wants, MsgFor
  <2> QED BY <1>1, <1>2, <1>3, <1>7, <2>1, MovedToMsg
<1>9. \A x \in msgs' : x.t \in Work => (x \in msgs /\ x.t = "load") \/ x = n
  BY <1>4 DEF AtRest, Work
<1>10. \A x \in msgs' : x.t \in {"load", "already", "page"} => x.to # o
  <2>1. \A x \in msgs : ~ (Token(x) /\ For(x) = o)
    BY <1>5, NoRequest
  <2> QED BY <1>2, <1>9, <2>1, ForWhom DEF Replies, Work
<1>11. /\ ~ HoldsX(o)'
       /\ Holds(o)' => m.req.mode # DRC_LOCK_EXCLUSIVE /\ Holds(o)
  BY <1>6, <1>10 DEF Holds, HoldsX, DRC_LOCK_NULL, DRC_LOCK_SHARE, DRC_LOCK_EXCLUSIVE
<1>12. \A j \in Inst : Holds(j)' => Holds(j) \/ j = i
  <2>1. \A j \in Inst : j # o /\ Holds(j)' => Holds(j) \/ j = i
    BY <1>6, <1>9 DEF Holds, Work
  <2> QED BY <1>11, <2>1
<1>13. \A j \in Inst : HoldsX(j)' => HoldsX(j) \/ (j = i /\ m.req.mode = DRC_LOCK_EXCLUSIVE)
  <2>1. \A j \in Inst : j # o /\ HoldsX(j)' => HoldsX(j) \/ (j = i /\ m.req.mode = DRC_LOCK_EXCLUSIVE)
    BY <1>6, <1>9 DEF HoldsX, Work
  <2> QED BY <1>11, <2>1
<1>14. m.req.mode = DRC_LOCK_EXCLUSIVE => \A j \in Inst : Holds(j)' => j = i
  BY <1>1, <1>2, <1>11, <1>12 DEF Global, Giving
<1>15. \A j, k \in Inst : HoldsX(j)' /\ Holds(k)' => j = k
  <2> SUFFICES ASSUME NEW j \in Inst, NEW k \in Inst, HoldsX(j)', Holds(k)'
               PROVE  j = k
    OBVIOUS
  <2>1. Holds(j)'
    BY DEF Holds, HoldsX, DRC_LOCK_NULL, DRC_LOCK_EXCLUSIVE
  <2>2. CASE m.req.mode = DRC_LOCK_EXCLUSIVE
    BY <1>14, <2>1, <2>2
  <2>3. CASE m.req.mode # DRC_LOCK_EXCLUSIVE
    <3>1. HoldsX(j)
      BY <1>13, <2>3
    <3>2. j = i
      BY <1>1, <1>2, <1>11, <3>1 DEF Global, Power
    <3> QED BY <1>1, <1>12, <3>1, <3>2 DEF Global, Power
  <2> QED BY <2>2, <2>3
<1>16. res.used
  BY <1>1, <1>2, NoInstAssumption DEF EntrySound, NoRes
<1>17. Power'
  <2>1. \A j \in Inst : Holds(j)' =>
          res'.used /\ (j = res'.owner \/ j \in res'.copies \/ j = res'.conv.inst)
    BY <1>1, <1>2, <1>12, <1>16 DEF Global, Power
  <2>2. \A j \in Inst : HoldsX(j)' => j = res'.owner \/ j = res'.conv.inst
    BY <1>1, <1>2, <1>13 DEF Global, Power
  <2> QED BY <1>15, <2>1, <2>2 DEF Power
<1>18. Serving'
  BY <1>1, <1>2, <1>4, <1>9 DEF Serving, Work, Global
<1>19. Giving'
  BY <1>4, <1>9 DEF Giving, Work
<1>20. Claims'
  BY <1>9 DEF Claims, Work
<1>21. EdpSound'
  <2>1. \A x \in msgs' : x.t # "claim"
    BY <1>9 DEF Work
  <2> QED BY <1>1, <1>6, <2>1 DEF EdpSound
<1> QED BY <1>8, <1>17, <1>18, <1>19, <1>20, <1>21 DEF Safe, Ordered

\* The owner sends the page, from memory or by pointing to the disk, or refuses
\* (dcs_owner_transfer_page).
LEMMA SafeTransfer ==
    ASSUME IInv, Safe, NEW o \in Inst, OwnerTransfer(o)
    PROVE  Safe'
<1>1. TypeOK /\ Ordered /\ Global /\ Claims /\ EdpSound
  BY SafeParts DEF IInv
<1>2. ~ panic /\ res' = res /\ inv' = inv /\ ses' = ses
  BY DEF OwnerTransfer, Running
<1>3. PICK m \in msgs :
        /\ m.t = "own" /\ m.to = o /\ (ctrl[o].inmem => LatchFree(o))
        /\ \/ /\ \E f \in {"need", "r2x", "page"} : Exchange(m, {PageReady(m.req, f, ctrl[o])})
              /\ ctrl' = [ctrl EXCEPT ![o] = OwnerAfterTransfer(ctrl[o], m.req.mode)]
           \/ Exchange(m, {Reply("err", m.req)}) /\ ctrl' = ctrl
  BY DEF OwnerTransfer
<1>4. CASE /\ \E f \in {"need", "r2x", "page"} : Exchange(m, {PageReady(m.req, f, ctrl[o])})
           /\ ctrl' = [ctrl EXCEPT ![o] = OwnerAfterTransfer(ctrl[o], m.req.mode)]
  <2>1. PICK f \in {"need", "r2x", "page"} : Exchange(m, {PageReady(m.req, f, ctrl[o])})
    BY <1>4
  <2> DEFINE n == PageReady(m.req, f, ctrl[o])
  <2>2. n.t = "page" /\ n.to = m.req.inst /\ n.mode = m.req.mode
    BY SentFields
  <2>3. \A x \in msgs' : (x \in msgs /\ x # m) \/ x \in {n}
    BY <2>1, Network
  <2> HIDE DEF n
  <2>4. \A x \in msgs' : (x \in msgs /\ x # m) \/ x = n
    BY <2>3
  <2>5. ctrl' = [ctrl EXCEPT ![o] = OwnerAfterTransfer(ctrl[o], m.req.mode)]
    BY <1>4
  <2>6. m.t = "own" /\ m.to = o /\ (ctrl[o].inmem => LatchFree(o))
    BY <1>3
  <2>7. res' = res /\ inv' = inv /\ ses' = ses /\ ~ panic
    BY <1>2
  <2> QED BY <2>2, <2>4, <2>5, <2>6, <2>7, Given
<1>5. CASE Exchange(m, {Reply("err", m.req)}) /\ ctrl' = ctrl
  <2> DEFINE n == Reply("err", m.req)
             i == m.req.inst
  <2>1. n.t = "err" /\ n.to = i /\ Token(n) /\ For(n) = i
    BY SentFields, ForWhom DEF Replies
  <2>2. \A x \in msgs' : (x \in msgs /\ x # m) \/ x \in {n}
    BY <1>5, Network
  <2>3. i \in Inst /\ Token(m) /\ For(m) = i
    BY <1>1, <1>3, MsgFields, ReqFields, ForWhom DEF TypeOK
  <2>4. AtRest(msgs \ {m})
    BY <1>3, RestOwn
  <2> HIDE DEF n, i
  <2>5. Ordered'
    BY <1>1, <1>2, <1>5, <2>1, <2>2, <2>3, LatchesKept, MovedToMsg
  <2>6. \A x \in msgs' : \/ x \in msgs \/ x.t \in {"ask", "ckpt", "clean"}
                         \/ x.t = "err" /\ \A c \in msgs : c.t = "claim" => c.inst # x.to
    BY <1>3, <2>1, <2>2, <2>4 DEF AtRest
  <2>7. Global' /\ Claims' /\ EdpSound'
    BY <1>1, <1>2, <1>5, <2>6, QuietStep
  <2> QED BY <2>5, <2>7 DEF Global, Safe, Ordered
<1> QED BY <1>3, <1>4, <1>5

-----------------------------------------------------------------------------
(***************************************************************************)
(* Invalidation rounds.                                                    *)
(***************************************************************************)
\* A round loses an instance and keeps its request: everyone stays in order.
LEMMA RoundKept ==
    ASSUME Ordered, NEW r \in inv, NEW x, x.req = r.req, Serves(x) <=> Serves(r),
           \A s \in inv' : (s \in inv /\ s # r) \/ s = x,
           msgs' = msgs, res'.q = res.q, ses' = ses, \A j \in Inst : LatchOK(j)'
    PROVE  Ordered'
<1> SUFFICES ASSUME NEW j \in Inst
             PROVE  Orderly(j)'
  BY DEF Ordered
<1>1. Orderly(j)
  BY DEF Ordered
<1>2. MsgFor(j)' = MsgFor(j) /\ QueueFor(j)' = QueueFor(j)
  BY DEF MsgFor, QueueFor, Token, For
<1>3. CASE Serves(r) /\ r.req.inst = j
  <2>1. r \in RoundFor(j)
    BY <1>3 DEF RoundFor
  <2>2. RoundFor(j)' \subseteq {x}
    BY <1>1, <1>3, <2>1 DEF RoundFor, Serves, IsRecycle, Orderly, Alone
  <2>3. Alone(j)'
    BY <1>1, <1>2, <2>1, <2>2 DEF Orderly, Alone
  <2>4. Wants(j)'
    BY <1>1, <1>2, <2>1, <2>2 DEF Orderly, Wants
  <2> QED BY <2>3, <2>4 DEF Orderly
<1>4. CASE ~ (Serves(r) /\ r.req.inst = j)
  <2>1. \A s \in inv' : Serves(s) /\ s.req.inst = j => s \in inv
    BY <1>4
  <2> QED BY <1>1, <2>1, OrderlyKept
<1> QED BY <1>3, <1>4

\* The holder of a copy drops it.  A round for a request cannot meet an
\* exclusive holder: that is the owner or the requester, which it does not
\* wait for.
LEMMA SafeInvalidate ==
    ASSUME IInv, Safe, NEW j \in Inst, InvalidateCopy(j)
    PROVE  Safe'
<1>1. TypeOK /\ Ordered /\ Global /\ Claims /\ EdpSound /\ EntrySound /\ RoundsSound
  BY SafeParts DEF IInv, CatalogueSound
<1> DEFINE ok == ctrl[j].inmem => DCS_BUF_CTRL_NOT_OWNER(ctrl[j])
           w(r) == IF j = Master /\ ~ ok THEN {} ELSE r.wait \ {j}
           r1(r) == [r EXCEPT !.ok = r.ok /\ ok, !.wait = w(r)]
           c == IF ctrl[j].inmem /\ ok THEN Invalidated(ctrl[j]) ELSE ctrl[j]
<1>2. PICK r \in inv : /\ inv' = (inv \ {r}) \cup {r1(r)} /\ ctrl' = [ctrl EXCEPT ![j] = c]
                       /\ j \in r.wait /\ r.kind # "recycled"
  BY Zenon DEF InvalidateCopy
<1>3. ~ panic /\ res' = res /\ ses' = ses /\ msgs' = msgs /\ (ctrl[j].inmem => LatchFree(j))
  BY DEF InvalidateCopy, Running
<1> DEFINE x == r1(r)
<1>4. /\ x.ok = (r.ok /\ ok) /\ x.wait = w(r) /\ x.req = r.req /\ x.owner = r.owner
      /\ x.kind = r.kind
  <2>1. r \in RoundType
    BY <1>1 DEF TypeOK
  <2> HIDE DEF w, ok
  <2> QED BY <2>1 DEF RoundType
<1>5. /\ c.inmem = ctrl[j].inmem /\ c.edp = ctrl[j].edp
      /\ c.lock \in {ctrl[j].lock, DRC_LOCK_NULL}
      /\ ok => c.lock = DRC_LOCK_NULL
  <2>1. ctrl[j] \in BufCtrl /\ (~ ctrl[j].inmem => ctrl[j].lock = DRC_LOCK_NULL)
    BY <1>1 DEF TypeOK, Ordered, Orderly, LatchOK
  <2> QED BY <2>1 DEF Invalidated, BufCtrl
<1> HIDE DEF c
<1>6. /\ ctrl'[j] = c /\ \A k \in Inst : k # j => ctrl'[k] = ctrl[k]
  BY <1>1, <1>2 DEF TypeOK
<1>7. \A k \in Inst : /\ ctrl'[k].lock \in {ctrl[k].lock, DRC_LOCK_NULL}
                      /\ ctrl'[k].edp => ctrl[k].edp
  BY <1>5, <1>6
<1>8. \A k \in Inst : LatchOK(k)'
  <2>1. LatchOK(j)'
    BY <1>1, <1>3, <1>5, <1>6 DEF Ordered, Orderly, LatchOK, LatchFree
  <2>2. ASSUME NEW k \in Inst, k # j
        PROVE  LatchOK(k)'
    BY <1>1, <1>3, <1>6, <2>2, LatchKept DEF Ordered, Orderly
  <2> QED BY <2>1, <2>2
<1>9. Serves(x) <=> Serves(r)
  BY <1>4 DEF Serves, IsRecycle
<1>10. \A s \in inv' : (s \in inv /\ s # r) \/ s = x
  BY <1>2
<1>11. Serves(r) => ok
  <2> SUFFICES ASSUME Serves(r), ~ ok PROVE FALSE
    OBVIOUS
  <2>1. ctrl[j].lock = DRC_LOCK_EXCLUSIVE
    BY <1>1 DEF TypeOK, BufCtrl, LockMode, DCS_BUF_CTRL_NOT_OWNER,
                DRC_LOCK_NULL, DRC_LOCK_SHARE, DRC_LOCK_EXCLUSIVE
  <2>2. HoldsX(j)
    BY <2>1 DEF HoldsX
  <2>3. j = res.owner \/ j = res.conv.inst
    BY <1>1, <2>2 DEF Global, Power
  <2> QED BY <1>1, <1>2, <2>3 DEF Global, Serving
<1>12. x.wait \subseteq r.wait /\ (ok => x.wait = r.wait \ {j})
  BY <1>4
<1>13. x.ok => r.ok /\ ok
  BY <1>4
<1> HIDE DEF x, ok
<1>14. Ordered'
  BY <1>1, <1>3, <1>4, <1>8, <1>9, <1>10, RoundKept
<1>15. \A k \in Inst : (Holds(k)' => Holds(k)) /\ (HoldsX(k)' => HoldsX(k))
  BY <1>3, <1>7, HoldsLess
<1>16. ok => (Holds(j)' => j = res.owner \/ (Converting(res) /\ j = res.conv.inst))
  <2> SUFFICES ASSUME ok, Holds(j)'
               PROVE  j = res.owner \/ (Converting(res) /\ j = res.conv.inst)
    OBVIOUS
  <2>1. PICK n \in msgs : n.t \in {"load", "already", "page"} /\ n.to = j
    BY <1>3, <1>5, <1>6 DEF Holds
  <2> QED BY <1>1, <2>1, NoInstAssumption DEF Global, Serving, Converting, NoReq
<1>17. Serving'
  <2>1. Serves(x) => /\ x.ok /\ x.req = res.conv /\ x.req.mode = DRC_LOCK_EXCLUSIVE
                     /\ x.owner = res.owner
                     /\ res.owner \notin x.wait /\ res.conv.inst \notin x.wait
    BY <1>1, <1>4, <1>9, <1>11, <1>12 DEF Global, Serving
  <2> QED BY <1>1, <1>3, <1>10, <2>1 DEF Global, Serving, Serves, IsRecycle
<1>18. Power'
  BY <1>1, <1>3, <1>15 DEF Global, Power
<1>19. Giving'
  <2>1. Serves(x) => \A k \in Inst : Holds(k)' => k = res.owner \/ k = res.conv.inst \/ k \in x.wait
    BY <1>1, <1>9, <1>11, <1>12, <1>15, <1>16 DEF Global, Giving
  <2>2. x.kind = "recycle" /\ x.ok => \A k \in Inst : Holds(k)' => k = res.owner \/ k \in x.wait
    <3> SUFFICES ASSUME x.kind = "recycle", x.ok, NEW k \in Inst, Holds(k)'
                 PROVE  k = res.owner \/ k \in x.wait
      OBVIOUS
    <3>1. ~ Converting(res)
      BY <1>1, <1>4 DEF RoundsSound, EntrySound, IsRecycle
    <3>2. k = res.owner \/ k \in r.wait
      BY <1>1, <1>4, <1>13, <1>15 DEF Global, Giving
    <3> QED BY <1>12, <1>13, <1>16, <3>1, <3>2
  <2>3. x.kind # "recycled"
    BY <1>2, <1>4
  <2>4. \A m \in msgs : m.t = "own" /\ m.req.mode = DRC_LOCK_EXCLUSIVE =>
          \A k \in Inst : Holds(k)' => k = res.owner \/ k = res.conv.inst
    BY <1>1, <1>15 DEF Global, Giving
  <2>5. \A m \in msgs : m.t = "claim" /\ m.mode = DRC_LOCK_EXCLUSIVE =>
          \A k \in Inst : Holds(k)' => k = m.inst
    BY <1>1, <1>15 DEF Global, Giving
  <2>6. \A m \in msgs : m.t = "claim" /\ m.mode = DRC_LOCK_SHARE =>
          (HoldsX(m.inst)' => m.inst = res.owner)
    BY <1>1, <1>15, MsgFields DEF Global, Giving, TypeOK
  <2>7. \A s \in inv : Serves(s) =>
          \A k \in Inst : Holds(k)' => k = res.owner \/ k = res.conv.inst \/ k \in s.wait
    BY <1>1, <1>15 DEF Global, Giving
  <2>8. /\ \A s \in inv : s.kind = "recycle" /\ s.ok =>
             \A k \in Inst : Holds(k)' => k = res.owner \/ k \in s.wait
        /\ \A s \in inv : s.kind = "recycled" /\ s.ok => \A k \in Inst : ~ Holds(k)'
    BY <1>1, <1>15 DEF Global, Giving
  <2> QED BY <1>3, <1>10, <2>1, <2>2, <2>3, <2>4, <2>5, <2>6, <2>7, <2>8 DEF Giving, Serves, IsRecycle
<1>20. Claims'
  <2>1. ASSUME NEW i \in Inst, RoundFor(i) = {}
        PROVE  RoundFor(i)' = {}
    <3>1. \A s \in inv : ~ (Serves(s) /\ s.req.inst = i)
      BY <2>1 DEF RoundFor
    <3>2. \A s \in inv' : ~ (Serves(s) /\ s.req.inst = i)
      BY <1>4, <1>9, <1>10, <3>1
    <3> QED BY <3>2 DEF RoundFor, Serves, IsRecycle
  <2>2. \A i \in Inst : MsgFor(i)' = MsgFor(i) /\ QueueFor(i)' = QueueFor(i)
    BY <1>3 DEF MsgFor, QueueFor, Token, For
  <2>3. \A m \in msgs : m.t = "claim" => m.inst \in Inst
    BY <1>1, MsgFields DEF TypeOK
  <2> QED BY <1>1, <1>3, <2>1, <2>2, <2>3 DEF Claims
<1>21. EdpSound'
  BY <1>1, <1>3, <1>7, EdpKept
<1> QED BY <1>14, <1>17, <1>18, <1>19, <1>20, <1>21 DEF Safe, Ordered

\* All copies are gone: the owner is asked for the page (dcs_notify_owner_for_page).
LEMMA SafeRoundDone ==
    ASSUME IInv, Safe, RoundDone
    PROVE  Safe'
<1>1. TypeOK /\ Ordered /\ Global /\ Claims /\ EdpSound /\ EntrySound /\ RoundsSound
  BY SafeParts DEF IInv, CatalogueSound
<1>2. PICK r \in inv :
        /\ r.kind \in {"ask", "claim"} /\ r.wait = {}
        /\ res' = IF r.ok THEN [res EXCEPT !.copies = {}] ELSE res
        /\ Send({IF r.ok \/ r.kind = "claim" THEN NotifyOwner(r.owner, r.req, r.retry)
                 ELSE Reply("err", r.req)})
        /\ inv' = inv \ {r}
  BY DEF RoundDone
<1>3. ~ panic /\ ses' = ses /\ ctrl' = ctrl
  BY DEF RoundDone, Running
<1>4. /\ Serves(r) /\ r.ok /\ r.req = res.conv /\ r.req \in ReqInfo
      /\ r.req.mode = DRC_LOCK_EXCLUSIVE /\ r.owner = res.owner
  BY <1>1, <1>2 DEF Serves, IsRecycle, Global, Serving, RoundsSound
<1>0. PICK i \in Inst : i = res.conv.inst
  BY <1>4, ReqFields
<1>5. r \in RoundFor(i) /\ Orderly(i)
  BY <1>0, <1>1, <1>4 DEF RoundFor, Ordered
<1>6. /\ MsgFor(i) = {} /\ QueueFor(i) = {} /\ ses[i].st = "ask"
      /\ \A s \in inv : Serves(s) /\ s.req.inst = i => s = r
      /\ r.req.mode >= ses[i].mode
  BY <1>5 DEF Orderly, Alone, Wants, RoundFor
<1>7. AtRest(msgs)
  <2>1. \A n \in msgs : ~ (Token(n) /\ For(n) = i)
    BY <1>6 DEF MsgFor
  <2>2. \A n \in msgs : n.t \notin {"own", "already", "page"}
    BY <1>0, <1>1, <2>1, ForWhom DEF Global, Serving, Replies
  <2>3. \A n \in msgs : n.t # "claim"
    BY <1>0, <1>1, <1>5 DEF Claims
  <2> QED BY <2>2, <2>3 DEF AtRest
<1>8. inv' = {}
  <2>1. ~ res.pending
    BY <1>1, <1>4, ConvertingReq DEF TypeOK, EntrySound
  <2>2. \A s \in inv : Serves(s)
    BY <1>1, <2>1 DEF RoundsSound, Serves
  <2>3. \A s \in inv : s = r
    BY <1>0, <1>1, <1>6, <2>2 DEF Global, Serving
  <2> QED BY <1>2, <2>3
<1>9. /\ res'.used = res.used /\ res'.owner = res.owner /\ res'.copies = {}
      /\ res'.conv = res.conv /\ res'.q = res.q
  BY <1>1, <1>2, <1>4 DEF TypeOK, BufRes
<1>20. PICK y : y = NotifyOwner(res.owner, res.conv, r.retry)
  OBVIOUS
<1>10. IF res.owner = i
       THEN y.t = "already" /\ y.to = i /\ y.mode = res.conv.mode
       ELSE y.t = "own" /\ y.to = res.owner /\ y.req = res.conv
  BY <1>0, <1>20, SentFields DEF NotifyOwner
<1>11. \A n \in msgs' : n \in msgs \/ n = y
  <2>1. Send({y})
    BY <1>2, <1>4, <1>20
  <2>2. \A n \in msgs' : n \in msgs \/ n \in {y}
    BY <2>1, Network
  <2> QED BY <2>2
<1>12. Ordered'
  <2>1. \A j \in Inst : LatchOK(j)'
    BY <1>1, <1>3, LatchesKept
  <2>2. Token(y) /\ For(y) = i
    BY <1>0, <1>10, ForWhom DEF Replies
  <2>3. QueueFor(i)' = {}
    BY <1>6, <1>9 DEF QueueFor
  <2>4. \A n \in msgs' : Token(n) /\ For(n) = i => n = y
    BY <1>6, <1>11 DEF MsgFor
  <2>5. /\ y.t \in {"ask", "own"} => y.req.mode >= ses'[i].mode
        /\ y.t \in {"already", "page"} => y.mode >= ses'[i].mode
    BY <1>3, <1>4, <1>6, <1>10
  <2>6. \A s \in inv' : ~ (Serves(s) /\ s.req.inst = i)
    BY <1>8
  <2>7. Orderly(i)'
    BY <1>3, <1>5, <1>6, <2>1, <2>3, <2>4, <2>5, <2>6, OrderlyMsg
  <2>8. ASSUME NEW j \in Inst, j # i
        PROVE  Orderly(j)'
    <3>1. \A n \in msgs' : Token(n) /\ For(n) = j => n \in msgs
      BY <1>11, <2>2, <2>8
    <3>2. \A s \in inv' : Serves(s) /\ s.req.inst = j => s \in inv
      BY <1>8
    <3>3. Orderly(j)
      BY <1>1 DEF Ordered
    <3> QED BY <1>3, <1>9, <2>1, <3>1, <3>2, <3>3, OrderlyKept
  <2> QED BY <2>7, <2>8 DEF Ordered
<1>13. Global' /\ Claims'
  <2> DEFINE rs == [res EXCEPT !.copies = {}]
  <2>1. rs.owner = res.owner /\ rs.copies = {} /\ rs.used = res.used
    BY <1>1 DEF TypeOK, BufRes
  <2>2. \A j \in Inst : Holds(j) => j = rs.owner \/ j \in rs.copies \/ j = i
    BY <1>0, <1>1, <1>2, <1>4, <2>1 DEF Global, Giving
  <2>3. Knows(rs, res.conv)
    BY <1>0, <1>1, <2>1, <2>2 DEF Knows, Global, Power, Serving
  <2>4. res'.used
    <3>1. res.owner \in Inst
      BY <1>1, <1>4 DEF RoundsSound
    <3> QED BY <1>1, <1>9, <3>1, NoInstAssumption DEF EntrySound, NoRes
  <2>5. \A n \in msgs' : n.t \in Work => (n \in msgs /\ n.t = "load") \/ n = y
    BY <1>7, <1>11 DEF AtRest, Work
  <2>8. res'.owner = rs.owner /\ res'.copies = rs.copies /\ res'.conv = res.conv
    BY <1>9, <2>1
  <2> HIDE DEF rs
  <2>6. IF rs.owner = res.conv.inst
        THEN y.t = "already" /\ y.to = res.conv.inst /\ y.mode = res.conv.mode
        ELSE y.t = "own" /\ y.to = rs.owner /\ y.req = res.conv
    BY <1>0, <1>10, <2>1
  <2>7. res.conv.mode = DRC_LOCK_EXCLUSIVE => rs.copies \ {res.conv.inst, rs.owner} = {}
    BY <2>1
  <2> QED BY <1>3, <1>8, <2>3, <2>4, <2>5, <2>6, <2>7, <2>8, OwnerTold
<1>14. EdpSound'
  <2>1. \A n \in msgs' : n.t # "claim"
    BY <1>7, <1>10, <1>11 DEF AtRest
  <2> QED BY <1>1, <1>3, <1>9, <2>1, EdpKept
<1> QED BY <1>12, <1>13, <1>14 DEF Safe, Ordered, Global

-----------------------------------------------------------------------------
(***************************************************************************)
(* The checkpoint, and claims that are dropped.                            *)
(***************************************************************************)
\* Steps that touch no lock, no request and nothing that gives the page keep
\* the invariant.
LEMMA SafeQuiet ==
    ASSUME TypeOK, Safe, ~ panic, ses' = ses,
           \A m \in msgs' : m \in msgs \/ m.t \in {"ckpt", "clean"},
           \A r \in inv' : r \in inv,
           res'.used = res.used, res'.owner = res.owner, res'.copies = res.copies,
           res'.conv = res.conv, res'.q = res.q,
           \A i \in Inst : /\ ctrl'[i].lock = ctrl[i].lock /\ ctrl'[i].inmem = ctrl[i].inmem
                           /\ ctrl'[i].edp => ctrl[i].edp
    PROVE  Safe'
<1>1. Ordered /\ Global /\ Claims /\ EdpSound
  BY SafeParts
<1>2. ASSUME NEW j \in Inst
      PROVE  Orderly(j)'
  <2>1. Orderly(j) /\ LatchOK(j)
    BY <1>1 DEF Ordered, Orderly
  <2>2. LatchOK(j)'
    BY <2>1, LatchKept
  <2>3. \A m \in msgs' : Token(m) /\ For(m) = j => m \in msgs
    BY ForWhom
  <2> QED BY <2>1, <2>2, <2>3, OrderlyKept
<1>3. Global' /\ Claims' /\ EdpSound'
  BY <1>1, QuietStep
<1> QED BY <1>2, <1>3 DEF Global, Safe

\* The checkpoint of an instance writes its page, or drops an early dirty page
\* (dcs_ckpt_remote_edp_prepare, buf_clean_edp, ckpt_prepare_normal,
\* ckpt_flush_pages).
LEMMA SafeCkpt ==
    ASSUME IInv, Safe, NEW i \in Inst,
           CkptRemotePrepare(i) \/ CkptCleanLocal(i) \/ CkptPrepareNormal(i) \/ CkptWrite(i)
    PROVE  Safe'
<1>1. TypeOK /\ ctrl[i] \in BufCtrl
  BY DEF IInv, TypeOK
<1>2. ~ panic /\ ses' = ses /\ res' = res /\ inv' = inv
  BY DEF CkptRemotePrepare, CkptCleanLocal, CkptPrepareNormal, CkptWrite, Running
<1> DEFINE e == dcs_buf_clean_ctrl_edp(ctrl[i])
<1>3. \/ ctrl' = ctrl
      \/ \E c \in {ctrl[i], e} : \/ ctrl' = [ctrl EXCEPT ![i] = c]
                                 \/ ctrl' = [ctrl EXCEPT ![i] = CkptCopied(c)]
  <2>1. CASE CkptRemotePrepare(i)
    <3> DEFINE C(g) == IF g.clean /\ ctrl[i].edp /\ g.lsn >= ctrl[i].lsn THEN e ELSE ctrl[i]
    <3>1. PICK g \in grp[i] : \/ UNCHANGED ctrl
                              \/ ctrl' = [ctrl EXCEPT ![i] = C(g)]
                              \/ ctrl' = [ctrl EXCEPT ![i] = CkptCopied(C(g))]
      BY <2>1, Zenon DEF CkptRemotePrepare
    <3>2. C(g) \in {ctrl[i], e}
      OBVIOUS
    <3> HIDE DEF C, e
    <3> QED BY <3>1, <3>2
  <2>2. CASE CkptCleanLocal(i)
    BY <2>2 DEF CkptCleanLocal
  <2>3. CASE CkptPrepareNormal(i)
    BY <2>3 DEF CkptPrepareNormal
  <2>4. CASE CkptWrite(i)
    BY <2>4 DEF CkptWrite
  <2> QED BY <2>1, <2>2, <2>3, <2>4
<1>4. e \in BufCtrl /\ e.lock = ctrl[i].lock /\ e.inmem = ctrl[i].inmem /\ ~ e.edp
  BY <1>1, SameLock, CtrlTypes
<1> HIDE DEF e
<1>5. \A c \in {ctrl[i], e} :
        /\ c.lock = ctrl[i].lock /\ c.inmem = ctrl[i].inmem /\ (c.edp => ctrl[i].edp)
        /\ CkptCopied(c).lock = c.lock /\ CkptCopied(c).inmem = c.inmem /\ CkptCopied(c).edp = c.edp
  BY <1>1, <1>4, SameLock
<1>6. \A j \in Inst : /\ ctrl'[j].lock = ctrl[j].lock /\ ctrl'[j].inmem = ctrl[j].inmem
                      /\ ctrl'[j].edp => ctrl[j].edp
  <2>1. CASE ctrl' = ctrl
    BY <2>1
  <2>2. ASSUME NEW c \in {ctrl[i], e}, NEW f \in {c, CkptCopied(c)}, ctrl' = [ctrl EXCEPT ![i] = f]
        PROVE  \A j \in Inst : /\ ctrl'[j].lock = ctrl[j].lock /\ ctrl'[j].inmem = ctrl[j].inmem
                               /\ ctrl'[j].edp => ctrl[j].edp
    <3>1. f.lock = ctrl[i].lock /\ f.inmem = ctrl[i].inmem /\ (f.edp => ctrl[i].edp)
      BY <1>5, <2>2
    <3>2. ctrl'[i] = f /\ \A j \in Inst : j # i => ctrl'[j] = ctrl[j]
      BY <1>1, <2>2 DEF TypeOK
    <3> QED BY <3>1, <3>2
  <2> QED BY <1>3, <2>1, <2>2
<1>7. \A m \in msgs' : m \in msgs \/ m.t \in {"ckpt", "clean"}
  <2>1. \/ msgs' = msgs \/ Send({CkptReq(ctrl[i].lsn)})
    BY DEF CkptRemotePrepare, CkptCleanLocal, CkptPrepareNormal, CkptWrite
  <2>2. CkptReq(ctrl[i].lsn).t = "ckpt"
    BY DEF CkptReq
  <2>3. Send({CkptReq(ctrl[i].lsn)}) => \A m \in msgs' : m \in msgs \/ m \in {CkptReq(ctrl[i].lsn)}
    BY Network
  <2> QED BY <2>1, <2>2, <2>3
<1> QED BY <1>1, <1>2, <1>6, <1>7, SafeQuiet

\* A written page is announced and the master has the early dirty pages dropped
\* (dcs_master_clean_edp); a checkpoint request is passed on to the owner
\* (dcs_notify_owner_for_ckpt_l).
LEMMA SafeAnnounce ==
    ASSUME IInv, Safe, (\E i \in Inst : CkptAnnounce(i)) \/ ProcCleanReq \/ ProcCkptReq
    PROVE  Safe'
<1>1. TypeOK /\ res \in BufRes
  BY DEF IInv, TypeOK
<1>2. ~ panic /\ ses' = ses /\ inv' = inv /\ ctrl' = ctrl
  BY DEF CkptAnnounce, ProcCleanReq, ProcCkptReq, Running
<1>3. \A l, d : MasterClean(l, d) =>
        res' = res \/ res' = [res EXCEPT !.edp = {}, !.latest = NoInst]
  BY DEF MasterClean, drc_clean_edp_info
<1>4. res' = res \/ res' = [res EXCEPT !.edp = {}, !.latest = NoInst]
  <2>1. CASE ProcCkptReq
    BY <2>1 DEF ProcCkptReq
  <2>2. CASE ProcCleanReq
    BY <1>3, <2>2 DEF ProcCleanReq
  <2>3. CASE \E i \in Inst : CkptAnnounce(i)
    <3>1. PICK i \in Inst : CkptAnnounce(i)
      BY <2>3
    <3>2. PICK l : IF i = Master THEN MasterClean(l, TRUE) ELSE res' = res
      BY <3>1 DEF CkptAnnounce
    <3> QED BY <1>3, <3>2
  <2> QED BY <2>1, <2>2, <2>3
<1>5. /\ res'.used = res.used /\ res'.owner = res.owner /\ res'.copies = res.copies
      /\ res'.conv = res.conv /\ res'.q = res.q
  BY <1>1, <1>4 DEF BufRes
<1>6. \A m \in msgs' : m \in msgs \/ m.t \in {"ckpt", "clean"}
  <2>1. CASE ProcCkptReq \/ ProcCleanReq
    <3>1. PICK m \in msgs : Exchange(m, {})
      BY <2>1 DEF ProcCkptReq, ProcCleanReq
    <3> QED BY <3>1, Network
  <2>2. CASE \E i \in Inst : CkptAnnounce(i)
    <3>1. PICK l : msgs' = msgs \/ Send({CleanReq(l)})
      BY <2>2 DEF CkptAnnounce
    <3>2. CleanReq(l).t = "clean"
      BY DEF CleanReq
    <3>3. Send({CleanReq(l)}) => \A m \in msgs' : m \in msgs \/ m \in {CleanReq(l)}
      BY Network
    <3> QED BY <3>1, <3>2, <3>3
  <2> QED BY <2>1, <2>2
<1> QED BY <1>1, <1>2, <1>5, <1>6, SafeQuiet

\* A claim that does not fit the request being converted is dropped
\* (drc_claim_page_owner).
LEMMA SafeClaimIgnored ==
    ASSUME IInv, Safe, NEW i \in Inst, ProcClaimIgnored(i)
    PROVE  Safe'
<1>1. TypeOK
  BY DEF IInv
<1>2. ~ panic /\ ses' = ses /\ inv' = inv /\ ctrl' = ctrl /\ res' = res
  BY DEF ProcClaimIgnored, Running
<1>3. PICK m \in msgs : Exchange(m, {})
  BY DEF ProcClaimIgnored
<1>4. \A n \in msgs' : n \in msgs
  BY <1>3, Network
<1> QED BY <1>1, <1>2, <1>4, SafeQuiet

-----------------------------------------------------------------------------
(***************************************************************************)
(* Recycling the entry.                                                    *)
(***************************************************************************)
\* Nobody works on a request while the entry is recycled.
LEMMA RestPending ==
    ASSUME IInv, Safe, NEW r \in inv, IsRecycle(r)
    PROVE  /\ AtRest(msgs) /\ inv = {r} /\ res.used /\ r.owner = res.owner /\ res.owner \in Inst
           /\ ~ Converting(res) /\ res.conv.inst \notin Inst /\ res.q = <<>>
<1>1. TypeOK /\ Ordered /\ Global /\ Claims /\ EntrySound /\ RoundsSound
  BY SafeParts DEF IInv, CatalogueSound
<1>2. ~ Converting(res) /\ res.used /\ r.owner = res.owner /\ res.owner \in Inst
  BY <1>1 DEF RoundsSound, EntrySound
<1>3. res.q = <<>> /\ res.conv.inst \notin Inst
  BY <1>1, <1>2, NoInstAssumption DEF EntrySound, QueueServed, Converting, NoReq
<1>4. AtRest(msgs) /\ \A s \in inv : ~ Serves(s)
  BY <1>1, <1>2, RestIdle
<1>5. inv = {r}
  BY <1>1, <1>4 DEF RoundsSound, Serves
<1> QED BY <1>2, <1>3, <1>4, <1>5

\* The recycling of an entry starts with a round for its copies: the owner and
\* the copies are all the holders there are (drc_recycle_items).
LEMMA SafeRecycleStart ==
    ASSUME IInv, Safe, RecycleStart
    PROVE  Safe'
<1>1. TypeOK /\ Ordered /\ Global /\ Claims /\ EdpSound
  BY SafeParts DEF IInv
<1> DEFINE x == RecycleRound(res)
<1>2. /\ ~ panic /\ ~ Converting(res) /\ res' = [res EXCEPT !.pending = TRUE]
      /\ inv' = inv \cup {x} /\ ctrl' = ctrl /\ ses' = ses /\ msgs' = msgs
  BY DEF RecycleStart, Running, buf_res_is_recyclable
<1>3. x.kind = "recycle" /\ x.wait = res.copies \ {res.owner}
  BY DEF RecycleRound, Round
<1> HIDE DEF x
<1>4. ~ Serves(x)
  BY <1>3 DEF Serves, IsRecycle
<1>5. /\ res'.used = res.used /\ res'.owner = res.owner /\ res'.copies = res.copies
      /\ res'.conv = res.conv /\ res'.q = res.q
  BY <1>1, <1>2 DEF TypeOK, BufRes
<1>6. \A i \in Inst : (Holds(i)' <=> Holds(i)) /\ (HoldsX(i)' <=> HoldsX(i))
  BY <1>2 DEF Holds, HoldsX
<1>7. \A r \in inv' : Serves(r) => r \in inv
  BY <1>2, <1>4
<1>8. ASSUME NEW j \in Inst
      PROVE  Orderly(j)'
  <2>1. Orderly(j) /\ LatchOK(j)'
    BY <1>1, <1>2, LatchesKept DEF Ordered
  <2> QED BY <1>2, <1>5, <1>7, <2>1, OrderlyKept
<1>9. Serving'
  BY <1>1, <1>2, <1>5, <1>7 DEF Global, Serving, Serves, IsRecycle
<1>10. Power'
  BY <1>1, <1>5, <1>6 DEF Global, Power
<1>11. Giving'
  <2>1. \A i \in Inst : Holds(i) => i = res.owner \/ i \in x.wait
    BY <1>1, <1>2, <1>3, NoInstAssumption DEF Global, Power, Converting, NoReq
  <2>2. \A m \in msgs : m.t = "claim" => m.inst \in Inst
    BY <1>1, MsgFields DEF TypeOK
  <2>3. /\ \A m \in msgs' : m.t = "own" /\ m.req.mode = DRC_LOCK_EXCLUSIVE =>
             \A i \in Inst : Holds(i)' => i = res'.owner \/ i = res'.conv.inst
        /\ \A m \in msgs' : m.t = "claim" /\ m.mode = DRC_LOCK_EXCLUSIVE =>
             \A i \in Inst : Holds(i)' => i = m.inst
        /\ \A m \in msgs' : m.t = "claim" /\ m.mode = DRC_LOCK_SHARE =>
             (HoldsX(m.inst)' => m.inst = res'.owner)
    BY <1>1, <1>2, <1>5, <1>6, <2>2 DEF Global, Giving
  <2>4. \A r \in inv' : Serves(r) =>
          \A i \in Inst : Holds(i)' => i = res'.owner \/ i = res'.conv.inst \/ i \in r.wait
    BY <1>1, <1>5, <1>6, <1>7 DEF Global, Giving
  <2>5. /\ \A r \in inv' : r.kind = "recycle" /\ r.ok =>
             \A i \in Inst : Holds(i)' => i = res'.owner \/ i \in r.wait
        /\ \A r \in inv' : r.kind = "recycled" /\ r.ok => \A i \in Inst : ~ Holds(i)'
    BY <1>1, <1>2, <1>3, <1>5, <1>6, <2>1 DEF Global, Giving
  <2> QED BY <2>3, <2>4, <2>5 DEF Giving, Serves, IsRecycle
<1>12. Claims'
  <2>1. \A i \in Inst : QueueFor(i)' = QueueFor(i)
    BY <1>5 DEF QueueFor
  <2> QED BY <1>1, <1>2, <1>5, <1>7, <2>1, ClaimsKept
<1>13. EdpSound'
  BY <1>1, <1>2, <1>5, EdpKept
<1> QED BY <1>8, <1>9, <1>10, <1>11, <1>12, <1>13 DEF Safe

\* The owner gives up the page that it could evict: then nobody holds it, for
\* an owner that still has to load the page has its latch (drc_recycle_items).
LEMMA SafeRecycleOwner ==
    ASSUME IInv, Safe, RecycleOwner
    PROVE  Safe'
<1>1. TypeOK /\ Ordered /\ Global /\ Claims /\ EdpSound
  BY SafeParts DEF IInv
<1> DEFINE Ok(o) == \/ ~ ctrl[o].inmem
                    \/ CanEvict(o) /\ (ctrl[o].lock = DRC_LOCK_NULL \/ DCS_BUF_CTRL_IS_OWNER(ctrl[o]))
           C(o) == IF Ok(o) /\ ctrl[o].lock # DRC_LOCK_NULL THEN Invalidated(ctrl[o]) ELSE ctrl[o]
<1>2. PICK r \in inv : /\ r.kind = "recycle" /\ r.wait = {} /\ r.ok
                       /\ inv' = (inv \ {r}) \cup {[r EXCEPT !.kind = "recycled", !.ok = Ok(r.owner)]}
                       /\ ctrl' = [ctrl EXCEPT ![r.owner] = C(r.owner)]
  BY Zenon DEF RecycleOwner
<1>3. ~ panic /\ res' = res /\ ses' = ses /\ msgs' = msgs
  BY DEF RecycleOwner, Running
<1>4. /\ AtRest(msgs) /\ inv = {r} /\ res.used /\ r.owner = res.owner /\ res.owner \in Inst
      /\ res.conv.inst \notin Inst
  BY <1>2, RestPending DEF IsRecycle
<1>5. PICK o \in Inst : o = res.owner
  BY <1>4
<1>6. PICK x : x = [r EXCEPT !.kind = "recycled", !.ok = Ok(o)]
  OBVIOUS
<1>7. x.kind = "recycled" /\ x.ok = Ok(o)
  <2>1. r \in RoundType
    BY <1>1 DEF TypeOK
  <2> HIDE DEF Ok
  <2> QED BY <1>6, <2>1 DEF RoundType
<1>8. inv' = {x}
  BY <1>2, <1>4, <1>5, <1>6
<1>9. /\ C(o).inmem = ctrl[o].inmem /\ C(o).edp = ctrl[o].edp
      /\ C(o).lock \in {ctrl[o].lock, DRC_LOCK_NULL}
      /\ Ok(o) => C(o).lock = DRC_LOCK_NULL
  <2>1. ctrl[o] \in BufCtrl
    BY <1>1 DEF TypeOK
  <2> HIDE DEF Ok
  <2> QED BY <2>1 DEF Invalidated, BufCtrl
<1>10. ctrl'[o] = C(o) /\ \A k \in Inst : k # o => ctrl'[k] = ctrl[k]
  <2> HIDE DEF C
  <2> QED BY <1>1, <1>2, <1>4, <1>5 DEF TypeOK
<1>11. LatchOK(o) /\ Orderly(o)
  BY <1>1 DEF Ordered, Orderly
<1>13. Ok(o) => \A m \in msgs : ~ (Token(m) /\ For(m) = o)
  <2>1. Ok(o) => ses[o].st # "ask"
    BY <1>11 DEF LatchOK, CanEvict, LatchFree
  <2> QED BY <1>11, <2>1, NoRequest
<1>14. (C(o).lock # ctrl[o].lock) => ses[o].st \in {"idle", "sleep"}
  BY <1>11 DEF LatchOK, CanEvict, LatchFree
<1> HIDE DEF C, Ok
<1>15. \A k \in Inst : /\ ctrl'[k].lock \in {ctrl[k].lock, DRC_LOCK_NULL}
                       /\ ctrl'[k].edp => ctrl[k].edp
  BY <1>9, <1>10
<1>16. \A k \in Inst : LatchOK(k)'
  <2>1. LatchOK(o)'
    BY <1>3, <1>9, <1>10, <1>11, <1>14 DEF LatchOK
  <2>2. ASSUME NEW k \in Inst, k # o
        PROVE  LatchOK(k)'
    BY <1>1, <1>3, <1>10, <2>2, LatchKept DEF Ordered, Orderly
  <2> QED BY <2>1, <2>2
<1>17. ~ Serves(x)
  BY <1>7 DEF Serves, IsRecycle
<1>18. ASSUME NEW j \in Inst
       PROVE  Orderly(j)'
  <2>1. Orderly(j)
    BY <1>1 DEF Ordered
  <2>2. \A s \in inv' : ~ Serves(s)
    BY <1>8, <1>17
  <2> QED BY <1>3, <1>16, <2>1, <2>2, OrderlyKept
<1>19. \A k \in Inst : (Holds(k)' => Holds(k)) /\ (HoldsX(k)' => HoldsX(k))
  BY <1>3, <1>15, HoldsLess
<1>20. x.ok => \A k \in Inst : ~ Holds(k)'
  <2> SUFFICES ASSUME Ok(o), NEW k \in Inst, Holds(k)'
               PROVE  FALSE
    BY <1>7
  <2>1. k = o
    BY <1>1, <1>2, <1>5, <1>19 DEF Global, Giving
  <2>2. ctrl'[o].lock = DRC_LOCK_NULL
    BY <1>9, <1>10
  <2>3. PICK m \in msgs : m.t \in {"load", "already", "page"} /\ m.to = o
    BY <1>3, <2>1, <2>2 DEF Holds
  <2> QED BY <1>13, <2>3, ForWhom DEF Replies
<1>21. Serving'
  BY <1>1, <1>3, <1>8, <1>17 DEF Global, Serving, Serves, IsRecycle
<1>22. Power'
  BY <1>1, <1>3, <1>19 DEF Global, Power
<1>23. Giving'
  BY <1>3, <1>4, <1>7, <1>8, <1>17, <1>20 DEF Giving, AtRest, Serves, IsRecycle
<1>24. Claims'
  BY <1>3, <1>4 DEF Claims, AtRest
<1>25. EdpSound'
  BY <1>1, <1>3, <1>15, EdpKept
<1> QED BY <1>18, <1>21, <1>22, <1>23, <1>24, <1>25 DEF Safe

\* The entry goes when nobody holds the page, or stays (drc_recycle_items).
LEMMA SafeRecycleDone ==
    ASSUME IInv, Safe, RecycleDone
    PROVE  Safe'
<1>1. TypeOK /\ Ordered /\ Global /\ Claims /\ EdpSound
  BY SafeParts DEF IInv
<1>2. PICK r \in inv : /\ IsRecycle(r) /\ (r.ok => r.kind = "recycled") /\ inv' = inv \ {r}
                       /\ res' = IF r.ok THEN NoRes ELSE [res EXCEPT !.pending = FALSE]
  BY DEF RecycleDone, IsRecycle
<1>3. ~ panic /\ ctrl' = ctrl /\ ses' = ses /\ msgs' = msgs
  BY DEF RecycleDone, Running
<1>4. AtRest(msgs) /\ inv = {r} /\ res.q = <<>>
  BY <1>2, RestPending
<1>5. CASE ~ r.ok
  <2>1. /\ res'.used = res.used /\ res'.owner = res.owner /\ res'.copies = res.copies
        /\ res'.conv = res.conv /\ res'.q = res.q
    BY <1>1, <1>2, <1>5 DEF TypeOK, BufRes
  <2> QED BY <1>1, <1>2, <1>3, <2>1, SafeQuiet
<1>6. CASE r.ok
  <2>1. res' = NoRes /\ inv' = {} /\ res'.q = res.q
    BY <1>2, <1>4, <1>6, NoResType
  <2>2. \A j \in Inst : ~ Holds(j)
    BY <1>1, <1>2, <1>6 DEF Global, Giving
  <2>3. \A j \in Inst : ~ Holds(j)' /\ ~ HoldsX(j)' /\ ctrl[j].lock = DRC_LOCK_NULL
    BY <1>3, <2>2 DEF Holds, HoldsX, DRC_LOCK_NULL, DRC_LOCK_EXCLUSIVE
  <2>4. \A m \in msgs : m.t \notin Work
    <3>1. \A m \in msgs : m.t # "load"
      BY <1>1, <2>2, MsgFields DEF TypeOK, Holds
    <3> QED BY <1>4, <3>1 DEF AtRest, Work
  <2>5. ASSUME NEW j \in Inst
        PROVE  Orderly(j)'
    <3>1. Orderly(j) /\ LatchOK(j)'
      BY <1>1, <1>3, LatchesKept DEF Ordered
    <3> QED BY <1>3, <2>1, <3>1, OrderlyKept
  <2>6. Serving' /\ Giving' /\ Claims'
    BY <1>3, <2>1, <2>4 DEF Serving, Giving, Claims, Work
  <2>7. Power'
    BY <2>3 DEF Power
  <2>8. EdpSound'
    BY <1>3, <2>3 DEF EdpSound
  <2> QED BY <2>5, <2>6, <2>7, <2>8 DEF Safe
<1> QED BY <1>5, <1>6

-----------------------------------------------------------------------------
(***************************************************************************)
(* A claim, and the next request that is converted.                        *)
(***************************************************************************)
\* While a claim is under way nobody works on a request.
LEMMA RestClaim ==
    ASSUME IInv, Safe, NEW m \in msgs, m.t = "claim"
    PROVE  AtRest(msgs \ {m}) /\ inv = {}
<1>1. TypeOK /\ Ordered /\ Global /\ Claims /\ EntrySound /\ RoundsSound
  BY SafeParts DEF IInv, CatalogueSound
<1>2. PICK i \in Inst : i = m.inst
  BY <1>1, MsgFields DEF TypeOK
<1>3. /\ res.conv.inst = i /\ RoundFor(i) = {} /\ \A n \in MsgFor(i) : n.t = "ask"
      /\ \A n \in msgs : n.t = "claim" => n = m
  BY <1>1, <1>2 DEF Claims
<1>4. \A n \in msgs : Token(n) /\ For(n) = i => n.t = "ask"
  BY <1>3 DEF MsgFor
<1>5. \A n \in msgs : n.t \notin {"own", "already", "page"}
  <2> SUFFICES ASSUME NEW n \in msgs, n.t \in {"own", "already", "page"} PROVE FALSE
    OBVIOUS
  <2>1. Token(n) /\ For(n) = i
    BY <1>1, <1>3, ForWhom DEF Global, Serving, Replies
  <2> QED BY <1>4, <2>1
<1>6. \A r \in inv : ~ Serves(r)
  BY <1>1, <1>3 DEF Global, Serving, RoundFor
<1>7. ~ res.pending
  <2>1. Converting(res)
    BY <1>3, NoInstAssumption DEF Converting, NoReq
  <2> QED BY <1>1, <2>1 DEF EntrySound
<1>8. inv = {}
  BY <1>1, <1>6, <1>7 DEF RoundsSound, Serves
<1> QED BY <1>3, <1>5, <1>8 DEF AtRest

\* The three things that a claim does to owner and copies
\* (drc_claim_new_page_owner).
LEMMA ClaimFields ==
    ASSUME NEW rs \in BufRes, NEW c
    PROVE  LET n == drc_claim_new_page_owner(rs, c)
           IN  \/ rs.owner = c.inst /\ n.owner = rs.owner /\ n.copies = rs.copies
               \/ /\ c.mode = DRC_LOCK_SHARE
                  /\ n.owner = rs.owner /\ n.copies = rs.copies \cup {c.inst}
               \/ c.mode # DRC_LOCK_SHARE /\ n.owner = c.inst /\ n.copies = {}
<1> DEFINE e == (rs.edp \ {c.inst}) \cup (IF c.edp THEN {rs.owner} ELSE {})
           l == IF c.edp THEN rs.owner ELSE rs.latest
           s == [rs EXCEPT !.mode = DRC_LOCK_SHARE, !.copies = @ \cup {c.inst}]
           x == [rs EXCEPT !.owner = c.inst, !.mode = c.mode, !.copies = {},
                           !.edp = e, !.latest = l]
           n == drc_claim_new_page_owner(rs, c)
<1>1. s.owner = rs.owner /\ s.copies = rs.copies \cup {c.inst}
  BY DEF BufRes
<1>2. x.owner = c.inst /\ x.copies = {}
  <2> HIDE DEF e, l
  <2> QED BY DEF BufRes
<1>3. \/ rs.owner = c.inst /\ n = rs
      \/ c.mode = DRC_LOCK_SHARE /\ n \in {s, [s EXCEPT !.lsn = c.lsn]}
      \/ c.mode # DRC_LOCK_SHARE /\ n \in {x, [x EXCEPT !.lsn = c.lsn]}
  BY Zenon DEF drc_claim_new_page_owner
<1>4. [s EXCEPT !.lsn = c.lsn].owner = s.owner /\ [s EXCEPT !.lsn = c.lsn].copies = s.copies
  BY DEF BufRes
<1>5. [x EXCEPT !.lsn = c.lsn].owner = x.owner /\ [x EXCEPT !.lsn = c.lsn].copies = x.copies
  BY DEF BufRes
<1> HIDE DEF s, x, n
<1>6. \/ rs.owner = c.inst /\ n.owner = rs.owner /\ n.copies = rs.copies
      \/ /\ c.mode = DRC_LOCK_SHARE
         /\ n.owner = rs.owner /\ n.copies = rs.copies \cup {c.inst}
      \/ c.mode # DRC_LOCK_SHARE /\ n.owner = c.inst /\ n.copies = {}
  BY <1>1, <1>2, <1>3, <1>4, <1>5
<1> QED BY <1>6 DEF n

\* Once a claim is recorded, the holders are the owner and the copies, only
\* the owner holds exclusively, and it keeps no early dirty page.
LEMMA ClaimKnows ==
    ASSUME TypeOK, Safe, ~ panic, NEW m \in msgs, m.t = "claim",
           NEW rs, rs = drc_claim_new_page_owner(res, m)
    PROVE  /\ \A n \in msgs : n.t = "load" => n.to = rs.owner
           /\ \A j \in Inst : Holds(j) => j = rs.owner \/ j \in rs.copies
           /\ \A j \in Inst : HoldsX(j) => j = rs.owner
           /\ \A j \in Inst : ctrl[j].lock # DRC_LOCK_NULL /\ ctrl[j].edp =>
                 ctrl[j].lock = DRC_LOCK_SHARE /\ j # rs.owner
<1>1. Global /\ Claims /\ EdpSound
  BY SafeParts
<1>2. m.inst \in Inst /\ m.mode \in {DRC_LOCK_SHARE, DRC_LOCK_EXCLUSIVE} /\ res \in BufRes
  BY MsgFields DEF TypeOK, ReqMode
<1>3. res.conv.inst = m.inst
  BY <1>1 DEF Claims
<1>4. /\ \A j \in Inst : Holds(j) => j = res.owner \/ j \in res.copies \/ j = m.inst
      /\ \A j \in Inst : HoldsX(j) => j = res.owner \/ j = m.inst
  BY <1>1, <1>3 DEF Global, Power
<1>5. \A n \in msgs : n.t = "load" => n.to = res.owner /\ n.to \in Inst /\ Holds(n.to)
  BY <1>1, MsgFields DEF Global, Serving, TypeOK, Holds
<1>6. \A j \in Inst : ctrl[j].lock # DRC_LOCK_NULL /\ ctrl[j].edp =>
        /\ ctrl[j].lock = DRC_LOCK_SHARE /\ j # res.owner
        /\ m.mode = DRC_LOCK_EXCLUSIVE => j # m.inst
  BY <1>1 DEF EdpSound
<1>7. CASE res.owner = m.inst /\ rs.owner = res.owner /\ rs.copies = res.copies
  BY <1>4, <1>5, <1>6, <1>7
<1>8. CASE /\ m.mode = DRC_LOCK_SHARE
           /\ rs.owner = res.owner /\ rs.copies = res.copies \cup {m.inst}
  <2>1. HoldsX(m.inst) => m.inst = res.owner
    BY <1>1, <1>8 DEF Global, Giving
  <2> QED BY <1>4, <1>5, <1>6, <1>8, <2>1
<1>9. CASE m.mode # DRC_LOCK_SHARE /\ rs.owner = m.inst /\ rs.copies = {}
  <2>1. \A j \in Inst : Holds(j) => j = m.inst
    BY <1>1, <1>2, <1>9 DEF Global, Giving
  <2>2. \A j \in Inst : HoldsX(j) => Holds(j)
    BY HoldsBoth
  <2> QED BY <1>2, <1>5, <1>6, <1>9, <2>1, <2>2
<1> QED BY <1>2, <1>7, <1>8, <1>9, ClaimFields

\* The queue s is q without its first d requests.
Shifted(q, s, d) == \A j \in 1 .. Len(s) : j + d \in 1 .. Len(q) /\ s[j] = q[j + d]

\* Converting the next request takes it, the skipped ones before it, and a
\* conflicting one behind it out of the queue (drc_convert_next_request,
\* drc_check_first_req_in_convert_queue).
LEMMA PopFields ==
    ASSUME NEW rs \in BufRes, NEW k \in 0 .. Len(rs.q),
           NEW n, n = drc_pop_request(rs, k),
           NEW f, f = drc_check_first_req_in_convert_queue(n)
    PROVE  /\ f.used = rs.used /\ f.owner = rs.owner /\ f.copies = rs.copies /\ f.conv = n.conv
           /\ n.owner = rs.owner /\ n.copies = rs.copies
           /\ ~ Converting(n) => n.conv = NoReq /\ f.q = <<>>
           /\ Converting(n) =>
                /\ k + 1 \in 1 .. Len(rs.q) /\ n.conv = rs.q[k + 1]
                /\ \E d \in Nat : /\ d >= k + 1 /\ Shifted(rs.q, f.q, d)
                                  /\ FirstConflicts(n) =>
                                       /\ d = k + 2 /\ k + 2 \in 1 .. Len(rs.q)
                                       /\ Head(n.q) = rs.q[k + 2]
<1>1. rs.q \in Seq(ReqInfo) /\ Len(rs.q) \in Nat /\ k \in Nat /\ k <= Len(rs.q)
  BY DEF BufRes
<1>2. CASE k = Len(rs.q)
  <2>1. n = [rs EXCEPT !.q = <<>>, !.conv = NoReq]
    BY <1>1, <1>2 DEF drc_pop_request
  <2>2. /\ n.conv = NoReq /\ n.q = <<>> /\ n.used = rs.used /\ n.owner = rs.owner
        /\ n.copies = rs.copies
    BY <2>1 DEF BufRes
  <2>3. ~ Converting(n) /\ f = n
    BY <2>2 DEF Converting, drc_check_first_req_in_convert_queue, FirstConflicts
  <2> QED BY <2>2, <2>3
<1>3. CASE k < Len(rs.q)
  <2> DEFINE s == SubSeq(rs.q, k + 2, Len(rs.q))
  <2>1. n = [rs EXCEPT !.q = s, !.conv = rs.q[k + 1]]
    BY <1>1, <1>3 DEF drc_pop_request
  <2>2. /\ s \in Seq(ReqInfo) /\ Len(s) = Len(rs.q) - (k + 1)
        /\ \A j \in 1 .. Len(s) : s[j] = rs.q[j + (k + 1)]
    BY <1>1, <1>3
  <2> HIDE DEF s
  <2>3. /\ n.conv = rs.q[k + 1] /\ n.q = s /\ n.used = rs.used /\ n.owner = rs.owner
        /\ n.copies = rs.copies
    BY <2>1 DEF BufRes
  <2>4. n \in BufRes /\ k + 1 \in 1 .. Len(rs.q)
    BY <1>1, <1>3, PopType
  <2>5. Shifted(rs.q, s, k + 1)
    BY <1>1, <1>3, <2>2 DEF Shifted
  <2>6. Converting(n)
    <3>1. rs.q[k + 1] \in ReqInfo
      BY <1>1, <2>4
    <3> QED BY <2>3, <2>4, <3>1, ConvertingReq
  <2>7. CASE ~ FirstConflicts(n)
    <3>1. f = n
      BY <2>7 DEF drc_check_first_req_in_convert_queue
    <3>2. k + 1 \in Nat /\ k + 1 >= k + 1 /\ Shifted(rs.q, f.q, k + 1)
      BY <1>1, <2>3, <2>5, <3>1
    <3> QED BY <2>3, <2>4, <2>6, <2>7, <3>1, <3>2
  <2>8. CASE FirstConflicts(n)
    <3>1. f = [n EXCEPT !.q = Tail(s)]
      BY <2>3, <2>8 DEF drc_check_first_req_in_convert_queue
    <3>2. /\ f.conv = n.conv /\ f.q = Tail(s) /\ f.used = n.used /\ f.owner = n.owner
          /\ f.copies = n.copies
      BY <2>4, <3>1 DEF BufRes
    <3>3. s # <<>>
      BY <2>3, <2>8 DEF FirstConflicts
    <3>4. /\ Len(Tail(s)) = Len(s) - 1 /\ \A j \in 1 .. Len(Tail(s)) : Tail(s)[j] = s[j + 1]
          /\ Head(s) = s[1] /\ 1 \in 1 .. Len(s)
      BY <2>2, <3>3
    <3>5. k + 2 \in 1 .. Len(rs.q) /\ Head(s) = rs.q[k + 2]
      BY <1>1, <1>3, <2>2, <3>4
    <3>6. Shifted(rs.q, Tail(s), k + 2)
      BY <1>1, <1>3, <2>2, <3>4 DEF Shifted
    <3>7. k + 2 \in Nat /\ k + 2 >= k + 1
      BY <1>1
    <3> QED BY <2>3, <2>4, <2>6, <2>8, <3>2, <3>5, <3>6, <3>7
  <2> QED BY <2>7, <2>8
<1> QED BY <1>1, <1>2, <1>3

\* A request that waits in the queue is nowhere else.
LEMMA OnlyQueue ==
    ASSUME NEW i \in Inst, Orderly(i), NEW n \in QueueFor(i)
    PROVE  /\ \A m \in msgs : ~ (Token(m) /\ For(m) = i)
           /\ \A p \in QueueFor(i) : p = n
           /\ ses[i].st = "ask" /\ res.q[n].mode >= ses[i].mode
<1>1. MsgFor(i) = {} /\ (\A p \in QueueFor(i) : p = n) /\ ses[i].st = "ask"
  BY DEF Orderly, Alone
<1>2. res.q[n].mode >= ses[i].mode
  BY DEF Orderly, Wants
<1> QED BY <1>1, <1>2 DEF MsgFor

\* The requests that stay in the queue move up.
LEMMA ShiftedQueue ==
    ASSUME NEW j \in Inst, NEW d \in Nat, Shifted(res.q, res'.q, d)
    PROVE  \A n \in QueueFor(j)' : n + d \in QueueFor(j) /\ res'.q[n] = res.q[n + d]
BY DEF QueueFor, Shifted

\* E is the error for the request at place k + 2, or empty.
Refusal(E, k, d) ==
    /\ \A e, f \in E : e = f
    /\ \A e \in E : e.t = "err" /\ e.to \in Inst /\ d = k + 2 /\ k + 2 \in QueueFor(e.to)

\* The next request, of instance i at place k + 1, leaves the queue, and with it
\* one that conflicts, whose instance gets an error: the others stay in order,
\* and i had its request in the queue only.
LEMMA NextServed ==
    ASSUME TypeOK, TypeOK', Ordered, ses' = ses, ctrl' = ctrl,
           NEW d \in Nat, NEW k \in Nat, d >= k + 1, Shifted(res.q, res'.q, d),
           NEW i \in Inst, k + 1 \in QueueFor(i),
           NEW E, Refusal(E, k, d),
           \A n \in msgs' : n \in msgs \/ n \in E \/ (Token(n) /\ For(n) = i),
           \A s \in inv' : Serves(s) => s.req.inst = i
    PROVE  /\ \A j \in Inst : j # i => Orderly(j)'
           /\ \A n \in msgs \cup E : ~ (Token(n) /\ For(n) = i)
           /\ QueueFor(i)' = {} /\ ses[i].st = "ask" /\ LatchOK(i)'
           /\ res.q[k + 1].mode >= ses[i].mode
<1>0. /\ \A e, f \in E : e = f
      /\ \A e \in E : e.t = "err" /\ e.to \in Inst /\ d = k + 2 /\ k + 2 \in QueueFor(e.to)
  BY DEF Refusal
<1>1. \A j \in Inst : Orderly(j) /\ LatchOK(j)'
  BY LatchesKept DEF Ordered
<1>2. \A j \in Inst : \A n \in QueueFor(j)' : n + d \in QueueFor(j) /\ res'.q[n] = res.q[n + d]
  BY ShiftedQueue
<1>3. \A j \in Inst : \A n \in QueueFor(j)' : n \in Nat /\ n >= 1
  BY DEF QueueFor, TypeOK, BufRes
<1>4. /\ \A n \in msgs : ~ (Token(n) /\ For(n) = i)
      /\ \A p \in QueueFor(i) : p = k + 1
      /\ ses[i].st = "ask" /\ res.q[k + 1].mode >= ses[i].mode
  BY <1>1, OnlyQueue
<1>5. QueueFor(i)' = {}
  <2> SUFFICES ASSUME NEW n \in QueueFor(i)' PROVE FALSE
    OBVIOUS
  <2>1. n + d = k + 1 /\ n \in Nat /\ n >= 1
    BY <1>2, <1>3, <1>4
  <2> QED BY <2>1
<1>6. \A e \in E : Token(e) /\ For(e) = e.to
  BY <1>0, ForWhom DEF Replies
<1>7. \A e \in E : For(e) # i
  <2> SUFFICES ASSUME NEW e \in E, e.to = i PROVE FALSE
    BY <1>6
  <2>1. k + 2 = k + 1
    BY <1>0, <1>4
  <2> QED BY <2>1
<1>8. ASSUME NEW j \in Inst, j # i
      PROVE  Orderly(j)'
  <2>1. \A s \in inv' : ~ (Serves(s) /\ s.req.inst = j)
    BY <1>8
  <2>2. CASE \A e \in E : e.to # j
    <3>1. \A n \in msgs' : Token(n) /\ For(n) = j => n \in msgs
      BY <1>6, <1>8, <2>2
    <3> QED BY <1>1, <1>2, <2>1, <3>1, OrderlyShifted
  <2>3. ASSUME NEW e \in E, e.to = j
        PROVE  Orderly(j)'
    <3>1. d = k + 2 /\ k + 2 \in QueueFor(j) /\ e.t = "err"
      BY <1>0, <2>3
    <3>2. /\ \A n \in msgs : ~ (Token(n) /\ For(n) = j)
          /\ \A p \in QueueFor(j) : p = k + 2
          /\ ses[j].st = "ask"
      BY <1>1, <3>1, OnlyQueue
    <3>3. QueueFor(j)' = {}
      <4> SUFFICES ASSUME NEW n \in QueueFor(j)' PROVE FALSE
        OBVIOUS
      <4>1. n + d = k + 2 /\ n \in Nat /\ n >= 1
        BY <1>2, <1>3, <3>2
      <4> QED BY <3>1, <4>1
    <3>4. \A n \in msgs' : Token(n) /\ For(n) = j => n = e
      BY <1>0, <1>8, <3>2
    <3> QED BY <1>1, <2>1, <3>1, <3>2, <3>3, <3>4, OrderlyMsg
  <2> QED BY <2>2, <2>3
<1> QED BY <1>1, <1>4, <1>5, <1>7, <1>8

\* A claim with nothing to convert after it.
LEMMA ClaimLast ==
    ASSUME IInv, IInv', Safe, ~ panic, NEW m \in msgs, m.t = "claim",
           NEW rs, rs = drc_claim_new_page_owner(res, m),
           res'.used, res'.owner = rs.owner, res'.copies = rs.copies, res'.q = <<>>,
           inv' = inv, Exchange(m, {}), ctrl' = ctrl, ses' = ses
    PROVE  Safe'
<1>1. TypeOK /\ TypeOK' /\ Ordered /\ Global
  BY SafeParts DEF IInv
<1>2. AtRest(msgs \ {m}) /\ inv = {}
  BY RestClaim
<1>3. \A n \in msgs' : n \in msgs /\ n # m
  BY Network
<1>4. \A n \in msgs' : n.t \in Work => n.t = "load"
  BY <1>2, <1>3 DEF AtRest, Work
<1>5. /\ \A n \in msgs : n.t = "load" => n.to = rs.owner
      /\ \A j \in Inst : Holds(j) => j = rs.owner \/ j \in rs.copies
      /\ \A j \in Inst : HoldsX(j) => j = rs.owner
      /\ \A j \in Inst : ctrl[j].lock # DRC_LOCK_NULL /\ ctrl[j].edp =>
            ctrl[j].lock = DRC_LOCK_SHARE /\ j # rs.owner
  BY <1>1, ClaimKnows
<1>6. \A j \in Inst : (Holds(j)' => Holds(j)) /\ (HoldsX(j)' => HoldsX(j))
  BY <1>3, HoldsLess
<1>7. ASSUME NEW j \in Inst
      PROVE  Orderly(j)'
  <2>1. Orderly(j) /\ LatchOK(j)'
    BY <1>1, LatchesKept DEF Ordered
  <2>2. QueueFor(j)' = {}
    BY DEF QueueFor
  <2>3. 0 \in Nat /\ \A n \in QueueFor(j)' : n + 0 \in QueueFor(j) /\ res'.q[n] = res.q[n + 0]
    BY <2>2
  <2> QED BY <1>1, <1>2, <1>3, <2>1, <2>3, OrderlyShifted
<1>8. Serving'
  BY <1>2, <1>3, <1>4, <1>5 DEF Serving, Work
<1>9. Power'
  BY <1>1, <1>5, <1>6 DEF Global, Power
<1>10. Giving'
  BY <1>2, <1>4 DEF Giving, Work
<1>11. Claims'
  BY <1>4 DEF Claims, Work
<1>12. EdpSound'
  BY <1>4, <1>5 DEF EdpSound, Work
<1> QED BY <1>7, <1>8, <1>9, <1>10, <1>11, <1>12 DEF Safe

\* A claim with a request r to convert after it, the one of instance i at place
\* k + 1 of the queue.
LEMMA ClaimNext ==
    ASSUME IInv, IInv', Safe, ~ panic, NEW m \in msgs, m.t = "claim",
           NEW rs, rs = drc_claim_new_page_owner(res, m),
           NEW n, n.owner = rs.owner, n.copies = rs.copies,
           res'.used, res'.owner = rs.owner, res'.copies = rs.copies,
           NEW k \in Nat, NEW d \in Nat, d >= k + 1, Shifted(res.q, res'.q, d),
           NEW i \in Inst, k + 1 \in QueueFor(i),
           NEW r, r = res.q[k + 1], res'.conv = r,
           NEW E, Refusal(E, k, d),
           NEW self, Convert(m, n, r, FALSE, "claim", self, E),
           ctrl' = ctrl, ses' = ses
    PROVE  Safe'
<1>1. TypeOK /\ TypeOK' /\ Ordered /\ Global
  BY SafeParts DEF IInv
<1>2. AtRest(msgs \ {m}) /\ inv = {}
  BY RestClaim
<1>3. r.inst = i
  BY DEF QueueFor
<1>4. /\ \A x \in msgs : x.t = "load" => x.to = rs.owner
      /\ \A j \in Inst : Holds(j) => j = rs.owner \/ j \in rs.copies
      /\ \A j \in Inst : HoldsX(j) => j = rs.owner
      /\ \A j \in Inst : ctrl[j].lock # DRC_LOCK_NULL /\ ctrl[j].edp =>
            ctrl[j].lock = DRC_LOCK_SHARE /\ j # rs.owner
  BY <1>1, ClaimKnows
<1>5. (\E x : IntoRound(x, m, n, r, E)) \/ (\E y : ToOwner(y, m, n, r, E))
  BY ConvertWays
<1>6. Ordered' /\ \A x \in msgs' : x.t # "claim"
  <2>1. CASE \E x : IntoRound(x, m, n, r, E)
    <3>1. PICK x : /\ inv' = {x} /\ x.req = r
                   /\ \A p \in msgs' : (p \in msgs /\ p # m) \/ p \in E
      BY <1>2, <2>1 DEF IntoRound
    <3>2. /\ \A p \in msgs' : p \in msgs \/ p \in E \/ (Token(p) /\ For(p) = i)
          /\ \A s \in inv' : Serves(s) => s.req.inst = i
      BY <1>3, <3>1
    <3>3. /\ \A j \in Inst : j # i => Orderly(j)'
          /\ \A p \in msgs \cup E : ~ (Token(p) /\ For(p) = i)
          /\ QueueFor(i)' = {} /\ ses[i].st = "ask" /\ LatchOK(i)'
          /\ r.mode >= ses[i].mode
      BY <1>1, <3>2, NextServed
    <3>4. \A p \in msgs' : ~ (Token(p) /\ For(p) = i)
      BY <3>1, <3>3
    <3>5. Orderly(i)'
      BY <3>1, <3>3, <3>4, OrderlyRound
    <3>6. \A p \in msgs' : p.t # "claim"
      BY <1>2, <3>1 DEF AtRest, Refusal
    <3> QED BY <3>3, <3>5, <3>6 DEF Ordered
  <2>2. CASE \E y : ToOwner(y, m, n, r, E)
    <3>1. PICK y : /\ inv' = {}
                   /\ \A p \in msgs' : (p \in msgs /\ p # m) \/ p \in E \/ p = y
                   /\ IF n.owner = r.inst
                      THEN y.t = "already" /\ y.to = r.inst /\ y.mode = r.mode
                      ELSE y.t = "own" /\ y.to = n.owner /\ y.req = r
      BY <1>2, <2>2 DEF ToOwner
    <3>2. Token(y) /\ For(y) = i /\ y.t # "claim"
      BY <1>3, <3>1, ForWhom DEF Replies
    <3>3. /\ \A p \in msgs' : p \in msgs \/ p \in E \/ (Token(p) /\ For(p) = i)
          /\ \A s \in inv' : Serves(s) => s.req.inst = i
      BY <3>1, <3>2
    <3>4. /\ \A j \in Inst : j # i => Orderly(j)'
          /\ \A p \in msgs \cup E : ~ (Token(p) /\ For(p) = i)
          /\ QueueFor(i)' = {} /\ ses[i].st = "ask" /\ LatchOK(i)'
          /\ r.mode >= ses[i].mode
      BY <1>1, <3>3, NextServed
    <3>5. \A p \in msgs' : Token(p) /\ For(p) = i => p = y
      BY <3>1, <3>4
    <3>6. /\ y.t \in {"ask", "own"} => y.req.mode >= ses'[i].mode
          /\ y.t \in {"already", "page"} => y.mode >= ses'[i].mode
      BY <3>1, <3>4
    <3>7. Orderly(i)'
      BY <3>1, <3>4, <3>5, <3>6, OrderlyMsg
    <3>8. \A p \in msgs' : p.t # "claim"
      BY <1>2, <3>1, <3>2 DEF AtRest, Refusal
    <3> QED BY <3>4, <3>7, <3>8 DEF Ordered
  <2> QED BY <1>5, <2>1, <2>2
<1>7. Global' /\ Claims'
  <2>1. \A j, p \in Inst : HoldsX(j) /\ Holds(p) => j = p
    BY <1>1 DEF Global, Power
  <2>2. Knows(n, r) /\ Errors(E)
    BY <1>4, <2>1 DEF Knows, Errors, Refusal
  <2> QED BY <1>1, <1>2, <2>2, ConvertGlobal
<1>8. EdpSound'
  BY <1>4, <1>6 DEF EdpSound
<1> QED BY <1>6, <1>7, <1>8 DEF Safe, Ordered, Global

\* A claim changes the owner or adds a copy, and the next request is converted
\* (drc_claim_page_owner).
LEMMA SafeClaim ==
    ASSUME IInv, IInv', Safe, NEW i \in Inst, ProcClaim(i)
    PROVE  Safe'
<1>1. TypeOK /\ Ordered /\ Claims /\ EntrySound /\ res \in BufRes
  BY SafeParts DEF IInv, CatalogueSound, TypeOK
<1> DEFINE Refused(n) == IF FirstConflicts(n) THEN {Reply("err", Head(n.q))} ELSE {}
<1>2. PICK m \in msgs, k \in 0 .. Len(res.q) :
        /\ m.t = "claim" /\ ~ ClaimIgnored(m)
        /\ LET n == drc_pop_request(drc_claim_new_page_owner(res, m), k)
           IN  /\ res' = drc_check_first_req_in_convert_queue(n)
               /\ IF Converting(n)
                  THEN Convert(m, n, n.conv, FALSE, "claim", i = Master, Refused(n))
                  ELSE inv' = inv /\ Exchange(m, {})
  BY Zenon DEF ProcClaim
<1>3. ~ panic /\ ctrl' = ctrl /\ ses' = ses
  BY DEF ProcClaim, Running
<1>4. PICK rs : rs = drc_claim_new_page_owner(res, m)
  OBVIOUS
<1>5. PICK n : n = drc_pop_request(rs, k)
  OBVIOUS
<1>6. rs \in BufRes /\ rs.used /\ rs.q = res.q
  <2>1. res.used /\ res.owner \in Inst
    BY <1>1, <1>2 DEF ClaimIgnored, EntrySound
  <2>2. m.inst \in Inst /\ m.mode \in ReqMode /\ m.lsn \in Nat /\ m.edp \in BOOLEAN
    BY <1>1, <1>2, MsgFields DEF TypeOK
  <2> QED BY <1>1, <1>4, <2>1, <2>2, ClaimType
<1>7. /\ res' = drc_check_first_req_in_convert_queue(n)
      /\ Converting(n) => Convert(m, n, n.conv, FALSE, "claim", i = Master, Refused(n))
      /\ ~ Converting(n) => inv' = inv /\ Exchange(m, {})
  BY <1>2, <1>4, <1>5
<1> HIDE DEF Refused
<1>8. /\ res'.used /\ res'.owner = rs.owner /\ res'.copies = rs.copies /\ res'.conv = n.conv
      /\ n.owner = rs.owner /\ n.copies = rs.copies
      /\ ~ Converting(n) => res'.q = <<>>
      /\ Converting(n) =>
           /\ k + 1 \in 1 .. Len(res.q) /\ n.conv = res.q[k + 1]
           /\ \E d \in Nat : /\ d >= k + 1 /\ Shifted(res.q, res'.q, d)
                             /\ FirstConflicts(n) =>
                                  /\ d = k + 2 /\ k + 2 \in 1 .. Len(res.q)
                                  /\ Head(n.q) = res.q[k + 2]
  BY <1>5, <1>6, <1>7, PopFields
<1>9. CASE ~ Converting(n)
  BY <1>2, <1>3, <1>4, <1>7, <1>8, <1>9, ClaimLast
<1>10. CASE Converting(n)
  <2>1. PICK d \in Nat : /\ d >= k + 1 /\ Shifted(res.q, res'.q, d)
                         /\ FirstConflicts(n) =>
                              /\ d = k + 2 /\ k + 2 \in 1 .. Len(res.q)
                              /\ Head(n.q) = res.q[k + 2]
    BY <1>8, <1>10
  <2>2. k \in Nat /\ \A p \in 1 .. Len(res.q) : res.q[p].inst \in Inst
    BY <1>1, ReqFields DEF BufRes
  <2>3. PICK j \in Inst : j = res.q[k + 1].inst
    BY <1>8, <1>10, <2>2
  <2>4. k + 1 \in QueueFor(j)
    BY <1>8, <1>10, <2>3 DEF QueueFor
  <2>5. PICK E : E = Refused(n)
    OBVIOUS
  <2>6. \A e, f \in E : e = f
    BY <2>5 DEF Refused
  <2>7. \A e \in E : e.t = "err" /\ e.to \in Inst /\ d = k + 2 /\ k + 2 \in QueueFor(e.to)
    <3> SUFFICES ASSUME NEW e \in E
                 PROVE  e.t = "err" /\ e.to \in Inst /\ d = k + 2 /\ k + 2 \in QueueFor(e.to)
      OBVIOUS
    <3>1. FirstConflicts(n) /\ e = Reply("err", Head(n.q))
      BY <2>5 DEF Refused
    <3>2. e.t = "err" /\ e.to = Head(n.q).inst
      BY <3>1, SentFields
    <3> QED BY <2>1, <2>2, <3>1, <3>2 DEF QueueFor
  <2>8. PICK r : r = res.q[k + 1]
    OBVIOUS
  <2>9. r = n.conv /\ res'.conv = r /\ Convert(m, n, r, FALSE, "claim", i = Master, E)
    BY <1>7, <1>8, <1>10, <2>5, <2>8
  <2>10. Refusal(E, k, d)
    BY <2>6, <2>7 DEF Refusal
  <2> QED BY <1>2, <1>3, <1>4, <1>8, <2>1, <2>2, <2>4, <2>8, <2>9, <2>10, ClaimNext
<1> QED BY <1>9, <1>10

-----------------------------------------------------------------------------
(***************************************************************************)
(* The theorems.                                                           *)
(***************************************************************************)
\* At the start nobody works on the page.
LEMMA SafeInit == Init => Safe
<1> SUFFICES ASSUME Init PROVE Safe
  OBVIOUS
<1>1. msgs = {} /\ inv = {} /\ res = NoRes /\ res.q = <<>> /\ ~ res.used
  BY NoResType DEF Init
<1>2. \A i \in Inst : ses[i].st = "idle" /\ ctrl[i] = NoCtrl
  BY DEF Init
<1>3. NoCtrl.lock = DRC_LOCK_NULL
  BY DEF NoCtrl
<1>4. ASSUME NEW i \in Inst
      PROVE  Orderly(i)
  <2>1. MsgFor(i) = {} /\ RoundFor(i) = {} /\ QueueFor(i) = {}
    BY <1>1 DEF MsgFor, RoundFor, QueueFor
  <2>2. LatchOK(i)
    BY <1>2, <1>3 DEF LatchOK
  <2> QED BY <2>1, <2>2 DEF Orderly, Alone, Wants
<1>5. \A i \in Inst : ~ Holds(i) /\ ~ HoldsX(i)
  BY <1>1, <1>2, <1>3 DEF Holds, HoldsX, DRC_LOCK_NULL, DRC_LOCK_EXCLUSIVE
<1>6. Serving /\ Claims /\ Giving
  BY <1>1 DEF Serving, Claims, Giving
<1>7. Power /\ EdpSound
  BY <1>2, <1>3, <1>5 DEF Power, EdpSound
<1> QED BY <1>4, <1>6, <1>7 DEF Safe

\* Every step keeps the invariant, unless a request times out or overtakes a
\* claim of its instance.
LEMMA SafeNext ==
    ASSUME IInv, IInv', Safe, Prompt, [Next]_vars
    PROVE  Safe'
<1>1. ASSUME NEW i \in Inst, Session(i) \/ LeavePage(i)
      PROVE  Safe'
  <2>1. ~ RequestTimeout(i)
    BY DEF RequestTimeout, Prompt
  <2>2. CASE \E mode \in ReqMode : EnterLocal(i, mode) \/ EnterRemote(i, mode)
    BY <2>2, SafeEnter
  <2>3. CASE ModifyPage(i) \/ Evict(i) \/ LeavePage(i)
    BY <2>3, SafeLeave
  <2> QED BY <1>1, <2>1, <2>2, <2>3 DEF Session
<1>2. ASSUME NEW i \in Inst, Answer(i)
      PROVE  Safe'
  BY <1>2, SafeError, SafeTaken DEF Answer
<1>3. ASSUME NEW i \in Inst, MasterAsk(i)
      PROVE  Safe'
  BY <1>3, SafeGranted, SafeRejected, SafeConverting, SafeRetried, SafeQueued DEF MasterAsk
<1>4. ASSUME NEW i \in Inst, MasterClaim(i)
      PROVE  Safe'
  BY <1>4, SafeClaim, SafeClaimIgnored DEF MasterClaim
<1>5. ASSUME NEW i \in Inst, Ckpt(i) \/ CkptWrite(i)
      PROVE  Safe'
  BY <1>5, SafeCkpt, SafeAnnounce DEF Ckpt
<1>6. ASSUME NEW i \in Inst, NodeStep(i)
      PROVE  Safe'
  BY <1>1, <1>2, <1>3, <1>4, <1>5, <1>6, SafeInvalidate, SafeTransfer DEF NodeStep
<1>7. ASSUME Recycle
      PROVE  Safe'
  BY <1>7, SafeRecycleStart, SafeRecycleOwner, SafeRecycleDone DEF Recycle
<1>8. CASE Next
  BY <1>5, <1>6, <1>7, <1>8, SafeRoundDone, SafeAnnounce, Zenon DEF Next
<1>9. CASE UNCHANGED vars
  <2>1. UNCHANGED <<res, inv, ctrl, ses, msgs, panic>>
    BY <1>9 DEF vars
  <2>2. \A i \in Inst : MsgFor(i)' = MsgFor(i) /\ RoundFor(i)' = RoundFor(i) /\ QueueFor(i)' = QueueFor(i)
    BY <2>1 DEF MsgFor, RoundFor, QueueFor, Token, For, Serves, IsRecycle
  <2>3. \A i \in Inst : Orderly(i)'
    BY <2>1, <2>2 DEF Safe, Orderly, Alone, LatchOK, Wants
  <2>4. \A i : (Holds(i)' <=> Holds(i)) /\ (HoldsX(i)' <=> HoldsX(i))
    BY <2>1 DEF Holds, HoldsX
  <2>5. Serving' /\ Power' /\ Giving' /\ EdpSound'
    BY <2>1, <2>4 DEF Safe, Serving, Power, Giving, EdpSound, Serves, IsRecycle
  <2>6. Claims'
    <3>1. \A m \in msgs : m.t = "claim" => m.inst \in Inst
      BY MsgFields DEF IInv, TypeOK
    <3> QED BY <2>1, <2>2, <3>1 DEF Safe, Claims
  <2> QED BY <2>3, <2>5, <2>6 DEF Safe
<1> QED BY <1>8, <1>9

\* Everything that is reachable without a timeout or an overtaken claim
\* satisfies the invariant.
LEMMA AlwaysSafe == Spec => [](Prompt => Safe)
<1>1. Init => (Prompt => Safe)
  BY SafeInit
<1>2. IInv /\ IInv' /\ (Prompt => Safe) /\ [Next]_vars => (Prompt => Safe)'
  BY SafeNext DEF Prompt
<1> QED BY <1>1, <1>2, AlwaysIInv, PTL DEF Spec

\* While a session uses the page exclusively no session of another instance
\* uses it, in a cluster of any size, with evictions, checkpoints and recycling
\* of the entry at any moment, as long as no request times out and a claim
\* reaches the master before later requests of its instance
\* (dcs_request_page, dcs_owner_transfer_page, dcs_invalidate_readonly_copy).
THEOREM OneWriter == Spec => [](Prompt => SingleWriter)
<1>1. ASSUME IInv, Safe PROVE SingleWriter
  <2> SUFFICES ASSUME NEW i \in Inst, NEW j \in Inst, i # j,
                      Using(i, DRC_LOCK_EXCLUSIVE), ses[j].st = "got"
               PROVE  FALSE
    BY DEF SingleWriter
  <2>1. LatchOK(i) /\ LatchOK(j)
    BY <1>1 DEF Safe, Orderly
  <2>2. ctrl[i].lock \in LockMode /\ ctrl[j].lock \in LockMode
    BY <1>1 DEF IInv, TypeOK, BufCtrl
  <2>3. ctrl[i].lock = DRC_LOCK_EXCLUSIVE
    BY <2>1, <2>2 DEF Using, LatchOK, LockMode, DRC_LOCK_EXCLUSIVE
  <2>4. ctrl[j].lock # DRC_LOCK_NULL
    BY <2>1, <2>2 DEF LatchOK, LockMode, ReqMode, DRC_LOCK_NULL, DRC_LOCK_SHARE, DRC_LOCK_EXCLUSIVE
  <2>5. HoldsX(i) /\ Holds(j)
    BY <2>3, <2>4 DEF HoldsX, Holds
  <2> QED BY <1>1, <2>5 DEF Safe, Power
<1>2. IInv /\ (Prompt => Safe) => (Prompt => SingleWriter)
  BY <1>1
<1> QED BY <1>2, AlwaysIInv, AlwaysSafe, PTL

\* Under the same assumptions the master knows every instance that may use the
\* page without asking: as the owner, as the holder of a copy, or as the one
\* whose request it converts (drc_claim_new_page_owner, drc_recycle_items).
THEOREM DirectoryCovers == Spec => [](Prompt => DirCovers)
<1>1. (Prompt => Safe) => (Prompt => DirCovers)
  BY DEF Safe, Power, Holds, DirCovers
<1> QED BY <1>1, AlwaysSafe, PTL

\* Under the same assumptions the entry goes on converting the request that
\* copies are invalidated for, so that no copy given later is forgotten at the
\* end of the round (drc_request_page_owner, drc_claim_page_owner).
THEOREM RoundsConvert == Spec => [](Prompt => RoundEntryConverting)
<1>1. ASSUME IInv, Safe PROVE RoundEntryConverting
  <2> SUFFICES ASSUME NEW r \in inv, r.kind \in {"ask", "claim"}
               PROVE  Converting(res) /\ res.conv.inst = r.req.inst
    BY DEF RoundEntryConverting
  <2>1. Serves(r)
    BY DEF Serves, IsRecycle
  <2>2. r.req = res.conv /\ r.req \in ReqInfo
    BY <1>1, <2>1 DEF Safe, Serving, IInv, CatalogueSound, RoundsSound, Serves
  <2> QED BY <1>1, <2>2, ConvertingReq DEF IInv, TypeOK
<1>2. IInv /\ (Prompt => Safe) => (Prompt => RoundEntryConverting)
  BY <1>1
<1> QED BY <1>2, AlwaysIInv, AlwaysSafe, PTL
=============================================================================
