-------------------------- MODULE ChatRealtimeProofs --------------------------
(***************************************************************************)
(* Proofs about Chat, for any number of requests, devices, users, keys,    *)
(* conversations, messages and faults.                                     *)
(*                                                                         *)
(* The messages: whoever has the next number of a conversation is alone in *)
(* its transaction, and holds the number after the last committed one, so  *)
(* messages become visible in the order of their numbers (Relay).  The     *)
(* prekeys: every upload of one is in the pool, on its way to one peer, or *)
(* spent (Supply).                                                         *)
(*                                                                         *)
(* Proofs about RealtimeHub, for any number of instances, clients, buffer  *)
(* slots, changes and losses: typing, that nothing is sent on a closed     *)
(* channel, and that the events of an instance stay in order.              *)
(*                                                                         *)
(* Order is an invariant of the whole way of an instance's events to a     *)
(* client: what the client has received, its send channel, the broadcast   *)
(* channel of its hub, what Redis has for that hub and what the instance   *)
(* has still to take. Every step moves the first event of one stage to the *)
(* end of the next that is not empty, thins a stage, or adds an event that *)
(* is newer than all or of another instance.                               *)
(***************************************************************************)
EXTENDS Chat, RealtimeHub, SequenceTheorems, FiniteSetTheorems, TLAPS

\* What the fields of a request hold, by what it does.
FieldsOf(q) ==
    /\ q.op = "send" => q.dev \in Devices /\ q.conv \in Convs
                        /\ q.cid \in ClientIds
    /\ q.op \in {"bundle", "topup"} => q.dev \in Devices
    /\ q.op = "bundle" /\ q.step = "take" => q.key \in KeyIds
    /\ q.op = "bundle" /\ q.step \in {"device", "select"} => q.key = None
    /\ q.op = "ack" =>
           [conv |-> q.conv, seq |-> q.seq, dev |-> q.dev] \in DOMAIN receipts

Fields == \A r \in Requests : FieldsOf(req[r])

\* A request outside of the transaction of a send, and one that holds no prekey.
Calm(q) == q.op = "send" => q.step \notin {"message", "copies", "answer"}
Empty(q) == q.op = "bundle" => q.step \notin {"take", "count"}

\* The request of r becomes a calm and empty one.
Simple(r) ==
    \E q \in RequestType :
        /\ FieldsOf(q) /\ Calm(q) /\ Empty(q)
        /\ req' = [req EXCEPT ![r] = q]

Base == TypeOK /\ Fields
-----------------------------------------------------------------------------
(* Types and fields.                                                       *)

LEMMA IdleType ==
    Idle \in RequestType /\ FieldsOf(Idle) /\ Calm(Idle) /\ Empty(Idle)
  BY BoundsAssumption DEF BoundsAssumption, Idle, RequestType, FieldsOf, Calm,
     Empty, Identities, Marks

LEMMA OneRequest ==
    ASSUME TypeOK, NEW r \in Requests, NEW q \in RequestType,
           req' = [req EXCEPT ![r] = q]
    PROVE  /\ req' \in [Requests -> RequestType]
           /\ req'[r] = q
           /\ \A s \in Requests \ {r} : req'[s] = req[s]
  BY DEF TypeOK

LEMMA FieldsStep ==
    ASSUME Base, NEW r \in Requests, NEW q \in RequestType, FieldsOf(q),
           req' = [req EXCEPT ![r] = q], DOMAIN receipts \subseteq DOMAIN receipts'
    PROVE  Fields'
<1>1. /\ req'[r] = q
      /\ \A s \in Requests \ {r} : req'[s] = req[s]
  BY OneRequest DEF Base
<1>2. ASSUME NEW s \in Requests
      PROVE  FieldsOf(req[s])'
  <2>1. CASE s = r
    BY <2>1, <1>1 DEF FieldsOf
  <2>2. CASE s # r
    BY <2>2, <1>1 DEF FieldsOf, Base, Fields
  <2> QED
    BY <2>1, <2>2
<1> QED
  BY <1>2 DEF Fields

\* A request that moves on, or ends.
LEMMA GotoStep ==
    ASSUME Base, NEW r \in Requests, NEW step, Goto(r, step),
           \/ step \in {"idle", "owned", "insert", "count", "find", "sender",
                        "dedupe", "targets", "assign",
                        "message", "copies", "answer", "update"}
           \/ step = "select" /\ At(r, "bundle", "device")
    PROVE  \E q \in RequestType :
               /\ FieldsOf(q)
               /\ q = [req[r] EXCEPT !.step = step]
               /\ req' = [req EXCEPT ![r] = q]
<1> DEFINE q == [req[r] EXCEPT !.step = step]
<1>1. req[r] \in RequestType /\ FieldsOf(req[r])
  BY DEF Base, TypeOK, Fields
<1>2. q \in RequestType
  BY <1>1 DEF RequestType
<1>3. FieldsOf(q)
  BY <1>1 DEF FieldsOf, RequestType, At
<1>4. req' = [req EXCEPT ![r] = q]
  BY DEF Goto
<1> QED
  BY <1>2, <1>3, <1>4

LEMMA SimpleGoto ==
    ASSUME Base, NEW r \in Requests, NEW step, Goto(r, step),
           \/ step \in {"insert", "dedupe", "targets", "assign"}
           \/ step = "update" /\ req[r].op # "send"
    PROVE  Simple(r)
<1>1. PICK q \in RequestType :
          /\ FieldsOf(q)
          /\ q = [req[r] EXCEPT !.step = step]
          /\ req' = [req EXCEPT ![r] = q]
  BY GotoStep
<1>2. q.step = step
  BY <1>1 DEF Base, TypeOK, RequestType
<1>3. Calm(q) /\ Empty(q)
  BY <1>2 DEF Calm, Empty
<1> QED
  BY <1>1, <1>3 DEF Simple

LEMMA SimpleEnd ==
    ASSUME NEW r \in Requests, End(r)
    PROVE  Simple(r)
  BY IdleType DEF End, Simple

\* A simple step of a request keeps the types and the fields, when it leaves
\* the receipts alone.
LEMMA SimpleFields ==
    ASSUME Base, NEW r \in Requests, Simple(r),
           DOMAIN receipts \subseteq DOMAIN receipts'
    PROVE  req' \in [Requests -> RequestType] /\ Fields'
<1>1. PICK q \in RequestType :
          FieldsOf(q) /\ req' = [req EXCEPT ![r] = q]
  BY DEF Simple
<1> QED
  BY <1>1, OneRequest, FieldsStep DEF Base

\* What clients ask for.
LEMMA AskSimple ==
    ASSUME Base, NEW r \in Requests, AskAny(r)
    PROVE  Simple(r) /\ UNCHANGED <<deviceVars, chatVars, readerVars>>
<1>1. ASSUME AskTopUp(r) PROVE Simple(r) /\ UNCHANGED <<deviceVars, chatVars, readerVars>>
  <2>1. PICK d \in Devices, ks \in SUBSET KeyIds :
            Start(r, [Idle EXCEPT !.op = "topup", !.step = "owned", !.dev = d,
                              !.keys = ks, !.identity = device[d].identity])
    BY <1>1 DEF AskTopUp
  <2> DEFINE q == [Idle EXCEPT !.op = "topup", !.step = "owned", !.dev = d,
                              !.keys = ks, !.identity = device[d].identity]
  <2>2. device[d].identity \in Identities
    BY DEF Base, TypeOK
  <2>3. q \in RequestType
    BY <2>2, IdleType DEF Idle, RequestType
  <2>4. FieldsOf(q) /\ Calm(q) /\ Empty(q)
    BY DEF FieldsOf, Calm, Empty, Idle
  <2>5. req' = [req EXCEPT ![r] = q]
    BY <2>1 DEF Start
  <2> QED
    BY <2>1, <2>3, <2>4, <2>5 DEF Simple, Start
<1>2. ASSUME AskBundle(r) PROVE Simple(r) /\ UNCHANGED <<deviceVars, chatVars, readerVars>>
  <2>1. PICK d \in Devices :
            Start(r, [Idle EXCEPT !.op = "bundle", !.step = "device", !.dev = d])
    BY <1>2 DEF AskBundle
  <2> DEFINE q == [Idle EXCEPT !.op = "bundle", !.step = "device", !.dev = d]
  <2>2. q \in RequestType /\ FieldsOf(q) /\ Calm(q) /\ Empty(q)
    BY IdleType DEF FieldsOf, Calm, Empty, Idle, RequestType
  <2> QED
    BY <2>1, <2>2 DEF Simple, Start
<1>3. ASSUME AskCreate(r) PROVE Simple(r) /\ UNCHANGED <<deviceVars, chatVars, readerVars>>
  <2>1. PICK u \in Users, v \in Users :
            Start(r, [Idle EXCEPT !.op = "create", !.step = "find",
                                 !.users = {u, v}])
    BY <1>3 DEF AskCreate
  <2> DEFINE q == [Idle EXCEPT !.op = "create", !.step = "find", !.users = {u, v}]
  <2>2. q \in RequestType
    BY IdleType DEF Idle, RequestType
  <2>3. FieldsOf(q) /\ Calm(q) /\ Empty(q)
    BY DEF FieldsOf, Calm, Empty, Idle
  <2> QED
    BY <2>1, <2>2, <2>3 DEF Simple, Start
<1>4. ASSUME AskSend(r) PROVE Simple(r) /\ UNCHANGED <<deviceVars, chatVars, readerVars>>
  <2>1. PICK c \in Convs, s \in Sends :
            Start(r, [Idle EXCEPT !.op = "send", !.step = "sender",
                                 !.dev = s.dev, !.conv = c, !.cid = s.cid,
                                 !.targets = s.targets])
    BY <1>4 DEF AskSend
  <2> DEFINE q == [Idle EXCEPT !.op = "send", !.step = "sender",
                                 !.dev = s.dev, !.conv = c, !.cid = s.cid,
                                 !.targets = s.targets]
  <2>2. s.dev \in Devices /\ s.cid \in ClientIds /\ s.targets \in SUBSET Devices
    BY SendsAssumption DEF SendsAssumption
  <2>3. q \in RequestType
    BY <2>2, IdleType DEF Idle, RequestType
  <2>4. FieldsOf(q) /\ Calm(q) /\ Empty(q)
    BY <2>2 DEF FieldsOf, Calm, Empty, Idle
  <2> QED
    BY <2>1, <2>3, <2>4 DEF Simple, Start
<1>5. ASSUME AskAck(r) PROVE Simple(r) /\ UNCHANGED <<deviceVars, chatVars, readerVars>>
  <2>1. PICK x \in DOMAIN receipts, mark \in {"delivered", "read"} :
            Start(r, [Idle EXCEPT !.op = "ack", !.step = "owned", !.dev = x.dev,
                                 !.conv = x.conv, !.seq = x.seq, !.mark = mark])
    BY <1>5 DEF AskAck
  <2> DEFINE q == [Idle EXCEPT !.op = "ack", !.step = "owned", !.dev = x.dev,
                                 !.conv = x.conv, !.seq = x.seq, !.mark = mark]
  <2>2. x \in Copies
    BY DEF Base, TypeOK
  <2>3. q \in RequestType
    BY <2>2, IdleType DEF Idle, RequestType, Copies, Marks
  <2>4. x = [conv |-> q.conv, seq |-> q.seq, dev |-> q.dev]
    BY <2>2 DEF Copies, Idle
  <2>5. FieldsOf(q) /\ Calm(q) /\ Empty(q)
    BY <2>4 DEF FieldsOf, Calm, Empty, Idle
  <2> QED
    BY <2>1, <2>3, <2>5 DEF Simple, Start
<1> QED
  BY <1>1, <1>2, <1>3, <1>4, <1>5 DEF AskAny

\* The other steps of requests that are simple.
LEMMA TopUpSimple ==
    ASSUME Base, NEW r \in Requests, TopUpPrekeys(r)
    PROVE  Simple(r) /\ UNCHANGED <<deviceVars, chatVars, readerVars>>
  BY SimpleGoto, SimpleEnd DEF TopUpPrekeys

LEMMA InsertStep ==
    ASSUME Base, NEW d \in Devices, NEW ks \in SUBSET KeyIds,
           NEW g \in Identities, Insert(d, ks, g)
    PROVE  /\ pool' \subseteq Prekeys
           /\ uploaded' \in [Devices -> [KeyIds -> Nat]]
<1>1. pool' \subseteq Prekeys
  BY DEF Insert, Base, TypeOK, Prekeys
<1> DEFINE f == [k \in KeyIds |-> IF k \in {j \in ks : ~Pooled(d, j)}
                                THEN uploaded[d][k] + 1 ELSE uploaded[d][k]]
<1>2. f \in [KeyIds -> Nat]
  BY DEF Base, TypeOK
<1>3. uploaded' = [uploaded EXCEPT ![d] = f]
  BY DEF Insert
<1>4. uploaded' \in [Devices -> [KeyIds -> Nat]]
  <2> HIDE DEF f
  <2> QED
    BY <1>2, <1>3 DEF Base, TypeOK
<1> QED
  BY <1>1, <1>4

LEMMA TopUpOneSimple ==
    ASSUME Base, NEW r \in Requests, TopUpOne(r)
    PROVE  /\ Simple(r)
           /\ req[r].dev \in Devices
           /\ \E k \in KeyIds : Insert(req[r].dev, {k}, req[r].identity)
           /\ req[r].identity \in Identities
           /\ UNCHANGED <<device, handed, bundles, chatVars, readerVars>>
<1>1. req[r] \in RequestType /\ FieldsOf(req[r])
  BY DEF Base, TypeOK, Fields
<1>2. PICK k \in req[r].keys :
          /\ Insert(req[r].dev, {k}, req[r].identity)
          /\ IF req[r].keys = {k} THEN End(r)
             ELSE req' = [req EXCEPT ![r].keys = @ \ {k}]
  BY DEF TopUpOne
<1>3. k \in KeyIds
  BY <1>1, <1>2 DEF RequestType
<1>4. ASSUME req' = [req EXCEPT ![r].keys = @ \ {k}]
      PROVE  Simple(r)
  <2> DEFINE q == [req[r] EXCEPT !.keys = @ \ {k}]
  <2>1. q \in RequestType
    BY <1>1 DEF RequestType
  <2>2. FieldsOf(q) /\ Calm(q) /\ Empty(q)
    BY <1>1 DEF FieldsOf, RequestType, TopUpOne, At, Calm, Empty
  <2>3. req' = [req EXCEPT ![r] = q]
    BY <1>4
  <2> QED
    BY <2>1, <2>2, <2>3 DEF Simple
<1>5. Simple(r)
  BY <1>2, <1>4, SimpleEnd
<1> QED
  BY <1>1, <1>2, <1>3, <1>5 DEF TopUpOne, At, FieldsOf, RequestType

LEMMA GetSimple ==
    ASSUME Base, NEW r \in Requests, GetPrekeyBundle(r)
    PROVE  Simple(r) /\ UNCHANGED <<deviceVars, chatVars, readerVars>>
<1>1. req[r] \in RequestType /\ FieldsOf(req[r]) /\ At(r, "bundle", "device")
  BY DEF Base, TypeOK, Fields, GetPrekeyBundle
<1>2. device[req[r].dev].identity \in Identities
  BY <1>1 DEF Base, TypeOK, FieldsOf, At
<1>3. ASSUME req' = [req EXCEPT ![r].step = "select",
                               ![r].identity = device[req[r].dev].identity]
      PROVE  Simple(r)
  <2> DEFINE q == [req[r] EXCEPT !.step = "select",
                                !.identity = device[req[r].dev].identity]
  <2>1. q \in RequestType
    BY <1>1, <1>2 DEF RequestType
  <2>2. FieldsOf(q) /\ Calm(q) /\ Empty(q)
    BY <1>1 DEF FieldsOf, RequestType, At, Calm, Empty
  <2>3. req' = [req EXCEPT ![r] = q]
    BY <1>3
  <2> QED
    BY <2>1, <2>2, <2>3 DEF Simple
<1> QED
  BY <1>3, SimpleEnd DEF GetPrekeyBundle

LEMMA CreateSimple ==
    ASSUME Base, NEW r \in Requests,
           FindDirectConversation(r) \/ CreateConversation(r)
    PROVE  /\ Simple(r)
           /\ members' \in [Convs -> SUBSET Users]
           /\ UNCHANGED <<deviceVars, nextSeq, messages, receipts, answers,
                          readerVars>>
<1>1. ASSUME FindDirectConversation(r)
      PROVE  Simple(r) /\ UNCHANGED <<deviceVars, chatVars, readerVars>>
  BY <1>1, SimpleGoto, SimpleEnd DEF FindDirectConversation
<1>2. ASSUME CreateConversation(r)
      PROVE  /\ Simple(r) /\ members' \in [Convs -> SUBSET Users]
             /\ UNCHANGED <<deviceVars, nextSeq, messages, receipts, answers,
                            readerVars>>
  <2>1. req[r].users \in SUBSET Users
    BY DEF Base, TypeOK, RequestType
  <2> QED
    BY <1>2, <2>1, SimpleEnd DEF CreateConversation, Base, TypeOK
<1> QED
  BY <1>1, <1>2 DEF chatVars, Base, TypeOK

LEMMA CheckSimple ==
    ASSUME Base, NEW r \in Requests, CheckSender(r) \/ CheckTargets(r)
    PROVE  Simple(r) /\ UNCHANGED <<deviceVars, chatVars, readerVars>>
  BY SimpleGoto, SimpleEnd DEF CheckSender, CheckTargets

LEMMA CheckAckSimple ==
    ASSUME Base, NEW r \in Requests, CheckAck(r)
    PROVE  Simple(r) /\ UNCHANGED <<deviceVars, chatVars, readerVars>>
<1>1. req[r].op # "send"
  BY DEF CheckAck, At
<1> QED
  BY <1>1, SimpleGoto, SimpleEnd DEF CheckAck

LEMMA DedupeSimple ==
    ASSUME Base, NEW r \in Requests, GetMessageByDedupeKey(r)
    PROVE  /\ Simple(r)
           /\ UNCHANGED <<deviceVars, members, nextSeq, messages, receipts,
                          readerVars>>
           /\ \/ UNCHANGED answers
              \/ \E m \in messages : SameSend(req[r], m) /\ AnswerWith(r, m.seq)
  BY SimpleGoto, SimpleEnd DEF GetMessageByDedupeKey

LEMMA AckSimple ==
    ASSUME Base, NEW r \in Requests, AckMessage(r)
    PROVE  /\ Simple(r)
           /\ DOMAIN receipts' = DOMAIN receipts
           /\ receipts' \in [DOMAIN receipts -> Marks]
           /\ UNCHANGED <<deviceVars, members, nextSeq, messages, answers,
                          readerVars>>
<1>1. req[r] \in RequestType /\ FieldsOf(req[r]) /\ At(r, "ack", "update")
  BY DEF Base, TypeOK, Fields, AckMessage
<1>2. [conv |-> req[r].conv, seq |-> req[r].seq, dev |-> req[r].dev]
          \in DOMAIN receipts
  BY <1>1 DEF FieldsOf, At
<1>3. receipts \in [DOMAIN receipts -> Marks] /\ req[r].mark \in Marks
  BY <1>1 DEF Base, TypeOK, RequestType
<1>4. receipts' \in [DOMAIN receipts -> Marks]
  BY <1>2, <1>3 DEF AckMessage
<1> QED
  BY <1>4, SimpleEnd DEF AckMessage

LEMMA SimpleBase ==
    ASSUME Base, NEW r \in Requests, Simple(r),
           UNCHANGED <<deviceVars, chatVars, readerVars>>
    PROVE  Base'
<1>1. req' \in [Requests -> RequestType] /\ Fields'
  BY SimpleFields DEF chatVars
<1> QED
  BY <1>1 DEF Base, TypeOK, deviceVars, chatVars, readerVars

\* The steps that are not simple.
LEMMA SelectBase ==
    ASSUME Base, NEW r \in Requests, SelectPrekey(r)
    PROVE  /\ Base'
           /\ UNCHANGED <<deviceVars, chatVars, readerVars>>
           /\ \E q \in RequestType :
                 /\ Calm(q) /\ req' = [req EXCEPT ![r] = q]
                 /\ \/ Goto(r, "count") /\ q.key = None
                    \/ /\ q.op = "bundle" /\ q.step = "take"
                       /\ q.dev = req[r].dev
                       /\ \E p \in Unlocked(req[r].dev) : q.key = p.id
<1>1. req[r] \in RequestType /\ FieldsOf(req[r]) /\ At(r, "bundle", "select")
  BY DEF Base, TypeOK, Fields, SelectPrekey
<1>2. ASSUME Goto(r, "count")
      PROVE  \E q \in RequestType :
                 FieldsOf(q) /\ Calm(q) /\ req' = [req EXCEPT ![r] = q] /\ q.key = None
  <2>1. PICK q \in RequestType :
            /\ FieldsOf(q)
            /\ q = [req[r] EXCEPT !.step = "count"]
            /\ req' = [req EXCEPT ![r] = q]
    BY <1>2, GotoStep
  <2>2. q.op = "bundle" /\ q.key = None
    BY <2>1, <1>1 DEF RequestType, FieldsOf, At
  <2> QED
    BY <2>1, <2>2 DEF Calm
<1>3. ASSUME NEW p \in Unlocked(req[r].dev),
             req' = [req EXCEPT ![r].step = "take", ![r].key = p.id,
                               ![r].made = p.identity]
      PROVE  \E q \in RequestType :
                 /\ FieldsOf(q) /\ Calm(q) /\ req' = [req EXCEPT ![r] = q]
                 /\ q.op = "bundle" /\ q.step = "take"
                 /\ q.dev = req[r].dev /\ q.key = p.id
  <2> DEFINE q == [req[r] EXCEPT !.step = "take", !.key = p.id,
                                !.made = p.identity]
  <2>1. p \in Prekeys
    BY DEF Unlocked, Base, TypeOK
  <2>2. q \in RequestType
    BY <1>1, <2>1 DEF RequestType, Prekeys
  <2>3. /\ q.op = "bundle" /\ q.step = "take"
        /\ q.dev = req[r].dev /\ q.key = p.id
    BY <1>1 DEF RequestType, At
  <2>4. FieldsOf(q) /\ Calm(q)
    BY <2>3, <2>1, <1>1 DEF FieldsOf, Calm, Prekeys, At
  <2>5. req' = [req EXCEPT ![r] = q]
    BY <1>3
  <2> QED
    BY <2>2, <2>3, <2>4, <2>5
<1>8. \/ Goto(r, "count")
      \/ \E p \in Unlocked(req[r].dev) :
            req' = [req EXCEPT ![r].step = "take", ![r].key = p.id,
                              ![r].made = p.identity]
  BY DEF SelectPrekey
<1>4. PICK q \in RequestType :
          /\ FieldsOf(q) /\ Calm(q) /\ req' = [req EXCEPT ![r] = q]
          /\ \/ Goto(r, "count") /\ q.key = None
             \/ /\ q.op = "bundle" /\ q.step = "take"
                /\ q.dev = req[r].dev
                /\ \E p \in Unlocked(req[r].dev) : q.key = p.id
  <2>1. CASE Goto(r, "count")
    BY <2>1, <1>2
  <2>2. CASE \E p \in Unlocked(req[r].dev) :
                req' = [req EXCEPT ![r].step = "take", ![r].key = p.id,
                                  ![r].made = p.identity]
    <3>1. PICK p \in Unlocked(req[r].dev) :
              req' = [req EXCEPT ![r].step = "take", ![r].key = p.id,
                                ![r].made = p.identity]
      BY <2>2
    <3>2. PICK q \in RequestType :
              /\ FieldsOf(q) /\ Calm(q) /\ req' = [req EXCEPT ![r] = q]
              /\ q.op = "bundle" /\ q.step = "take"
              /\ q.dev = req[r].dev /\ q.key = p.id
      BY <3>1, <1>3
    <3> QED
      BY <3>2
  <2> QED
    BY <2>1, <2>2, <1>8
<1>5. UNCHANGED <<deviceVars, chatVars, readerVars>>
  BY DEF SelectPrekey
<1>6. req' \in [Requests -> RequestType] /\ Fields'
  BY <1>4, <1>5, OneRequest, FieldsStep DEF Base, chatVars
<1>7. Base'
  BY <1>5, <1>6 DEF Base, TypeOK, deviceVars, chatVars, readerVars
<1> QED
  BY <1>4, <1>5, <1>7

LEMMA TakeBase ==
    ASSUME Base, NEW r \in Requests, TakePrekey(r)
    PROVE  Base'
<1>1. PICK q \in RequestType :
          FieldsOf(q) /\ req' = [req EXCEPT ![r] = q]
  BY GotoStep DEF TakePrekey
<1>2. req' \in [Requests -> RequestType] /\ Fields'
  BY <1>1, OneRequest, FieldsStep DEF Base, TakePrekey, chatVars
<1> QED
  BY <1>2 DEF Base, TypeOK, TakePrekey, chatVars, readerVars

LEMMA AnswerBundleBase ==
    ASSUME Base, NEW r \in Requests, AnswerBundle(r)
    PROVE  Base'
<1>1. req[r] \in RequestType /\ FieldsOf(req[r]) /\ At(r, "bundle", "count")
  BY DEF Base, TypeOK, Fields, AnswerBundle
<1>2. req' \in [Requests -> RequestType] /\ Fields'
  BY SimpleEnd, SimpleFields DEF AnswerBundle, chatVars
<1>3. ASSUME req[r].key # None,
             handed' = [handed EXCEPT ![req[r].dev][req[r].key] = @ + 1]
      PROVE  handed' \in [Devices -> [KeyIds -> Nat]]
  <2>1. req[r].dev \in Devices /\ req[r].key \in KeyIds
    BY <1>1, <1>3 DEF RequestType, FieldsOf, At
  <2> QED
    BY <2>1, <1>3 DEF Base, TypeOK
<1>4. handed' \in [Devices -> [KeyIds -> Nat]]
  BY <1>3 DEF AnswerBundle, Base, TypeOK
<1> QED
  BY <1>2, <1>4 DEF Base, TypeOK, AnswerBundle, chatVars, readerVars

LEMMA AssignBase ==
    ASSUME Base, NEW r \in Requests, AssignSeq(r)
    PROVE  /\ Base'
           /\ \E q \in RequestType :
                 /\ Empty(q) /\ req' = [req EXCEPT ![r] = q]
                 /\ q = [req[r] EXCEPT !.step = "message",
                                       !.seq = nextSeq[req[r].conv] + 1]
<1>1. req[r] \in RequestType /\ FieldsOf(req[r]) /\ At(r, "send", "assign")
  BY DEF Base, TypeOK, Fields, AssignSeq
<1> DEFINE q == [req[r] EXCEPT !.step = "message",
                              !.seq = nextSeq[req[r].conv] + 1]
<1>2. nextSeq[req[r].conv] + 1 \in Nat
  BY <1>1 DEF FieldsOf, At, Base, TypeOK
<1>3. q \in RequestType
  BY <1>1, <1>2 DEF RequestType
<1>4. FieldsOf(q) /\ Empty(q)
  BY <1>1 DEF FieldsOf, Empty, RequestType, At
<1>5. req' = [req EXCEPT ![r] = q]
  BY DEF AssignSeq
<1>6. UNCHANGED <<deviceVars, chatVars, readerVars>>
  BY DEF AssignSeq
<1>7. req' \in [Requests -> RequestType] /\ Fields'
  <2> HIDE DEF q
  <2> QED
    BY <1>3, <1>4, <1>5, <1>6, OneRequest, FieldsStep DEF Base, chatVars
<1>8. Base'
  BY <1>6, <1>7 DEF Base, TypeOK, deviceVars, chatVars, readerVars
<1> QED
  BY <1>3, <1>4, <1>5, <1>8

LEMMA InsertMessageBase ==
    ASSUME Base, NEW r \in Requests, InsertMessage(r)
    PROVE  Base'
<1>1. \E q \in RequestType : FieldsOf(q) /\ req' = [req EXCEPT ![r] = q]
  BY GotoStep, SimpleEnd DEF InsertMessage, Simple
<1>2. req' \in [Requests -> RequestType] /\ Fields'
  BY <1>1, OneRequest, FieldsStep DEF Base, InsertMessage, chatVars
<1> QED
  BY <1>2 DEF Base, TypeOK, InsertMessage, deviceVars, chatVars, readerVars

LEMMA CommitBase ==
    ASSUME Base, NEW r \in Requests, CommitMessage(r)
    PROVE  Base'
<1> DEFINE q == req[r]
           new == [conv |-> q.conv, seq |-> q.seq, dev |-> q.dev, cid |-> q.cid,
                   targets |-> q.targets]
<1>1. q \in RequestType /\ FieldsOf(q) /\ q.op = "send"
  BY DEF Base, TypeOK, Fields, CommitMessage, At
<1>2. /\ q.dev \in Devices /\ q.conv \in Convs /\ q.cid \in ClientIds
      /\ q.targets \in SUBSET Devices /\ q.seq \in Nat
  BY <1>1 DEF FieldsOf, RequestType
<1>3. new \in Messages
  BY <1>2 DEF Messages
<1>4. messages' = messages \cup {new}
  BY DEF CommitMessage
<1>5. messages' \subseteq Messages
  BY <1>3, <1>4 DEF Base, TypeOK
<1>6. IsFiniteSet(messages')
  BY <1>4, FS_AddElement DEF Base, TypeOK
<1>7. CopiesOf(q) \subseteq Copies
  BY <1>2 DEF CopiesOf, Copies
<1>8. /\ DOMAIN receipts' = DOMAIN receipts \cup CopiesOf(q)
      /\ receipts' \in [DOMAIN receipts' -> Marks]
  <2>1. receipts' = [x \in DOMAIN receipts \cup CopiesOf(q) |->
               IF x \in DOMAIN receipts THEN receipts[x] ELSE "sent"]
    BY DEF CommitMessage
  <2>2. receipts \in [DOMAIN receipts -> Marks]
    BY DEF Base, TypeOK
  <2> QED
    BY <2>1, <2>2 DEF Marks
<1>9. nextSeq' \in [Convs -> Nat]
  BY <1>2 DEF CommitMessage, Base, TypeOK
<1>10. \E x \in RequestType : FieldsOf(x) /\ req' = [req EXCEPT ![r] = x]
  BY GotoStep DEF CommitMessage
<1>11. req' \in [Requests -> RequestType] /\ Fields'
  BY <1>8, <1>10, OneRequest, FieldsStep DEF Base
<1>12. UNCHANGED <<deviceVars, members, readerVars>>
  BY DEF CommitMessage
<1> QED
  BY <1>5, <1>6, <1>7, <1>8, <1>9, <1>11, <1>12
     DEF Base, TypeOK, deviceVars, readerVars

LEMMA ListBase ==
    ASSUME Base, NEW d \in Devices, NEW c \in Convs, ListMessages(d, c)
    PROVE  Base'
<1>1. PICK last \in Page(d, c) : cursor' = [cursor EXCEPT ![d][c] = last.seq]
  BY DEF ListMessages
<1>2. last.seq \in Nat
  BY DEF Page, Later, Base, TypeOK, Messages
<1>3. cursor' \in [Devices -> [Convs -> Nat]]
  BY <1>1, <1>2 DEF Base, TypeOK
<1>4. Fields'
  BY DEF ListMessages, chatVars, Base, Fields, FieldsOf
<1>5. got' \in [Devices -> SUBSET [conv : Convs, seq : Nat, whole : BOOLEAN]]
  <2>1. \A m \in Page(d, c) : m.seq \in Nat
    BY DEF Page, Later, Base, TypeOK, Messages
  <2> DEFINE page == {[conv |-> c, seq |-> m.seq, whole |->
                         [conv |-> c, seq |-> m.seq, dev |-> d] \in DOMAIN receipts]
                      : m \in Page(d, c)}
  <2>2. page \subseteq [conv : Convs, seq : Nat, whole : BOOLEAN]
    <3> SUFFICES ASSUME NEW m \in Page(d, c)
                 PROVE  [conv |-> c, seq |-> m.seq, whole |->
                           [conv |-> c, seq |-> m.seq, dev |-> d] \in DOMAIN receipts]
                            \in [conv : Convs, seq : Nat, whole : BOOLEAN]
      OBVIOUS
    <3>1. ([conv |-> c, seq |-> m.seq, dev |-> d] \in DOMAIN receipts) \in BOOLEAN
      OBVIOUS
    <3> QED
      BY <2>1, <3>1
  <2>3. got' = [got EXCEPT ![d] = @ \cup page]
    BY DEF ListMessages
  <2> HIDE DEF page
  <2> QED
    BY <2>2, <2>3 DEF Base, TypeOK
<1> QED
  BY <1>3, <1>4, <1>5 DEF ListMessages, Base, TypeOK, deviceVars, chatVars

LEMMA DeviceBase ==
    ASSUME Base, NEW d \in Devices,
           \/ \E g \in Identities, ks \in SUBSET KeyIds : RegisterDevice(d, g, ks)
           \/ RevokeDevice(d)
    PROVE  Base'
<1>1. CASE RevokeDevice(d)
  <2>1. device' \in [Devices -> [status : Statuses, identity : Identities]]
    BY <1>1 DEF RevokeDevice, Base, TypeOK, Statuses
  <2>2. Fields'
    BY <1>1 DEF RevokeDevice, chatVars, Base, Fields, FieldsOf
  <2> QED
    BY <1>1, <2>1, <2>2 DEF RevokeDevice, Base, TypeOK, chatVars, readerVars
<1>2. CASE \E g \in Identities, ks \in SUBSET KeyIds : RegisterDevice(d, g, ks)
  <2>1. PICK g \in Identities, ks \in SUBSET KeyIds : RegisterDevice(d, g, ks)
    BY <1>2
  <2>2. device' \in [Devices -> [status : Statuses, identity : Identities]]
    BY <2>1 DEF RegisterDevice, Base, TypeOK, Statuses
  <2>3. pool' \subseteq Prekeys /\ uploaded' \in [Devices -> [KeyIds -> Nat]]
    BY <2>1, InsertStep DEF RegisterDevice
  <2>4. Fields'
    BY <2>1 DEF RegisterDevice, chatVars, Base, Fields, FieldsOf
  <2> QED
    BY <2>1, <2>2, <2>3, <2>4 DEF RegisterDevice, Base, TypeOK, chatVars, readerVars
<1> QED
  BY <1>1, <1>2

LEMMA AnswerSendBase ==
    ASSUME Base, NEW r \in Requests, AnswerSend(r) \/ GetMessageByDedupeKey(r)
    PROVE  Base'
<1>1. Simple(r) /\ UNCHANGED <<deviceVars, members, nextSeq, messages, receipts,
                               readerVars>>
  BY DedupeSimple, SimpleEnd DEF AnswerSend
<1>2. req' \in [Requests -> RequestType] /\ Fields'
  BY <1>1, SimpleFields
<1> QED
  BY <1>1, <1>2 DEF Base, TypeOK, deviceVars, readerVars

LEMMA StepBase ==
    ASSUME Base, NEW r \in Requests, Step(r)
    PROVE  Base'
<1>1. ASSUME TopUpOne(r) PROVE Base'
  <2>1. /\ Simple(r)
        /\ pool' \subseteq Prekeys /\ uploaded' \in [Devices -> [KeyIds -> Nat]]
        /\ UNCHANGED <<device, handed, chatVars, readerVars>>
    BY <1>1, TopUpOneSimple, InsertStep
  <2>2. req' \in [Requests -> RequestType] /\ Fields'
    BY <2>1, SimpleFields DEF chatVars
  <2> QED
    BY <2>1, <2>2 DEF Base, TypeOK, chatVars, readerVars
<1>2. ASSUME FindDirectConversation(r) \/ CreateConversation(r) PROVE Base'
  <2>1. /\ Simple(r) /\ members' \in [Convs -> SUBSET Users]
        /\ UNCHANGED <<deviceVars, nextSeq, messages, receipts, answers,
                       readerVars>>
    BY <1>2, CreateSimple
  <2>2. req' \in [Requests -> RequestType] /\ Fields'
    BY <2>1, SimpleFields
  <2> QED
    BY <2>1, <2>2 DEF Base, TypeOK, deviceVars, readerVars
<1>3. ASSUME AckMessage(r) PROVE Base'
  <2>1. /\ Simple(r) /\ DOMAIN receipts' = DOMAIN receipts
        /\ receipts' \in [DOMAIN receipts -> Marks]
        /\ UNCHANGED <<deviceVars, members, nextSeq, messages, answers,
                       readerVars>>
    BY <1>3, AckSimple
  <2>2. req' \in [Requests -> RequestType] /\ Fields'
    BY <2>1, SimpleFields
  <2> QED
    BY <2>1, <2>2 DEF Base, TypeOK, deviceVars, readerVars
<1> QED
  BY <1>1, <1>2, <1>3, TopUpSimple, GetSimple, CheckSimple, CheckAckSimple,
     SimpleBase, SelectBase, TakeBase, AnswerBundleBase, AssignBase,
     InsertMessageBase, CommitBase, AnswerSendBase DEF Step

LEMMA FailSimple ==
    ASSUME NEW r \in Requests, Fail(r)
    PROVE  Simple(r) /\ UNCHANGED <<deviceVars, chatVars, readerVars>>
  BY SimpleEnd DEF Fail

LEMMA InitBase == Init => Base
<1> SUFFICES ASSUME Init PROVE Base
  OBVIOUS
<1>1. /\ device \in [Devices -> [status : Statuses, identity : Identities]]
      /\ pool \subseteq Prekeys
  BY BoundsAssumption DEF BoundsAssumption, Init, Statuses, Identities
<1>2. members \in [Convs -> SUBSET Users]
  BY DEF Init
<1>3. nextSeq \in [Convs -> Nat] /\ messages \subseteq Messages /\ IsFiniteSet(messages)
  BY FS_EmptySet DEF Init
<1>4. DOMAIN receipts = {} /\ receipts \in [DOMAIN receipts -> Marks]
  BY DEF Init
<1>5. req \in [Requests -> RequestType] /\ Fields
  BY IdleType DEF Init, Fields
<1>6. /\ cursor \in [Devices -> [Convs -> Nat]]
      /\ got \in [Devices -> SUBSET [conv : Convs, seq : Nat, whole : BOOLEAN]]
      /\ uploaded \in [Devices -> [KeyIds -> Nat]]
      /\ handed \in [Devices -> [KeyIds -> Nat]]
  BY DEF Init
<1> QED
  BY <1>1, <1>2, <1>3, <1>4, <1>5, <1>6 DEF Base, TypeOK

LEMMA NextBase == Base /\ [Next]_vars => Base'
<1> SUFFICES ASSUME Base, [Next]_vars PROVE Base'
  OBVIOUS
<1>1. CASE UNCHANGED vars
  BY <1>1 DEF vars, deviceVars, chatVars, readerVars, Base, TypeOK, Fields,
              FieldsOf
<1>2. ASSUME NEW r \in Requests, AskAny(r) \/ Fail(r) PROVE Base'
  BY <1>2, AskSimple, FailSimple, SimpleBase
<1> QED
  BY <1>1, <1>2, StepBase, DeviceBase, ListBase DEF Next

\* Every reachable state has the declared types, and a request's record holds
\* what its step needs.
THEOREM TypeTheorem == Spec => []TypeOK
<1>1. Base => TypeOK
  BY DEF Base
<1> QED
  BY <1>1, InitBase, NextBase, PTL DEF Spec
-----------------------------------------------------------------------------
(* Prekeys.                                                                *)

Taker(q, d, k) == q.op = "bundle" /\ q.step = "take" /\ q.dev = d /\ q.key = k
Carrier(q, d, k) == q.op = "bundle" /\ q.step = "count" /\ q.dev = d /\ q.key = k

\* The requests that have taken the prekey and not yet answered.
Flying(d, k) == {r \in Requests : Carrier(req[r], d, k)}
InPool(d, k) == IF Pooled(d, k) THEN 1 ELSE 0

\* A prekey that is being taken is in the pool and has one taker; what was
\* uploaded is handed out, on its way or in the pool, or was lost.
Takers(d, k) ==
    /\ \A r \in Requests : Taker(req[r], d, k) => Pooled(d, k)
    /\ \A r, s \in Requests :
          Taker(req[r], d, k) /\ Taker(req[s], d, k) => r = s

Account(d, k) ==
    handed[d][k] + Cardinality(Flying(d, k)) + InPool(d, k) <= uploaded[d][k]

Supply == \A d \in Devices, k \in KeyIds : Takers(d, k) /\ Account(d, k)

LEMMA FlyingFinite ==
    ASSUME NEW d, NEW k
    PROVE  IsFiniteSet(Flying(d, k)) /\ Cardinality(Flying(d, k)) \in Nat
<1>1. Flying(d, k) \subseteq Requests
  BY DEF Flying
<1> QED
  BY <1>1, RequestsAssumption, FS_Subset, FS_CardinalityType
     DEF RequestsAssumption

LEMMA FlyingFiniteNext ==
    ASSUME NEW d, NEW k
    PROVE  IsFiniteSet(Flying(d, k)') /\ Cardinality(Flying(d, k)') \in Nat
<1>1. Flying(d, k)' \subseteq Requests
  BY DEF Flying
<1> QED
  BY <1>1, RequestsAssumption, FS_Subset, FS_CardinalityType
     DEF RequestsAssumption

\* Fewer on their way, no more in the pool.
LEMMA AccountStep ==
    ASSUME Base, Base', NEW d \in Devices, NEW k \in KeyIds, Account(d, k),
           handed'[d][k] = handed[d][k], Flying(d, k)' \subseteq Flying(d, k),
           uploaded'[d][k] + InPool(d, k) >= uploaded[d][k] + InPool(d, k)'
    PROVE  Account(d, k)'
<1>1. Cardinality(Flying(d, k)') <= Cardinality(Flying(d, k))
  BY FlyingFinite, FS_Subset
<1>2. /\ handed[d][k] \in Nat /\ uploaded[d][k] \in Nat /\ uploaded'[d][k] \in Nat
      /\ InPool(d, k) \in Nat /\ InPool(d, k)' \in Nat
      /\ Cardinality(Flying(d, k)') \in Nat /\ Cardinality(Flying(d, k)) \in Nat
  BY FlyingFinite, FlyingFiniteNext DEF Base, TypeOK, InPool
<1>3. handed[d][k] + Cardinality(Flying(d, k)) + InPool(d, k) <= uploaded[d][k]
  BY DEF Account
<1>4. handed'[d][k] + Cardinality(Flying(d, k)') + InPool(d, k)' <= uploaded'[d][k]
  BY <1>1, <1>2, <1>3
<1> QED
  BY <1>4 DEF Account

\* A request that holds no prekey afterwards, the pool being left alone.
LEMMA EmptyStep ==
    ASSUME Base, Base', Supply, NEW r \in Requests, NEW q \in RequestType, Empty(q),
           req' = [req EXCEPT ![r] = q], UNCHANGED <<pool, handed, uploaded>>
    PROVE  Supply'
<1>1. /\ req'[r] = q
      /\ \A s \in Requests \ {r} : req'[s] = req[s]
  BY OneRequest DEF Base
<1>2. ASSUME NEW d \in Devices, NEW k \in KeyIds
      PROVE  Takers(d, k)' /\ Account(d, k)'
  <2>1. ~Taker(q, d, k) /\ ~Carrier(q, d, k)
    BY DEF Empty, Taker, Carrier
  <2>2. \A s \in Requests :
            /\ Taker(req'[s], d, k) => Taker(req[s], d, k)
            /\ Carrier(req'[s], d, k) => Carrier(req[s], d, k)
    BY <1>1, <2>1
  <2>3. Pooled(d, k)' = Pooled(d, k)
    BY DEF Pooled
  <2>4. Takers(d, k)'
    BY <2>2, <2>3 DEF Takers, Supply, Taker
  <2>5. Flying(d, k)' \subseteq Flying(d, k)
    BY <2>2 DEF Flying, Carrier
  <2>6. InPool(d, k)' = InPool(d, k) /\ InPool(d, k) \in Nat
    BY <2>3 DEF InPool
  <2>7. uploaded'[d][k] + InPool(d, k) >= uploaded[d][k] + InPool(d, k)'
    BY <2>6 DEF Base, TypeOK
  <2>8. Account(d, k) /\ handed'[d][k] = handed[d][k]
    BY DEF Supply
  <2>9. Account(d, k)'
    BY <2>5, <2>7, <2>8, AccountStep
  <2> QED
    BY <2>4, <2>9
<1> QED
  BY <1>2 DEF Supply

LEMMA SimpleSupply ==
    ASSUME Base, Base', Supply, NEW r \in Requests, Simple(r),
           UNCHANGED <<pool, handed, uploaded>>
    PROVE  Supply'
  BY EmptyStep DEF Simple

\* An insertion counts what it adds, and leaves what is being taken alone.
LEMMA InsertSupply ==
    ASSUME Base, Base', Supply, NEW e \in Devices, NEW ks \in SUBSET KeyIds,
           NEW g, Insert(e, ks, g), handed' = handed,
           \A s \in Requests, d \in Devices, k \in KeyIds :
               /\ Taker(req'[s], d, k) => Taker(req[s], d, k)
               /\ Carrier(req'[s], d, k) => Carrier(req[s], d, k)
    PROVE  Supply'
<1> DEFINE new == {k \in ks : ~Pooled(e, k)}
<1>1. ASSUME NEW d \in Devices, NEW k \in KeyIds
      PROVE  Takers(d, k)' /\ Account(d, k)'
  <2>1. Pooled(d, k)' <=> Pooled(d, k) \/ (d = e /\ k \in new)
    <3> HIDE DEF new
    <3>1. pool' = pool \cup
              {[dev |-> e, id |-> j, identity |-> g] : j \in new}
      BY DEF Insert, new
    <3>2. ASSUME k \in new PROVE \E p \in pool' : p.dev = e /\ p.id = k
      <4> DEFINE x == [dev |-> e, id |-> k, identity |-> g]
      <4>1. x \in pool'
        BY <3>1, <3>2
      <4>2. x.dev = e /\ x.id = k
        OBVIOUS
      <4> QED
        BY <4>1, <4>2
    <3>3. ASSUME NEW p \in pool', p.dev = d, p.id = k
          PROVE  p \in pool \/ (d = e /\ k \in new)
      BY <3>1, <3>3
    <3> QED
      BY <3>1, <3>2, <3>3 DEF Pooled
  <2>2. uploaded'[d][k] =
            IF d = e /\ k \in new THEN uploaded[d][k] + 1 ELSE uploaded[d][k]
    BY DEF Insert, Base, TypeOK
  <2>3. uploaded[d][k] \in Nat
    BY DEF Base, TypeOK
  <2>4. uploaded'[d][k] + InPool(d, k) >= uploaded[d][k] + InPool(d, k)'
    <3>1. CASE d = e /\ k \in new
      <4>1. ~Pooled(d, k)
        BY <3>1
      <4> QED
        BY <3>1, <4>1, <2>1, <2>2, <2>3 DEF InPool
    <3>2. CASE ~(d = e /\ k \in new)
      <4>1. Pooled(d, k)' <=> Pooled(d, k)
        BY <3>2, <2>1
      <4>2. InPool(d, k)' = InPool(d, k) /\ InPool(d, k) \in Nat
        BY <4>1 DEF InPool
      <4> QED
        BY <3>2, <4>2, <2>2, <2>3
    <3> QED
      BY <3>1, <3>2
  <2>5. Takers(d, k)'
    BY <2>1 DEF Takers, Supply, Taker
  <2>6. Flying(d, k)' \subseteq Flying(d, k)
    BY DEF Flying, Carrier
  <2>7. Account(d, k) /\ handed'[d][k] = handed[d][k]
    BY DEF Supply
  <2>8. Account(d, k)'
    <3> HIDE DEF new
    <3> QED
      BY <2>4, <2>6, <2>7, AccountStep
  <2> QED
    BY <2>5, <2>8
<1> QED
  BY <1>1 DEF Supply

LEMMA TopUpOneSupply ==
    ASSUME Base, Base', Supply, NEW r \in Requests, TopUpOne(r)
    PROVE  Supply'
<1>1. /\ Simple(r) /\ req[r].dev \in Devices
      /\ \E k \in KeyIds : Insert(req[r].dev, {k}, req[r].identity)
      /\ handed' = handed
  BY TopUpOneSimple
<1>2. PICK q \in RequestType : Empty(q) /\ req' = [req EXCEPT ![r] = q]
  BY <1>1 DEF Simple
<1>3. \A s \in Requests, d \in Devices, k \in KeyIds :
          /\ Taker(req'[s], d, k) => Taker(req[s], d, k)
          /\ Carrier(req'[s], d, k) => Carrier(req[s], d, k)
  BY <1>2, OneRequest DEF Base, Empty, Taker, Carrier
<1> QED
  BY <1>1, <1>3, InsertSupply

LEMMA RegisterSupply ==
    ASSUME Base, Base', Supply, NEW d \in Devices, NEW g \in Identities,
           NEW ks \in SUBSET KeyIds, RegisterDevice(d, g, ks)
    PROVE  Supply'
  BY InsertSupply DEF RegisterDevice

\* A prekey is chosen: it is in the pool and nobody else is taking it.
LEMMA SelectSupply ==
    ASSUME Base, Base', Supply, NEW r \in Requests, SelectPrekey(r)
    PROVE  Supply'
<1>1. UNCHANGED <<pool, handed, uploaded>>
  BY DEF SelectPrekey, deviceVars
<1>2. PICK q \in RequestType :
          /\ req' = [req EXCEPT ![r] = q]
          /\ \/ Goto(r, "count") /\ q.key = None
             \/ /\ q.op = "bundle" /\ q.step = "take"
                /\ q.dev = req[r].dev
                /\ \E p \in Unlocked(req[r].dev) : q.key = p.id
  BY SelectBase
<1>3. /\ req'[r] = q
      /\ \A s \in Requests \ {r} : req'[s] = req[s]
  BY <1>2, OneRequest DEF Base
<1>4. ASSUME NEW d \in Devices, NEW k \in KeyIds
      PROVE  Takers(d, k)' /\ Account(d, k)'
  <2>1. k # None
    BY NoneAssumption DEF NoneAssumption
  <2>2. Pooled(d, k)' = Pooled(d, k)
    BY <1>1 DEF Pooled
  <2>3. ~Carrier(q, d, k)
    <3>1. CASE Goto(r, "count") /\ q.key = None
      BY <3>1, <2>1 DEF Carrier
    <3>2. CASE q.step = "take"
      BY <3>2 DEF Carrier
    <3> QED
      BY <3>1, <3>2, <1>2
  <2>4. Flying(d, k)' \subseteq Flying(d, k)
    BY <1>3, <2>3 DEF Flying, Carrier
  <2>5. InPool(d, k)' = InPool(d, k) /\ InPool(d, k) \in Nat
    BY <2>2 DEF InPool
  <2>6. uploaded'[d][k] + InPool(d, k) >= uploaded[d][k] + InPool(d, k)'
    BY <2>5, <1>1 DEF Base, TypeOK
  <2>7. Account(d, k)'
    <3>1. Account(d, k) /\ handed'[d][k] = handed[d][k]
      BY <1>1 DEF Supply
    <3> QED
      BY <2>4, <2>6, <3>1, AccountStep
  <2>8. ASSUME Taker(q, d, k)
        PROVE  Pooled(d, k) /\ \A s \in Requests : ~Taker(req[s], d, k)
    <3>1. q.key = k /\ k # None /\ q.step = "take"
      BY <2>8, <2>1 DEF Taker
    <3>2. PICK p \in Unlocked(d) : p.id = k
      BY <3>1, <2>8, <1>2 DEF Taker
    <3> QED
      BY <3>2 DEF Unlocked, Pooled, Locked, Taker, At
  <2>9. Takers(d, k)'
    <3>1. Takers(d, k)
      BY DEF Supply
    <3>2. \A s \in Requests : Taker(req'[s], d, k) => Pooled(d, k)
      BY <3>1, <2>8, <1>3 DEF Takers
    <3>3. \A s, t \in Requests :
              Taker(req'[s], d, k) /\ Taker(req'[t], d, k) => s = t
      BY <3>1, <2>8, <1>3 DEF Takers
    <3> QED
      BY <3>2, <3>3, <2>2 DEF Takers, Taker
  <2> QED
    BY <2>7, <2>9
<1> QED
  BY <1>4 DEF Supply

\* A prekey leaves the pool and is on its way.
LEMMA TakeSupply ==
    ASSUME Base, Base', Supply, NEW r \in Requests, TakePrekey(r)
    PROVE  Supply'
<1>1. req[r] \in RequestType /\ FieldsOf(req[r]) /\ At(r, "bundle", "take")
  BY DEF Base, TypeOK, Fields, TakePrekey
<1>2. PICK e \in Devices, j \in KeyIds :
          e = req[r].dev /\ j = req[r].key /\ Taker(req[r], e, j)
  BY <1>1 DEF FieldsOf, At, Taker
<1>3. PICK q \in RequestType :
          /\ q = [req[r] EXCEPT !.step = "count"]
          /\ req' = [req EXCEPT ![r] = q]
  BY GotoStep DEF TakePrekey
<1>4. /\ req'[r] = q
      /\ \A s \in Requests \ {r} : req'[s] = req[s]
  BY <1>3, OneRequest DEF Base
<1>5. q.op = "bundle" /\ q.step = "count" /\ q.dev = e /\ q.key = j
  BY <1>1, <1>2, <1>3 DEF RequestType, At
<1>6. UNCHANGED <<handed, uploaded>>
  BY DEF TakePrekey
<1>7. pool' = {p \in pool : ~(p.dev = e /\ p.id = j)}
  BY <1>2 DEF TakePrekey
<1>8. ASSUME NEW d \in Devices, NEW k \in KeyIds, ~(d = e /\ k = j)
      PROVE  Takers(d, k)' /\ Account(d, k)'
  <2>1. Pooled(d, k)' <=> Pooled(d, k)
    BY <1>7, <1>8 DEF Pooled
  <2>2. ~Taker(q, d, k) /\ ~Carrier(q, d, k)
    BY <1>5, <1>8 DEF Taker, Carrier
  <2>3. Flying(d, k)' \subseteq Flying(d, k)
    BY <1>4, <2>2 DEF Flying, Carrier
  <2>4. InPool(d, k)' = InPool(d, k) /\ InPool(d, k) \in Nat
    BY <2>1 DEF InPool
  <2>5. uploaded'[d][k] + InPool(d, k) >= uploaded[d][k] + InPool(d, k)'
    BY <2>4, <1>6 DEF Base, TypeOK
  <2>6. Account(d, k)'
    <3>1. Account(d, k) /\ handed'[d][k] = handed[d][k]
      BY <1>6 DEF Supply
    <3> QED
      BY <2>3, <2>5, <3>1, AccountStep
  <2>7. Takers(d, k)'
    <3>1. Takers(d, k)
      BY DEF Supply
    <3> QED
      BY <3>1, <2>1, <2>2, <1>4 DEF Takers, Taker
  <2> QED
    BY <2>6, <2>7
<1>9. Takers(e, j)' /\ Account(e, j)'
  <2>1. ~Pooled(e, j)' /\ InPool(e, j)' = 0
    BY <1>7 DEF Pooled, InPool
  <2>2. Takers(e, j)
    BY <1>2 DEF Supply
  <2>3. Pooled(e, j) /\ InPool(e, j) = 1
    BY <2>2, <1>2 DEF Takers, InPool
  <2>4. \A s \in Requests : ~Taker(req'[s], e, j)
    BY <2>2, <1>2, <1>4, <1>5 DEF Takers, Taker
  <2>5. Takers(e, j)'
    BY <2>4 DEF Takers, Taker
  <2>6. Flying(e, j)' = Flying(e, j) \cup {r}
    BY <1>4, <1>5 DEF Flying, Carrier
  <2>7. Cardinality(Flying(e, j)') <= Cardinality(Flying(e, j)) + 1
    <3>1. IsFiniteSet(Flying(e, j)) /\ Cardinality(Flying(e, j)) \in Nat
      BY FlyingFinite
    <3>2. \/ Cardinality(Flying(e, j) \cup {r}) = Cardinality(Flying(e, j))
          \/ Cardinality(Flying(e, j) \cup {r}) = Cardinality(Flying(e, j)) + 1
      BY <3>1, FS_AddElement
    <3> QED
      BY <2>6, <3>1, <3>2
  <2>8. /\ handed[e][j] \in Nat /\ uploaded[e][j] \in Nat
        /\ Cardinality(Flying(e, j)) \in Nat /\ Cardinality(Flying(e, j)') \in Nat
    BY <1>2, FlyingFinite, FlyingFiniteNext DEF Base, TypeOK
  <2>9. handed[e][j] + Cardinality(Flying(e, j)) + InPool(e, j) <= uploaded[e][j]
    BY <1>2 DEF Supply, Account
  <2>10. handed'[e][j] + Cardinality(Flying(e, j)') + InPool(e, j)' <= uploaded'[e][j]
    BY <2>1, <2>3, <2>7, <2>8, <2>9, <1>6
  <2> QED
    BY <2>5, <2>10 DEF Account
<1> QED
  BY <1>8, <1>9 DEF Supply

\* A prekey arrives.
LEMMA AnswerSupply ==
    ASSUME Base, Base', Supply, NEW r \in Requests, AnswerBundle(r)
    PROVE  Supply'
<1> DEFINE e == req[r].dev
           j == req[r].key
<1>1. req[r] \in RequestType /\ FieldsOf(req[r]) /\ At(r, "bundle", "count")
  BY DEF Base, TypeOK, Fields, AnswerBundle
<1>2. UNCHANGED <<pool, uploaded>> /\ End(r)
  BY DEF AnswerBundle
<1>3. CASE j = None
  <2>1. UNCHANGED handed
    BY <1>3 DEF AnswerBundle
  <2> QED
    BY <2>1, <1>2, SimpleEnd, SimpleSupply
<1>4. CASE j # None
  <2>1. e \in Devices /\ j \in KeyIds /\ Carrier(req[r], e, j)
    BY <1>1, <1>4 DEF FieldsOf, At, Carrier, RequestType
  <2>2. handed' = [handed EXCEPT ![e][j] = @ + 1]
    BY <1>4 DEF AnswerBundle
  <2>3. /\ req'[r] = Idle
        /\ \A s \in Requests \ {r} : req'[s] = req[s]
    BY <1>2, IdleType, OneRequest DEF End, Base
  <2> HIDE DEF e, j
  <2>4. \A d, k : ~Taker(Idle, d, k) /\ ~Carrier(Idle, d, k)
    BY DEF Taker, Carrier, Idle
  <2>5. ASSUME NEW d \in Devices, NEW k \in KeyIds
        PROVE  Takers(d, k)' /\ Account(d, k)'
    <3>1. Pooled(d, k)' = Pooled(d, k)
      BY <1>2 DEF Pooled
    <3>2. InPool(d, k)' = InPool(d, k) /\ InPool(d, k) \in Nat
      BY <3>1 DEF InPool
    <3>3. Takers(d, k) /\ Account(d, k)
      BY DEF Supply
    <3>4. Takers(d, k)'
      BY <3>1, <3>3, <2>3, <2>4 DEF Takers, Taker
    <3>5. CASE ~(d = e /\ k = j)
      <4>1. Flying(d, k)' \subseteq Flying(d, k)
        BY <2>3, <2>4 DEF Flying, Carrier
      <4>2. handed'[d][k] = handed[d][k]
        BY <3>5, <2>1, <2>2 DEF Base, TypeOK
      <4>3. uploaded'[d][k] + InPool(d, k) >= uploaded[d][k] + InPool(d, k)'
        BY <3>2, <1>2 DEF Base, TypeOK
      <4> QED
        BY <3>3, <3>4, <4>1, <4>2, <4>3, AccountStep
    <3>6. CASE d = e /\ k = j
      <4>1. Flying(d, k)' = Flying(d, k) \ {r} /\ r \in Flying(d, k)
        BY <2>1, <2>3, <2>4, <3>6 DEF Flying, Carrier
      <4>2. Cardinality(Flying(d, k)') = Cardinality(Flying(d, k)) - 1
        BY <4>1, FlyingFinite, FS_RemoveElement
      <4>3. handed'[d][k] = handed[d][k] + 1
        BY <3>6, <2>1, <2>2 DEF Base, TypeOK
      <4>4. /\ handed[d][k] \in Nat /\ uploaded[d][k] \in Nat
            /\ Cardinality(Flying(d, k)) \in Nat /\ Cardinality(Flying(d, k)') \in Nat
        BY FlyingFinite, FlyingFiniteNext DEF Base, TypeOK
      <4>5. handed[d][k] + Cardinality(Flying(d, k)) + InPool(d, k) <= uploaded[d][k]
        BY <3>3 DEF Account
      <4>6. handed'[d][k] + Cardinality(Flying(d, k)') + InPool(d, k)' <= uploaded'[d][k]
        BY <4>2, <4>3, <4>4, <4>5, <3>2, <1>2
      <4> QED
        BY <3>4, <4>6 DEF Account
    <3> QED
      BY <3>5, <3>6
  <2> QED
    BY <2>5 DEF Supply
<1> QED
  BY <1>3, <1>4

LEMMA InitSupply == Init => Supply
<1> SUFFICES ASSUME Init, NEW d \in Devices, NEW k \in KeyIds
             PROVE  Takers(d, k) /\ Account(d, k)
  BY DEF Supply
<1>1. \A r \in Requests : ~Taker(req[r], d, k) /\ ~Carrier(req[r], d, k)
  BY DEF Init, Idle, Taker, Carrier
<1>2. Flying(d, k) = {} /\ InPool(d, k) = 0
  BY <1>1 DEF Flying, InPool, Pooled, Init
<1>3. handed[d][k] = 0 /\ uploaded[d][k] = 0
  BY DEF Init
<1>4. Account(d, k)
  BY <1>2, <1>3, FS_EmptySet DEF Account
<1> QED
  BY <1>1, <1>4 DEF Takers

LEMMA NextSupply == Base /\ Supply /\ [Next]_vars => Supply'
<1> SUFFICES ASSUME Base, Supply, [Next]_vars PROVE Supply'
  OBVIOUS
<1>1. Base'
  BY NextBase
<1>2. CASE UNCHANGED <<pool, handed, uploaded, req>>
  BY <1>2 DEF Supply, Takers, Taker, Account, Flying, Carrier, InPool, Pooled
<1>3. ASSUME NEW r \in Requests, Simple(r), UNCHANGED deviceVars PROVE Supply'
  BY <1>1, <1>3, SimpleSupply DEF deviceVars
<1>4. ASSUME NEW r \in Requests, AssignSeq(r) \/ InsertMessage(r) \/ CommitMessage(r)
      PROVE  Supply'
  <2>1. UNCHANGED <<pool, handed, uploaded>>
    BY <1>4 DEF AssignSeq, InsertMessage, CommitMessage, deviceVars
  <2>2. ASSUME NEW step \in {"copies", "answer"}, Goto(r, step), req[r].op = "send"
        PROVE  Supply'
    <3>1. PICK q \in RequestType :
              /\ q = [req[r] EXCEPT !.step = step]
              /\ req' = [req EXCEPT ![r] = q]
      BY <2>2, GotoStep
    <3>2. Empty(q)
      BY <3>1, <2>2 DEF Empty, Base, TypeOK, RequestType
    <3> QED
      BY <1>1, <2>1, <3>1, <3>2, EmptyStep
  <2>3. CASE AssignSeq(r)
    BY <1>1, <2>1, <2>3, AssignBase, EmptyStep
  <2>4. CASE InsertMessage(r)
    BY <1>1, <2>1, <2>2, <2>4, SimpleEnd, SimpleSupply DEF InsertMessage, At
  <2>5. CASE CommitMessage(r)
    BY <2>2, <2>5 DEF CommitMessage, At
  <2> QED
    BY <1>4, <2>3, <2>4, <2>5
<1>5. ASSUME NEW r \in Requests, Step(r) PROVE Supply'
  <2>1. CASE TopUpOne(r)
    BY <1>1, <2>1, TopUpOneSupply
  <2>2. CASE SelectPrekey(r) \/ TakePrekey(r) \/ AnswerBundle(r)
    BY <1>1, <2>2, SelectSupply, TakeSupply, AnswerSupply
  <2>3. CASE AnswerSend(r)
    BY <2>3, <1>3, SimpleEnd DEF AnswerSend
  <2> QED
    BY <1>3, <1>4, <1>5, <2>1, <2>2, <2>3, TopUpSimple, GetSimple, CreateSimple,
       CheckSimple, CheckAckSimple, DedupeSimple, AckSimple DEF Step
<1>6. ASSUME NEW d \in Devices,
             \E g \in Identities, ks \in SUBSET KeyIds : RegisterDevice(d, g, ks)
      PROVE  Supply'
  BY <1>1, <1>6, RegisterSupply
<1>7. ASSUME NEW d \in Devices, RevokeDevice(d) PROVE Supply'
  BY <1>7, <1>2 DEF RevokeDevice
<1>8. ASSUME NEW d \in Devices, NEW c \in Convs, ListMessages(d, c) PROVE Supply'
  BY <1>8, <1>2 DEF ListMessages, deviceVars
<1>9. ASSUME NEW r \in Requests, AskAny(r) \/ Fail(r) PROVE Supply'
  BY <1>3, <1>9, AskSimple, FailSimple
<1>10. CASE UNCHANGED vars
  BY <1>2, <1>10 DEF vars, deviceVars
<1> QED
  BY <1>5, <1>6, <1>7, <1>8, <1>9, <1>10 DEF Next

\* However many peers ask for the bundle of a device at once, and whatever is
\* uploaded, fails or dies meanwhile, no prekey is handed out more often than
\* it was uploaded: the DELETE with FOR UPDATE SKIP LOCKED gives each to one.
THEOREM PrekeyHandedOnceTheorem == Spec => []PrekeyHandedOnce
<1>1. ASSUME Base, Supply PROVE PrekeyHandedOnce
  <2>1. ASSUME NEW d \in Devices, NEW k \in KeyIds
        PROVE  handed[d][k] + (IF Pooled(d, k) THEN 1 ELSE 0) <= uploaded[d][k]
    <3>1. handed[d][k] + Cardinality(Flying(d, k)) + InPool(d, k) <= uploaded[d][k]
      BY <1>1 DEF Supply, Account
    <3>2. /\ handed[d][k] \in Nat /\ uploaded[d][k] \in Nat
          /\ InPool(d, k) \in Nat /\ Cardinality(Flying(d, k)) \in Nat
      BY <1>1, FlyingFinite DEF Base, TypeOK, InPool
    <3>3. handed[d][k] + InPool(d, k) <= uploaded[d][k]
      BY <3>1, <3>2
    <3> QED
      BY <3>3 DEF InPool
  <2> QED
    BY <2>1 DEF PrekeyHandedOnce
<1> QED
  BY <1>1, InitBase, NextBase, InitSupply, NextSupply, PTL DEF Spec
-----------------------------------------------------------------------------
(* Messages.                                                               *)

CopyOf(m, d) == [conv |-> m.conv, seq |-> m.seq, dev |-> d]
Received(m, d) == [conv |-> m.conv, seq |-> m.seq, whole |-> d \in m.targets]

\* The numbers of a conversation, one message for each.
Numbered(c) ==
    /\ \A m \in messages : m.conv = c => m.seq \in 1..nextSeq[c]
    /\ \A n \in 1..nextSeq[c] : \E m \in messages : m.conv = c /\ m.seq = n
    /\ \A m, n \in messages : m.conv = c /\ n.conv = c /\ m.seq = n.seq => m = n

\* One message for a send, with a copy for each of its targets; devices have
\* listed up to their cursor, and the answers are about stored messages.
Relay ==
    /\ \A c \in Convs : Numbered(c)
    /\ \A m, n \in messages : SameSend(m, n) => m = n
    /\ \A m \in messages, d \in Devices :
          CopyOf(m, d) \in DOMAIN receipts <=> d \in m.targets
    /\ \A x \in DOMAIN receipts : x.seq <= nextSeq[x.conv]
    /\ \A d \in Devices, c \in Convs : cursor[d][c] <= nextSeq[c]
    /\ \A d \in Devices : \A m \in messages :
          m.seq <= cursor[d][m.conv] => Received(m, d) \in got[d]
    /\ \A a \in answers : \E m \in messages : SameSend(a, m) /\ m.seq = a.seq

\* A request in its transaction.
Writing(q, c) == q.op = "send" /\ q.conv = c /\ q.step \in {"message", "copies"}

\* What a send knows: it alone has the next number, nobody has sent it before
\* once it was inserted, and it is stored once it was committed.
Knows(q) ==
    /\ q.op = "send" /\ q.step \in {"message", "copies"} =>
          q.seq = nextSeq[q.conv] + 1
    /\ q.op = "send" /\ q.step = "copies" => ~Taken(q)
    /\ q.op = "send" /\ q.step = "answer" =>
          \E m \in messages : SameSend(q, m) /\ m.seq = q.seq

Turns ==
    /\ \A r \in Requests : Knows(req[r])
    /\ \A r, s \in Requests, c \in Convs :
          Writing(req[r], c) /\ Writing(req[s], c) => r = s

\* A request that is calm afterwards, or that goes on in its transaction.
LEMMA TurnsStep ==
    ASSUME Base, Turns, NEW r \in Requests, NEW q \in RequestType,
           req' = [req EXCEPT ![r] = q], UNCHANGED <<nextSeq, messages>>,
           Knows(q), \A c \in Convs : Writing(q, c) => Writing(req[r], c)
    PROVE  Turns'
<1>1. /\ req'[r] = q
      /\ \A s \in Requests \ {r} : req'[s] = req[s]
  BY OneRequest DEF Base
<1>2. \A s \in Requests : Knows(req'[s])
  BY <1>1 DEF Turns
<1>3. \A s \in Requests : Knows(req[s])'
  BY <1>2 DEF Knows, Taken
<1>4. \A s, t \in Requests, c \in Convs :
          Writing(req'[s], c) /\ Writing(req'[t], c) => s = t
  BY <1>1 DEF Turns
<1> QED
  BY <1>3, <1>4 DEF Turns, Writing

LEMMA CalmTurns ==
    ASSUME Base, Turns, NEW r \in Requests, Simple(r),
           UNCHANGED <<nextSeq, messages>>
    PROVE  Turns'
<1>1. PICK q \in RequestType : Calm(q) /\ req' = [req EXCEPT ![r] = q]
  BY DEF Simple
<1>2. Knows(q) /\ \A c \in Convs : ~Writing(q, c)
  BY <1>1 DEF Calm, Knows, Writing
<1> QED
  BY <1>1, <1>2, TurnsStep

LEMMA RelayFrame ==
    ASSUME Relay, UNCHANGED <<nextSeq, messages, answers, cursor, got>>,
           DOMAIN receipts' = DOMAIN receipts
    PROVE  Relay'
  BY DEF Relay, Numbered, SameSend, CopyOf, Received

LEMMA AnswerRelay ==
    ASSUME Relay, NEW r \in Requests, NEW m \in messages, SameSend(req[r], m),
           AnswerWith(r, m.seq),
           UNCHANGED <<nextSeq, messages, receipts, cursor, got>>
    PROVE  Relay'
<1> DEFINE new == [conv |-> req[r].conv, dev |-> req[r].dev,
                   cid |-> req[r].cid, seq |-> m.seq]
<1>1. answers' = answers \cup {new}
  BY DEF AnswerWith
<1>2. SameSend(new, m) /\ m.seq = new.seq
  BY DEF SameSend
<1>3. \A a \in answers' : \E n \in messages : SameSend(a, n) /\ n.seq = a.seq
  <2> HIDE DEF new
  <2> QED
    BY <1>1, <1>2 DEF Relay
<1> QED
  BY <1>3 DEF Relay, Numbered, SameSend, CopyOf, Received

\* The next number is given to a request that is alone in its conversation.
LEMMA AssignTurns ==
    ASSUME Base, Turns, NEW r \in Requests, AssignSeq(r)
    PROVE  Turns'
<1>1. req[r] \in RequestType /\ FieldsOf(req[r]) /\ At(r, "send", "assign")
  BY DEF Base, TypeOK, Fields, AssignSeq
<1>2. PICK q \in RequestType :
          /\ req' = [req EXCEPT ![r] = q]
          /\ q = [req[r] EXCEPT !.step = "message",
                                !.seq = nextSeq[req[r].conv] + 1]
  BY AssignBase
<1>3. /\ q.op = "send" /\ q.step = "message" /\ q.conv = req[r].conv
      /\ q.seq = nextSeq[q.conv] + 1
  BY <1>1, <1>2 DEF RequestType, At
<1>4. /\ req'[r] = q
      /\ \A s \in Requests \ {r} : req'[s] = req[s]
  BY <1>2, OneRequest DEF Base
<1>5. UNCHANGED <<nextSeq, messages>>
  BY DEF AssignSeq, chatVars
<1>6. \A s \in Requests : Knows(req[s])'
  BY <1>3, <1>4, <1>5 DEF Turns, Knows, Taken
<1>7. \A s \in Requests : ~Writing(req[s], req[r].conv)
  BY DEF AssignSeq, RowFree, InTransaction, Writing
<1>8. \A s, t \in Requests, c \in Convs :
          Writing(req'[s], c) /\ Writing(req'[t], c) => s = t
  <2> SUFFICES ASSUME NEW s \in Requests, NEW t \in Requests, NEW c \in Convs,
                      Writing(req'[s], c), Writing(req'[t], c), s # t
               PROVE  FALSE
    OBVIOUS
  <2>1. CASE s # r /\ t # r
    BY <2>1, <1>4 DEF Turns
  <2>2. CASE s = r \/ t = r
    <3>1. c = req[r].conv
      BY <2>2, <1>3, <1>4 DEF Writing
    <3> QED
      BY <2>2, <3>1, <1>4, <1>7
  <2> QED
    BY <2>1, <2>2
<1> QED
  BY <1>6, <1>8 DEF Turns, Writing

LEMMA InsertMessageTurns ==
    ASSUME Base, Turns, NEW r \in Requests, InsertMessage(r)
    PROVE  Turns'
<1>1. req[r] \in RequestType /\ At(r, "send", "message") /\ Knows(req[r])
  BY DEF Base, TypeOK, InsertMessage, Turns
<1>2. UNCHANGED <<nextSeq, messages>>
  BY DEF InsertMessage, chatVars
<1>3. CASE Taken(req[r])
  BY <1>2, <1>3, SimpleEnd, CalmTurns DEF InsertMessage
<1>4. CASE ~Taken(req[r])
  <2>1. Goto(r, "copies")
    BY <1>4 DEF InsertMessage
  <2>2. PICK q \in RequestType :
            /\ q = [req[r] EXCEPT !.step = "copies"]
            /\ req' = [req EXCEPT ![r] = q]
    BY <2>1, GotoStep
  <2>3. /\ q.op = "send" /\ q.step = "copies" /\ q.conv = req[r].conv
        /\ q.seq = req[r].seq /\ q.dev = req[r].dev /\ q.cid = req[r].cid
    BY <1>1, <2>2 DEF RequestType, At
  <2>4. Knows(q)
    BY <1>1, <1>4, <2>3 DEF Knows, Taken, SameSend, At
  <2>5. \A c \in Convs : Writing(q, c) => Writing(req[r], c)
    BY <1>1, <2>3 DEF Writing, At
  <2> QED
    BY <1>2, <2>2, <2>4, <2>5, TurnsStep
<1> QED
  BY <1>3, <1>4

\* What a commit writes.
Stored(q) == [conv |-> q.conv, seq |-> q.seq, dev |-> q.dev, cid |-> q.cid,
              targets |-> q.targets]

LEMMA CommitFacts ==
    ASSUME Base, Turns, NEW r \in Requests, CommitMessage(r)
    PROVE  \E q \in RequestType :
              /\ q = req[r] /\ q.op = "send" /\ q.step = "copies"
              /\ q.conv \in Convs /\ q.seq = nextSeq[q.conv] + 1
              /\ nextSeq[q.conv] \in Nat
              /\ \A m \in messages : ~SameSend(q, m)
              /\ nextSeq' = [nextSeq EXCEPT ![q.conv] = q.seq]
              /\ messages' = messages \cup {Stored(q)}
              /\ DOMAIN receipts' = DOMAIN receipts \cup CopiesOf(q)
<1>1. req[r] \in RequestType /\ FieldsOf(req[r]) /\ At(r, "send", "copies")
  BY DEF Base, TypeOK, Fields, CommitMessage
<1>2. req[r].conv \in Convs /\ nextSeq[req[r].conv] \in Nat
  BY <1>1 DEF FieldsOf, At, Base, TypeOK
<1>3. Knows(req[r])
  BY DEF Turns
<1>4. /\ req[r].seq = nextSeq[req[r].conv] + 1
      /\ \A m \in messages : ~SameSend(req[r], m)
  BY <1>1, <1>3 DEF Knows, At, Taken
<1> QED
  BY <1>1, <1>2, <1>4 DEF CommitMessage, Stored, At

LEMMA CommitRelay ==
    ASSUME Base, Base', Relay, Turns, NEW r \in Requests, CommitMessage(r)
    PROVE  Relay'
<1>1. PICK q \in RequestType :
              /\ q = req[r] /\ q.op = "send" /\ q.step = "copies"
              /\ q.conv \in Convs /\ q.seq = nextSeq[q.conv] + 1
              /\ nextSeq[q.conv] \in Nat
              /\ \A m \in messages : ~SameSend(q, m)
              /\ nextSeq' = [nextSeq EXCEPT ![q.conv] = q.seq]
              /\ messages' = messages \cup {Stored(q)}
              /\ DOMAIN receipts' = DOMAIN receipts \cup CopiesOf(q)
  BY CommitFacts
<1>2. PICK w \in messages' :
              /\ messages' = messages \cup {w}
              /\ w.conv = q.conv /\ w.seq = q.seq /\ w.dev = q.dev
              /\ w.cid = q.cid /\ w.targets = q.targets
  <2>1. Stored(q) \in messages' /\ messages' = messages \cup {Stored(q)}
    BY <1>1
  <2>2. /\ Stored(q).conv = q.conv /\ Stored(q).seq = q.seq
        /\ Stored(q).dev = q.dev /\ Stored(q).cid = q.cid
        /\ Stored(q).targets = q.targets
    BY DEF Stored
  <2> QED
    BY <2>1, <2>2
<1>3. UNCHANGED <<answers, cursor, got>>
  BY DEF CommitMessage, readerVars
<1>4. /\ \A c \in Convs : nextSeq[c] \in Nat /\ nextSeq'[c] \in Nat
      /\ \A c \in Convs \ {q.conv} : nextSeq'[c] = nextSeq[c]
      /\ nextSeq'[q.conv] = nextSeq[q.conv] + 1
      /\ w.seq = nextSeq[q.conv] + 1
  BY <1>1, <1>2 DEF Base, TypeOK
<1>5. \A c \in Convs : nextSeq[c] <= nextSeq'[c]
  BY <1>4
<1>6. \A m \in messages : m.conv \in Convs /\ m.seq \in 1..nextSeq[m.conv]
  BY DEF Relay, Numbered, Base, TypeOK, Messages
<1>7. \A c \in Convs : Numbered(c)'
  <2> SUFFICES ASSUME NEW c \in Convs PROVE Numbered(c)'
    OBVIOUS
  <2>1. Numbered(c)
    BY DEF Relay
  <2>2. CASE c # q.conv
    BY <2>1, <2>2, <1>2, <1>4 DEF Numbered
  <2>3. CASE c = q.conv
    <3>1. \A m \in messages' : m.conv = c => m.seq \in 1..nextSeq'[c]
      <4>1. \A m \in messages : m.conv = c => m.seq \in 1..nextSeq'[c]
        BY <2>1, <1>4, <1>5 DEF Numbered
      <4>2. w.seq \in 1..nextSeq'[c]
        BY <2>3, <1>4
      <4> QED
        BY <4>1, <4>2, <1>2
    <3>2. \A n \in 1..nextSeq'[c] : \E m \in messages' : m.conv = c /\ m.seq = n
      <4> SUFFICES ASSUME NEW n \in 1..nextSeq'[c]
                   PROVE  \E m \in messages' : m.conv = c /\ m.seq = n
        OBVIOUS
      <4>1. n \in 1..nextSeq[c] \/ n = w.seq
        BY <2>3, <1>4
      <4>2. CASE n \in 1..nextSeq[c]
        BY <4>2, <2>1, <1>2 DEF Numbered
      <4>3. CASE n = w.seq
        BY <4>3, <2>3, <1>2
      <4> QED
        BY <4>1, <4>2, <4>3
    <3>3. \A m, n \in messages' : m.conv = c /\ n.conv = c /\ m.seq = n.seq => m = n
      <4>1. \A m \in messages : m.conv = c => m.seq # w.seq
        BY <2>1, <2>3, <1>4 DEF Numbered
      <4> QED
        BY <4>1, <2>1, <1>2 DEF Numbered
    <3> QED
      BY <3>1, <3>2, <3>3 DEF Numbered
  <2> QED
    BY <2>2, <2>3
<1>8. \A m, n \in messages' : SameSend(m, n) => m = n
  <2>1. \A m \in messages : ~SameSend(w, m) /\ ~SameSend(m, w)
    BY <1>1, <1>2 DEF SameSend
  <2>2. \A m, n \in messages : SameSend(m, n) => m = n
    BY DEF Relay
  <2> QED
    BY <2>1, <2>2, <1>2
<1>9. \A x \in DOMAIN receipts' : x.seq <= nextSeq'[x.conv]
  <2>1. \A x \in DOMAIN receipts : x.conv \in Convs /\ x.seq \in Nat
                                   /\ x.seq <= nextSeq[x.conv]
    BY DEF Relay, Base, TypeOK, Copies
  <2>2. \A x \in DOMAIN receipts : x.seq <= nextSeq'[x.conv]
    BY <2>1, <1>4, <1>5
  <2>3. \A x \in CopiesOf(q) : x.conv = q.conv /\ x.seq = q.seq
    BY DEF CopiesOf
  <2>4. \A x \in CopiesOf(q) : x.seq <= nextSeq'[x.conv]
    BY <2>3, <1>1, <1>4
  <2> QED
    BY <2>2, <2>4, <1>1
<1>10. \A m \in messages', d \in Devices :
          CopyOf(m, d) \in DOMAIN receipts' <=> d \in m.targets
  <2> SUFFICES ASSUME NEW m \in messages', NEW d \in Devices
               PROVE  CopyOf(m, d) \in DOMAIN receipts' <=> d \in m.targets
    OBVIOUS
  <2>1. CASE m \in messages
    <3>1. ~(m.conv = q.conv /\ m.seq = q.seq)
      BY <2>1, <1>1, <1>4, <1>6
    <3>2. CopyOf(m, d) \notin CopiesOf(q)
      BY <3>1 DEF CopyOf, CopiesOf
    <3> QED
      BY <3>2, <2>1, <1>1 DEF Relay
  <2>2. CASE m = w
    <3>1. CopyOf(m, d) = [conv |-> q.conv, seq |-> q.seq, dev |-> d]
      BY <2>2, <1>2 DEF CopyOf
    <3>2. CopyOf(m, d) \notin DOMAIN receipts
      <4> SUFFICES ASSUME CopyOf(m, d) \in DOMAIN receipts PROVE FALSE
        OBVIOUS
      <4>1. CopyOf(m, d).seq <= nextSeq[CopyOf(m, d).conv]
        BY DEF Relay
      <4>2. q.seq <= nextSeq[q.conv]
        BY <4>1, <3>1
      <4> QED
        BY <4>2, <1>1
    <3>3. CopyOf(m, d) \in CopiesOf(q) <=> d \in q.targets
      <4>1. CopyOf(m, d).dev = d
        BY DEF CopyOf
      <4>2. \A x \in CopiesOf(q) : x.dev \in q.targets
        BY DEF CopiesOf
      <4>3. d \in q.targets => CopyOf(m, d) \in CopiesOf(q)
        BY <3>1 DEF CopiesOf
      <4> QED
        BY <4>1, <4>2, <4>3
    <3> QED
      BY <3>2, <3>3, <2>2, <1>1, <1>2
  <2> QED
    BY <2>1, <2>2, <1>2
<1>11. \A d \in Devices, c \in Convs : cursor[d][c] <= nextSeq'[c]
  <2>1. \A d \in Devices, c \in Convs : cursor[d][c] <= nextSeq[c]
                                       /\ cursor[d][c] \in Nat
    BY DEF Relay, Base, TypeOK
  <2> QED
    BY <2>1, <1>4, <1>5
<1>12. \A d \in Devices : \A m \in messages' :
          m.seq <= cursor[d][m.conv] => Received(m, d) \in got[d]
  <2> SUFFICES ASSUME NEW d \in Devices, NEW m \in messages',
                      m.seq <= cursor[d][m.conv]
               PROVE  Received(m, d) \in got[d]
    OBVIOUS
  <2>1. m # w
    <3>1. /\ cursor[d][q.conv] <= nextSeq[q.conv]
          /\ cursor[d][q.conv] \in Nat
      BY <1>1 DEF Relay, Base, TypeOK
    <3>2. m = w => w.seq <= cursor[d][q.conv]
      BY <1>2
    <3> QED
      BY <3>1, <3>2, <1>1, <1>4
  <2> QED
    BY <2>1, <1>2 DEF Relay
<1>13. \A a \in answers : \E m \in messages' : SameSend(a, m) /\ m.seq = a.seq
  BY <1>2 DEF Relay
<1> QED
  BY <1>3, <1>7, <1>8, <1>9, <1>10, <1>11, <1>12, <1>13
     DEF Relay, SameSend, CopyOf, Received

LEMMA CommitTurns ==
    ASSUME Base, Turns, NEW r \in Requests, CommitMessage(r)
    PROVE  Turns'
<1>1. PICK q \in RequestType :
              /\ q = req[r] /\ q.op = "send" /\ q.step = "copies"
              /\ q.conv \in Convs /\ q.seq = nextSeq[q.conv] + 1
              /\ nextSeq[q.conv] \in Nat
              /\ \A m \in messages : ~SameSend(q, m)
              /\ nextSeq' = [nextSeq EXCEPT ![q.conv] = q.seq]
              /\ messages' = messages \cup {Stored(q)}
              /\ DOMAIN receipts' = DOMAIN receipts \cup CopiesOf(q)
  BY CommitFacts
<1>2. PICK p \in RequestType :
          /\ p = [req[r] EXCEPT !.step = "answer"]
          /\ req' = [req EXCEPT ![r] = p]
  BY GotoStep DEF CommitMessage
<1>3. /\ p.op = "send" /\ p.step = "answer" /\ p.conv = q.conv
      /\ p.dev = q.dev /\ p.cid = q.cid /\ p.seq = q.seq
  BY <1>1, <1>2 DEF RequestType
<1>4. /\ req'[r] = p
      /\ \A s \in Requests \ {r} : req'[s] = req[s]
  BY <1>2, OneRequest DEF Base
<1>5. \A s, t \in Requests, c \in Convs :
          Writing(req'[s], c) /\ Writing(req'[t], c) => s = t
  BY <1>3, <1>4 DEF Turns, Writing
<1>6. ASSUME NEW s \in Requests PROVE Knows(req[s])'
  <2>1. CASE s = r
    <3>1. Stored(q) \in messages' /\ SameSend(p, Stored(q)) /\ Stored(q).seq = p.seq
      BY <1>1, <1>3 DEF Stored, SameSend
    <3>2. \E m \in messages' : SameSend(p, m) /\ m.seq = p.seq
      BY <3>1
    <3> QED
      BY <3>2, <2>1, <1>3, <1>4 DEF Knows, SameSend, Taken
  <2>2. CASE s # r
    <3>1. req'[s] = req[s] /\ Knows(req[s])
      BY <2>2, <1>4 DEF Turns
    <3>2. PICK o \in RequestType : o = req[s]
      BY DEF Base, TypeOK
    <3>3. ASSUME o.op = "send", o.step \in {"message", "copies"}
          PROVE  /\ o.seq = nextSeq'[o.conv]  + 1
                 /\ o.step = "copies" => \A m \in messages' : ~SameSend(o, m)
      <4>1. o.conv # q.conv
        <5>1. Writing(req[r], q.conv)
          BY <1>1 DEF Writing
        <5>2. ~Writing(req[s], q.conv)
          BY <5>1, <2>2, <1>1 DEF Turns
        <5> QED
          BY <5>2, <3>2, <3>3 DEF Writing
      <4>2. o.conv \in Convs
        BY <3>2, <3>3 DEF Base, Fields, FieldsOf
      <4>3. nextSeq'[o.conv] = nextSeq[o.conv]
        BY <4>1, <4>2, <1>1 DEF Base, TypeOK
      <4>4. ~SameSend(o, Stored(q))
        BY <4>1 DEF SameSend, Stored
      <4> QED
        BY <4>3, <4>4, <3>1, <3>2, <3>3, <1>1 DEF Knows, Taken
    <3>4. ASSUME o.op = "send", o.step = "answer"
          PROVE  \E m \in messages' : SameSend(o, m) /\ m.seq = o.seq
      BY <3>1, <3>2, <3>4, <1>1 DEF Knows
    <3> QED
      BY <3>1, <3>2, <3>3, <3>4 DEF Knows, Taken, SameSend
  <2> QED
    BY <2>1, <2>2
<1> QED
  BY <1>5, <1>6 DEF Turns, Writing

\* A page ends where the next one begins.
LEMMA PageWhole ==
    ASSUME Base, NEW d, NEW c, NEW last \in Page(d, c),
           NEW m \in Later(d, c), m.seq <= last.seq
    PROVE  m \in Page(d, c)
<1> DEFINE before(n) == {x \in Later(d, c) : x.seq < n.seq}
<1>1. Later(d, c) \subseteq messages /\ last \in Later(d, c)
  BY DEF Later, Page
<1>2. IsFiniteSet(before(last))
  <2>1. before(last) \subseteq messages /\ IsFiniteSet(messages)
    BY <1>1 DEF Base, TypeOK
  <2> QED
    BY <2>1, FS_Subset
<1>3. before(m) \subseteq before(last)
  <2>1. \A x \in Later(d, c) : x.seq \in Nat
    BY <1>1 DEF Base, TypeOK, Messages
  <2> QED
    BY <2>1, <1>1
<1>4. /\ Cardinality(before(m)) <= Cardinality(before(last))
      /\ Cardinality(before(m)) \in Nat /\ Cardinality(before(last)) \in Nat
  BY <1>2, <1>3, FS_Subset, FS_CardinalityType
<1>5. Cardinality(before(last)) < PageSize
  BY DEF Page
<1>6. Cardinality(before(m)) < PageSize
  <2> HIDE DEF before
  <2> QED
    BY <1>4, <1>5, BoundsAssumption DEF BoundsAssumption
<1> QED
  BY <1>6 DEF Page

LEMMA ListRelay ==
    ASSUME Base, Relay, NEW d \in Devices, NEW c \in Convs, ListMessages(d, c)
    PROVE  Relay'
<1>1. PICK last \in Page(d, c) :
          /\ \A m \in Page(d, c) : m.seq <= last.seq
          /\ cursor' = [cursor EXCEPT ![d][c] = last.seq]
  BY DEF ListMessages
<1>2. UNCHANGED <<nextSeq, messages, receipts, answers>>
  BY DEF ListMessages, chatVars
<1>3. /\ last \in messages /\ last.conv = c /\ last.seq \in Nat
      /\ last.seq <= nextSeq[c]
  BY DEF Page, Later, Relay, Numbered, Base, TypeOK, Messages
<1>4. /\ cursor'[d][c] = last.seq
      /\ \A e \in Devices, g \in Convs :
            ~(e = d /\ g = c) => cursor'[e][g] = cursor[e][g]
  BY <1>1 DEF Base, TypeOK
<1>5. \A e \in Devices, g \in Convs : cursor'[e][g] <= nextSeq[g]
  BY <1>3, <1>4 DEF Relay
<1>6. DEFINE page == {[conv |-> c, seq |-> m.seq, whole |->
                         [conv |-> c, seq |-> m.seq, dev |-> d] \in DOMAIN receipts]
                      : m \in Page(d, c)}
<1>7. got' = [got EXCEPT ![d] = @ \cup page]
  BY DEF ListMessages
<1>8. \A m \in Page(d, c) : Received(m, d) \in page
  <2> SUFFICES ASSUME NEW m \in Page(d, c) PROVE Received(m, d) \in page
    OBVIOUS
  <2>1. m \in messages /\ m.conv = c
    BY DEF Page, Later
  <2>2. [conv |-> c, seq |-> m.seq, dev |-> d] \in DOMAIN receipts
            <=> d \in m.targets
    BY <2>1 DEF Relay, CopyOf
  <2>3. ([conv |-> c, seq |-> m.seq, dev |-> d] \in DOMAIN receipts)
            = (d \in m.targets)
    BY <2>2
  <2>4. Received(m, d) = [conv |-> c, seq |-> m.seq, whole |->
               [conv |-> c, seq |-> m.seq, dev |-> d] \in DOMAIN receipts]
    BY <2>1, <2>3 DEF Received
  <2> QED
    BY <2>4
<1> HIDE DEF page
<1>9. \A e \in Devices : got[e] \subseteq got'[e]
  BY <1>7 DEF Base, TypeOK
<1>10. page \subseteq got'[d]
  BY <1>7 DEF Base, TypeOK
<1>11. ASSUME NEW e \in Devices, NEW m \in messages,
              m.seq <= cursor'[e][m.conv]
       PROVE  Received(m, e) \in got'[e]
  <2>1. m.conv \in Convs /\ m.seq \in Nat /\ cursor[e][m.conv] \in Nat
    BY DEF Base, TypeOK, Messages
  <2>2. CASE m.seq <= cursor[e][m.conv]
    BY <2>2, <1>9 DEF Relay
  <2>3. CASE ~(m.seq <= cursor[e][m.conv])
    <3>1. e = d /\ m.conv = c /\ m.seq <= last.seq
      BY <2>1, <2>3, <1>4, <1>11
    <3>2. m \in Later(d, c)
      BY <3>1, <2>1, <2>3 DEF Later
    <3>3. m \in Page(d, c)
      BY <3>1, <3>2, PageWhole
    <3> QED
      BY <3>1, <3>3, <1>8, <1>10
  <2> QED
    BY <2>2, <2>3
<1> QED
  BY <1>2, <1>5, <1>11 DEF Relay, Numbered, SameSend, CopyOf, Received

LEMMA AnswerSendRelay ==
    ASSUME Base, Relay, Turns, NEW r \in Requests,
           AnswerSend(r) \/ GetMessageByDedupeKey(r)
    PROVE  Relay' /\ Turns'
<1>1. /\ Simple(r)
      /\ UNCHANGED <<nextSeq, messages, receipts, cursor, got>>
  BY DedupeSimple, SimpleEnd DEF AnswerSend, readerVars
<1>2. Turns'
  BY <1>1, CalmTurns
<1>3. ASSUME AnswerSend(r) PROVE Relay'
  <2>1. PICK m \in messages : SameSend(req[r], m) /\ m.seq = req[r].seq
    BY <1>3 DEF AnswerSend, At, Turns, Knows
  <2>2. AnswerWith(r, m.seq)
    BY <1>3, <2>1 DEF AnswerSend
  <2> QED
    BY <1>1, <2>1, <2>2, AnswerRelay
<1>4. ASSUME GetMessageByDedupeKey(r) PROVE Relay'
  <2>1. \/ UNCHANGED answers
        \/ \E m \in messages : SameSend(req[r], m) /\ AnswerWith(r, m.seq)
    BY <1>4, DedupeSimple
  <2> QED
    BY <1>1, <2>1, AnswerRelay, RelayFrame
<1> QED
  BY <1>2, <1>3, <1>4

\* Steps that touch no message.
LEMMA FrameRelay ==
    ASSUME Base, Relay, Turns, NEW r \in Requests, Simple(r),
           UNCHANGED <<chatVars, readerVars>>
    PROVE  Relay' /\ Turns'
  BY RelayFrame, CalmTurns DEF chatVars, readerVars

LEMMA BundleRelay ==
    ASSUME Base, Relay, Turns, NEW r \in Requests,
           SelectPrekey(r) \/ TakePrekey(r) \/ AnswerBundle(r)
    PROVE  Relay' /\ Turns'
<1>1. UNCHANGED <<chatVars, readerVars>>
  BY DEF SelectPrekey, TakePrekey, AnswerBundle
<1>2. ASSUME NEW q \in RequestType, q.op = "bundle", req' = [req EXCEPT ![r] = q]
      PROVE  Turns'
  <2>1. Knows(q) /\ \A c \in Convs : ~Writing(q, c)
    BY <1>2 DEF Knows, Writing
  <2> QED
    BY <1>1, <1>2, <2>1, TurnsStep DEF chatVars
<1>3. ASSUME Goto(r, "count"), req[r].op = "bundle" PROVE Turns'
  <2>1. PICK q \in RequestType :
            /\ q = [req[r] EXCEPT !.step = "count"]
            /\ req' = [req EXCEPT ![r] = q]
    BY <1>3, GotoStep
  <2>2. q.op = "bundle"
    BY <2>1, <1>3 DEF RequestType
  <2> QED
    BY <2>1, <2>2, <1>2
<1>4. CASE SelectPrekey(r)
  <2>1. req[r].op = "bundle"
    BY <1>4 DEF SelectPrekey, At
  <2>2. PICK q \in RequestType :
            /\ req' = [req EXCEPT ![r] = q]
            /\ Goto(r, "count") \/ q.op = "bundle"
    BY <1>4, SelectBase
  <2> QED
    BY <2>1, <2>2, <1>1, <1>2, <1>3, RelayFrame DEF chatVars, readerVars
<1>5. CASE TakePrekey(r)
  BY <1>1, <1>3, <1>5, RelayFrame DEF TakePrekey, At, chatVars, readerVars
<1>6. CASE AnswerBundle(r)
  BY <1>1, <1>6, SimpleEnd, FrameRelay DEF AnswerBundle
<1> QED
  BY <1>4, <1>5, <1>6

LEMMA InitRelay == Init => Relay /\ Turns
<1> SUFFICES ASSUME Init PROVE Relay /\ Turns
  OBVIOUS
<1>1. \A c \in Convs : Numbered(c)
  BY DEF Init, Numbered
<1>2. Relay
  BY <1>1 DEF Init, Relay
<1>3. Turns
  BY DEF Init, Idle, Turns, Knows, Writing
<1> QED
  BY <1>2, <1>3

LEMMA NextRelay == Base /\ Relay /\ Turns /\ [Next]_vars => Relay' /\ Turns'
<1> SUFFICES ASSUME Base, Relay, Turns, [Next]_vars PROVE Relay' /\ Turns'
  OBVIOUS
<1>1. Base'
  BY NextBase
<1>2. CASE UNCHANGED <<nextSeq, messages, receipts, answers, cursor, got, req>>
  <2>1. Relay'
    BY <1>2, RelayFrame
  <2>2. Turns'
    BY <1>2 DEF Turns, Knows, Taken, Writing
  <2> QED
    BY <2>1, <2>2
<1>3. ASSUME NEW r \in Requests, Step(r) PROVE Relay' /\ Turns'
  <2>1. CASE TopUpPrekeys(r) \/ TopUpOne(r) \/ GetPrekeyBundle(r)
    BY <2>1, TopUpSimple, TopUpOneSimple, GetSimple, FrameRelay
  <2>2. CASE SelectPrekey(r) \/ TakePrekey(r) \/ AnswerBundle(r)
    BY <2>2, BundleRelay
  <2>3. CASE FindDirectConversation(r) \/ CreateConversation(r)
    BY <2>3, CreateSimple, RelayFrame, CalmTurns DEF readerVars
  <2>4. CASE CheckSender(r) \/ CheckTargets(r) \/ CheckAck(r)
    BY <2>4, CheckSimple, CheckAckSimple, FrameRelay
  <2>5. CASE GetMessageByDedupeKey(r) \/ AnswerSend(r)
    BY <2>5, AnswerSendRelay
  <2>6. CASE AssignSeq(r)
    BY <2>6, AssignTurns, RelayFrame DEF AssignSeq, chatVars, readerVars
  <2>7. CASE InsertMessage(r)
    BY <2>7, InsertMessageTurns, RelayFrame
       DEF InsertMessage, chatVars, readerVars
  <2>8. CASE CommitMessage(r)
    BY <2>8, <1>1, CommitRelay, CommitTurns
  <2>9. CASE AckMessage(r)
    BY <2>9, AckSimple, RelayFrame, CalmTurns DEF readerVars
  <2> QED
    BY <1>3, <2>1, <2>2, <2>3, <2>4, <2>5, <2>6, <2>7, <2>8, <2>9 DEF Step
<1>4. ASSUME NEW r \in Requests, AskAny(r) \/ Fail(r) PROVE Relay' /\ Turns'
  BY <1>4, AskSimple, FailSimple, FrameRelay
<1>5. ASSUME NEW d \in Devices,
             \/ \E g \in Identities, ks \in SUBSET KeyIds : RegisterDevice(d, g, ks)
             \/ RevokeDevice(d)
      PROVE  Relay' /\ Turns'
  BY <1>2, <1>5 DEF RegisterDevice, RevokeDevice, chatVars, readerVars
<1>6. ASSUME NEW d \in Devices, NEW c \in Convs, ListMessages(d, c)
      PROVE  Relay' /\ Turns'
  <2>1. Turns'
    BY <1>6 DEF ListMessages, chatVars, Turns, Knows, Taken, Writing
  <2> QED
    BY <1>6, <2>1, ListRelay
<1>7. CASE UNCHANGED vars
  BY <1>2, <1>7 DEF vars, chatVars, readerVars
<1> QED
  BY <1>3, <1>4, <1>5, <1>6, <1>7 DEF Next

LEMMA RelayInvariant == Spec => [](Base /\ Relay /\ Turns)
  BY InitBase, NextBase, InitRelay, NextRelay, PTL DEF Spec

\* A conversation's messages carry the numbers 1 to next_seq, each once: the
\* UPDATE that takes the number locks the conversation until the message is
\* committed, and a send that fails gives its number back.
THEOREM SequenceDenseTheorem == Spec => []SequenceDense
<1>1. ASSUME Base, Relay PROVE SequenceDense
  <2> SUFFICES ASSUME NEW c \in Convs
               PROVE  LET own == {m \in messages : m.conv = c}
                      IN  /\ {m.seq : m \in own} = 1..nextSeq[c]
                          /\ \A m, n \in own : m.seq = n.seq => m = n
    BY DEF SequenceDense
  <2>1. Numbered(c)
    BY <1>1 DEF Relay
  <2> QED
    BY <2>1 DEF Numbered
<1> QED
  BY <1>1, RelayInvariant, PTL

\* Whatever overlaps, fails or is repeated, a device that pages with the last
\* number it has seen steps over no message: one that commits late has a
\* number after every one that could have been listed.
THEOREM CursorMissesNothingTheorem == Spec => []CursorMissesNothing
<1>1. ASSUME Base, Relay PROVE CursorMissesNothing
  BY <1>1 DEF Relay, Received, CursorMissesNothing
<1> QED
  BY <1>1, RelayInvariant, PTL

\* Every answer to a send, first or repeated, names the one stored message.
THEOREM OneMessagePerSendTheorem == Spec => []OneMessagePerSend
<1>1. ASSUME Base, Relay PROVE OneMessagePerSend
  <2> SUFFICES ASSUME NEW a \in answers
               PROVE  /\ \E m \in messages : SameSend(a, m) /\ m.seq = a.seq
                      /\ \A m \in messages : SameSend(a, m) => m.seq = a.seq
    BY DEF OneMessagePerSend
  <2>1. PICK n \in messages : SameSend(a, n) /\ n.seq = a.seq
    BY <1>1 DEF Relay
  <2>2. \A m \in messages : SameSend(a, m) => SameSend(m, n)
    BY <2>1 DEF SameSend
  <2>3. \A m \in messages : SameSend(m, n) => m = n
    BY <1>1 DEF Relay
  <2> QED
    BY <2>1, <2>2, <2>3
<1> QED
  BY <1>1, RelayInvariant, PTL
-----------------------------------------------------------------------------
\* A receipt that was read never becomes delivered again, whatever the order
\* of the acknowledgements and of the statements that write them.
THEOREM ReceiptsForwardTheorem == Spec => ReceiptsForward
<1> DEFINE A == \A x \in DOMAIN receipts :
                   /\ x \in DOMAIN receipts'
                   /\ Rank(receipts[x]) <= Rank(receipts'[x])
<1>1. ASSUME Base, [Next]_vars PROVE [A]_vars
  <2>1. \A x \in DOMAIN receipts : receipts[x] \in Marks
    BY <1>1 DEF Base, TypeOK
  <2>2. \A mark \in Marks : Rank(mark) \in Nat
    BY DEF Marks, Rank
  <2>3. ASSUME receipts' = receipts PROVE A
    BY <2>1, <2>2, <2>3
  <2>4. ASSUME NEW r \in Requests, CommitMessage(r) PROVE A
    <3>1. \A x \in DOMAIN receipts : x \in DOMAIN receipts'
                                    /\ receipts'[x] = receipts[x]
      BY <2>4 DEF CommitMessage
    <3> QED
      BY <2>1, <2>2, <3>1
  <2>5. ASSUME NEW r \in Requests, AckMessage(r) PROVE A
    <3> DEFINE x == [conv |-> req[r].conv, seq |-> req[r].seq, dev |-> req[r].dev]
    <3>1. CASE receipts[x] \in Updates(req[r].mark)
      <4>1. receipts' = [receipts EXCEPT ![x] = req[r].mark]
        BY <2>5, <3>1 DEF AckMessage
      <4>2. receipts[x] \in Marks /\ req[r].mark \in Marks
        BY <3>1, <1>1 DEF Updates, Marks, Base, TypeOK, RequestType
      <4>3. Rank(receipts[x]) <= Rank(req[r].mark)
        BY <3>1, <4>2 DEF Updates, Marks, Rank
      <4>4. receipts = [y \in DOMAIN receipts |-> receipts[y]]
        BY <1>1 DEF Base, TypeOK
      <4> HIDE DEF x
      <4>5. /\ DOMAIN receipts' = DOMAIN receipts
            /\ \A y \in DOMAIN receipts : y # x => receipts'[y] = receipts[y]
            /\ x \in DOMAIN receipts => receipts'[x] = req[r].mark
        BY <4>1, <4>4
      <4> QED
        BY <2>1, <2>2, <4>3, <4>5
    <3>2. CASE receipts[x] \notin Updates(req[r].mark)
      <4>1. receipts' = receipts
        BY <2>5, <3>2 DEF AckMessage
      <4> QED
        BY <2>3, <4>1
    <3> QED
      BY <3>1, <3>2
  <2> HIDE DEF A
  <2>6. ASSUME NEW r \in Requests, Step(r) PROVE A
    <3>1. CASE CommitMessage(r) \/ AckMessage(r)
      BY <3>1, <2>4, <2>5
    <3>2. CASE ~(CommitMessage(r) \/ AckMessage(r))
      <4>1. CASE SelectPrekey(r) \/ TakePrekey(r) \/ AnswerBundle(r)
        BY <2>3, <4>1 DEF SelectPrekey, TakePrekey, AnswerBundle, chatVars
      <4>2. CASE AssignSeq(r) \/ InsertMessage(r) \/ AnswerSend(r)
        BY <2>3, <4>2 DEF AssignSeq, InsertMessage, AnswerSend, chatVars
      <4>3. CASE ~(SelectPrekey(r) \/ TakePrekey(r) \/ AnswerBundle(r))
                 /\ ~(AssignSeq(r) \/ InsertMessage(r) \/ AnswerSend(r))
        <5>1. UNCHANGED receipts
          BY <1>1, <2>6, <3>2, <4>3, TopUpSimple, TopUpOneSimple, GetSimple,
             CreateSimple, CheckSimple, CheckAckSimple, DedupeSimple
             DEF Step, chatVars
        <5> QED
          BY <2>3, <5>1
      <4> QED
        BY <4>1, <4>2, <4>3
    <3> QED
      BY <3>1, <3>2
  <2>7. ASSUME NEW r \in Requests, AskAny(r) \/ Fail(r) PROVE A
    <3>1. UNCHANGED receipts
      BY <1>1, <2>7, AskSimple DEF Fail, chatVars
    <3> QED
      BY <2>3, <3>1
  <2>8. ASSUME NEW d \in Devices,
               \/ \E g \in Identities, ks \in SUBSET KeyIds : RegisterDevice(d, g, ks)
               \/ RevokeDevice(d)
               \/ \E c \in Convs : ListMessages(d, c)
        PROVE  A
    <3>1. UNCHANGED receipts
      BY <2>8 DEF RegisterDevice, RevokeDevice, ListMessages, chatVars
    <3> QED
      BY <2>3, <3>1
  <2>9. CASE UNCHANGED vars
    BY <2>9
  <2> QED
    BY <1>1, <2>6, <2>7, <2>8, <2>9 DEF Next
<1>2. Spec => []Base
  BY InitBase, NextBase, PTL DEF Spec
<1> QED
  BY <1>1, <1>2, PTL DEF Spec, ReceiptsForward

-----------------------------------------------------------------------------
(***************************************************************************)
(* The realtime hub.                                                       *)
(***************************************************************************)

Frame == [event : Nat, by : Instances]

Mine(m, i) == m.by = i /\ m.event > 0

\* The events of i in a list grow; those of one list are older than those of
\* another, or than one frame; and none is newer than n.
Sorted(s, i) ==
  \A j, k \in 1 .. Len(s) :
    j < k /\ Mine(s[j], i) /\ Mine(s[k], i) => s[j].event < s[k].event

Below(s, m, i) ==
  \A j \in 1 .. Len(s) : Mine(s[j], i) /\ Mine(m, i) => s[j].event < m.event

Above(s, m, i) ==
  \A j \in 1 .. Len(s) : Mine(s[j], i) /\ Mine(m, i) => m.event < s[j].event

Before(s, t, i) == \A k \in 1 .. Len(t) : Below(s, t[k], i)

UpTo(s, n, i) == \A j \in 1 .. Len(s) : Mine(s[j], i) => s[j].event <= n

\* The stages of a way, from the client back to the changes.
Ways == [1 .. 5 -> Seq(Frame)]

Chain(P, n, i) ==
  \A a \in 1 .. 5 :
    /\ Sorted(P[a], i) /\ UpTo(P[a], n, i)
    /\ \A b \in 1 .. 5 : a < b => Before(P[a], P[b], i)

\* A stage that has lost frames, or got one that is not an event of i.
Thin(q, p, i) ==
  \/ q = p
  \/ q = <<>>
  \/ p # <<>> /\ q = Tail(p)
  \/ \E m \in Frame : ~Mine(m, i) /\ q = Append(p, m)

----------------------------------------------------------------------------
(***************************************************************************)
(* Lists of frames.                                                        *)
(***************************************************************************)

\* What a list and its length are after an append.
LEMMA Appended ==
  ASSUME NEW s \in Seq(Frame), NEW m \in Frame
  PROVE  /\ Append(s, m) \in Seq(Frame) /\ Len(s) \in Nat
         /\ Len(Append(s, m)) = Len(s) + 1
         /\ Append(s, m)[Len(s) + 1] = m
         /\ \A j \in 1 .. Len(s) : Append(s, m)[j] = s[j]
         /\ \A j \in 1 .. Len(s) + 1 : j \in 1 .. Len(s) \/ j = Len(s) + 1
  BY AppendProperties, LenProperties

\* What a list and its length are without the head.
LEMMA Tailed ==
  ASSUME NEW s \in Seq(Frame), s # <<>>
  PROVE  /\ Head(s) \in Frame /\ Tail(s) \in Seq(Frame)
         /\ Len(s) \in Nat \ {0} /\ Head(s) = s[1]
         /\ Len(Tail(s)) = Len(s) - 1
         /\ \A j \in 1 .. Len(Tail(s)) :
              Tail(s)[j] = s[j + 1] /\ j + 1 \in 1 .. Len(s) /\ 1 < j + 1
  <1>1. /\ Head(s) \in Frame /\ Tail(s) \in Seq(Frame)
        /\ Len(s) \in Nat \ {0} /\ Head(s) = s[1]
        /\ Len(Tail(s)) = Len(s) - 1
        /\ \A j \in 1 .. Len(Tail(s)) : Tail(s)[j] = s[j + 1]
    BY HeadTailProperties, EmptySeq
  <1> QED
    BY <1>1

\* A list keeps its order with an event that is newer at its end.
LEMMA SortedAppend ==
  ASSUME NEW s \in Seq(Frame), NEW m \in Frame, NEW i,
         Sorted(s, i), Below(s, m, i)
  PROVE  Sorted(Append(s, m), i)
<1> DEFINE q == Append(s, m)
<1>1. /\ Len(q) = Len(s) + 1 /\ Len(s) \in Nat
      /\ q[Len(s) + 1] = m
      /\ \A j \in 1 .. Len(s) : q[j] = s[j]
      /\ \A j \in 1 .. Len(s) + 1 : j \in 1 .. Len(s) \/ j = Len(s) + 1
  BY Appended
<1> HIDE DEF q
<1>2. ASSUME NEW j \in 1 .. Len(q), NEW k \in 1 .. Len(q),
             j < k, Mine(q[j], i), Mine(q[k], i)
      PROVE  q[j].event < q[k].event
  <2>1. j \in 1 .. Len(s) /\ q[j] = s[j]
    BY <1>1, <1>2
  <2>2. CASE k \in 1 .. Len(s)
    BY <1>1, <1>2, <2>1, <2>2 DEF Sorted
  <2>3. CASE k = Len(s) + 1
    BY <1>1, <1>2, <2>1, <2>3 DEF Below
  <2> QED
    BY <1>1, <2>2, <2>3
<1> QED
  BY <1>2 DEF Sorted, q

\* The lists before and after another stay so when it gets a frame.
LEMMA BeforeAppend ==
  ASSUME NEW s \in Seq(Frame), NEW t \in Seq(Frame), NEW m \in Frame, NEW i,
         Before(s, t, i)
  PROVE  /\ Above(t, m, i) => Before(Append(s, m), t, i)
         /\ Below(s, m, i) => Before(s, Append(t, m), i)
<1>1. ASSUME Above(t, m, i)
      PROVE  Before(Append(s, m), t, i)
  <2> DEFINE q == Append(s, m)
  <2>1. /\ Len(q) = Len(s) + 1
        /\ q[Len(s) + 1] = m
        /\ \A j \in 1 .. Len(s) : q[j] = s[j]
        /\ \A j \in 1 .. Len(s) + 1 : j \in 1 .. Len(s) \/ j = Len(s) + 1
    BY Appended
  <2> HIDE DEF q
  <2>2. ASSUME NEW k \in 1 .. Len(t), NEW j \in 1 .. Len(q),
               Mine(q[j], i), Mine(t[k], i)
        PROVE  q[j].event < t[k].event
    <3>1. CASE j \in 1 .. Len(s)
      BY <2>1, <2>2, <3>1 DEF Before, Below
    <3>2. CASE j = Len(s) + 1
      BY <1>1, <2>1, <2>2, <3>2 DEF Above
    <3> QED
      BY <2>1, <3>1, <3>2
  <2> QED
    BY <2>2 DEF Before, Below, q
<1>2. ASSUME Below(s, m, i)
      PROVE  Before(s, Append(t, m), i)
  <2> DEFINE q == Append(t, m)
  <2>1. /\ Len(q) = Len(t) + 1
        /\ q[Len(t) + 1] = m
        /\ \A j \in 1 .. Len(t) : q[j] = t[j]
        /\ \A j \in 1 .. Len(t) + 1 : j \in 1 .. Len(t) \/ j = Len(t) + 1
    BY Appended
  <2> HIDE DEF q
  <2>2. \A k \in 1 .. Len(q) : Below(s, q[k], i)
    BY <1>2, <2>1 DEF Before
  <2> QED
    BY <2>2 DEF Before, q
<1> QED
  BY <1>1, <1>2

\* The head of a list is older than its tail, and in its place among others.
LEMMA HeadOrder ==
  ASSUME NEW s \in Seq(Frame), s # <<>>, NEW t \in Seq(Frame), NEW i
  PROVE  /\ Sorted(s, i) => Sorted(Tail(s), i) /\ Above(Tail(s), Head(s), i)
         /\ Before(s, t, i) => Before(Tail(s), t, i) /\ Above(t, Head(s), i)
         /\ Before(t, s, i) => Before(t, Tail(s), i) /\ Below(t, Head(s), i)
<1> DEFINE q == Tail(s)
<1>1. /\ Head(s) = s[1] /\ 1 \in 1 .. Len(s)
      /\ Len(s) \in Nat /\ Len(q) = Len(s) - 1
      /\ \A j \in 1 .. Len(q) : q[j] = s[j + 1] /\ j + 1 \in 1 .. Len(s)
                                /\ 1 < j + 1
  BY Tailed
<1> HIDE DEF q
<1>2. ASSUME Sorted(s, i)
      PROVE  Sorted(q, i) /\ Above(q, Head(s), i)
  <2>1. ASSUME NEW j \in 1 .. Len(q), NEW k \in 1 .. Len(q),
               j < k, Mine(q[j], i), Mine(q[k], i)
        PROVE  q[j].event < q[k].event
    <3>1. j + 1 < k + 1
      BY <1>1, <2>1
    <3> QED
      BY <1>1, <1>2, <2>1, <3>1 DEF Sorted
  <2>2. ASSUME NEW j \in 1 .. Len(q), Mine(q[j], i), Mine(Head(s), i)
        PROVE  Head(s).event < q[j].event
    BY <1>1, <1>2, <2>2 DEF Sorted
  <2> QED
    BY <2>1, <2>2 DEF Sorted, Above
<1>3. Before(s, t, i) => Before(q, t, i) /\ Above(t, Head(s), i)
  BY <1>1 DEF Before, Below, Above
<1>4. Before(t, s, i) => Before(t, q, i) /\ Below(t, Head(s), i)
  BY <1>1 DEF Before
<1> QED
  BY <1>2, <1>3, <1>4 DEF q

\* Nothing is out of order in, before or after an empty list.
LEMMA EmptyOrder ==
  ASSUME NEW i, NEW n, NEW t
  PROVE  /\ Sorted(<<>>, i) /\ UpTo(<<>>, n, i)
         /\ Before(<<>>, t, i) /\ Before(t, <<>>, i)
<1>1. Len(<<>>) = 0 /\ 1 .. 0 = {}
  OBVIOUS
<1> QED
  BY <1>1 DEF Sorted, UpTo, Before, Below

\* A bound on the events of a list holds for its tail, and with a frame that
\* keeps it.
LEMMA UpToStep ==
  ASSUME NEW s \in Seq(Frame), NEW n, NEW i, UpTo(s, n, i)
  PROVE  /\ s # <<>> =>
              UpTo(Tail(s), n, i) /\ (Mine(Head(s), i) => Head(s).event <= n)
         /\ \A m \in Frame :
              (Mine(m, i) => m.event <= n) => UpTo(Append(s, m), n, i)
<1>1. ASSUME s # <<>>
      PROVE  UpTo(Tail(s), n, i) /\ (Mine(Head(s), i) => Head(s).event <= n)
  <2>1. /\ Head(s) = s[1] /\ 1 \in 1 .. Len(s)
        /\ \A j \in 1 .. Len(Tail(s)) :
             Tail(s)[j] = s[j + 1] /\ j + 1 \in 1 .. Len(s)
    BY Tailed, <1>1
  <2> QED
    BY <2>1 DEF UpTo
<1>2. ASSUME NEW m \in Frame, Mine(m, i) => m.event <= n
      PROVE  UpTo(Append(s, m), n, i)
  <2> DEFINE q == Append(s, m)
  <2>1. /\ Len(q) = Len(s) + 1
        /\ q[Len(s) + 1] = m
        /\ \A j \in 1 .. Len(s) : q[j] = s[j]
        /\ \A j \in 1 .. Len(s) + 1 : j \in 1 .. Len(s) \/ j = Len(s) + 1
    BY Appended
  <2> HIDE DEF q
  <2>2. \A j \in 1 .. Len(q) : Mine(q[j], i) => q[j].event <= n
    BY <1>2, <2>1 DEF UpTo
  <2> QED
    BY <2>2 DEF UpTo, q
<1> QED
  BY <1>1, <1>2

\* A frame that is not an event of i is in order anywhere.
LEMMA ForeignOrder ==
  ASSUME NEW s, NEW m, NEW i, ~Mine(m, i)
  PROVE  Below(s, m, i) /\ Above(s, m, i)
  BY DEF Below, Above

\* A thinned stage is as ordered as it was, and as it stood to the others.
LEMMA ThinOrder ==
  ASSUME NEW p \in Seq(Frame), NEW q \in Seq(Frame), NEW t \in Seq(Frame),
         NEW i, NEW n, Thin(q, p, i)
  PROVE  /\ Sorted(p, i) => Sorted(q, i)
         /\ UpTo(p, n, i) => UpTo(q, n, i)
         /\ Before(p, t, i) => Before(q, t, i)
         /\ Before(t, p, i) => Before(t, q, i)
<1>1. CASE q = p
  BY <1>1
<1>2. CASE q = <<>>
  BY <1>2, EmptyOrder
<1>3. CASE p # <<>> /\ q = Tail(p)
  BY <1>3, HeadOrder, UpToStep
<1>4. ASSUME NEW m \in Frame, ~Mine(m, i), q = Append(p, m)
      PROVE  /\ Sorted(p, i) => Sorted(q, i)
             /\ UpTo(p, n, i) => UpTo(q, n, i)
             /\ Before(p, t, i) => Before(q, t, i)
             /\ Before(t, p, i) => Before(t, q, i)
  <2>1. /\ Below(p, m, i) /\ Above(p, m, i)
        /\ Below(t, m, i) /\ Above(t, m, i)
    BY <1>4, ForeignOrder
  <2>2. Sorted(p, i) => Sorted(q, i)
    BY <1>4, <2>1, SortedAppend
  <2>3. UpTo(p, n, i) => UpTo(q, n, i)
    BY <1>4, UpToStep
  <2>4. Before(p, t, i) => Before(q, t, i)
    BY <1>4, <2>1, BeforeAppend
  <2>5. Before(t, p, i) => Before(t, q, i)
    BY <1>4, <2>1, BeforeAppend
  <2> QED
    BY <2>2, <2>3, <2>4, <2>5
<1> QED
  BY <1>1, <1>2, <1>3, <1>4 DEF Thin

----------------------------------------------------------------------------
(***************************************************************************)
(* Ways: the three kinds of step that keep the order.                      *)
(***************************************************************************)

\* Stages are thinned.
LEMMA ChainThinned ==
  ASSUME NEW P \in Ways, NEW Q \in Ways, NEW n, NEW i, Chain(P, n, i),
         \A a \in 1 .. 5 : Thin(Q[a], P[a], i)
  PROVE  Chain(Q, n, i)
<1>1. ASSUME NEW a \in 1 .. 5
      PROVE  Sorted(Q[a], i) /\ UpTo(Q[a], n, i)
  <2>1. P[a] \in Seq(Frame) /\ Q[a] \in Seq(Frame) /\ Thin(Q[a], P[a], i)
    BY DEF Ways
  <2>2. Sorted(P[a], i) /\ UpTo(P[a], n, i)
    BY DEF Chain
  <2> QED
    BY <2>1, <2>2, ThinOrder
<1>2. ASSUME NEW a \in 1 .. 5, NEW b \in 1 .. 5, a < b
      PROVE  Before(Q[a], Q[b], i)
  <2>1. /\ P[a] \in Seq(Frame) /\ Q[a] \in Seq(Frame) /\ Thin(Q[a], P[a], i)
        /\ P[b] \in Seq(Frame) /\ Q[b] \in Seq(Frame) /\ Thin(Q[b], P[b], i)
    BY DEF Ways
  <2>2. Before(P[a], P[b], i)
    BY <1>2 DEF Chain
  <2>3. Before(Q[a], P[b], i)
    BY <2>1, <2>2, ThinOrder
  <2> QED
    BY <2>1, <2>3, ThinOrder
<1> QED
  BY <1>1, <1>2 DEF Chain

\* The first frame of a stage goes to the end of the next that is not empty.
LEMMA ChainMoved ==
  ASSUME NEW P \in Ways, NEW Q \in Ways, NEW n, NEW i, Chain(P, n, i),
         NEW a \in 1 .. 5, NEW b \in 1 .. 5, a < b, P[b] # <<>>,
         \A c \in 1 .. 5 : a < c /\ c < b => P[c] = <<>>,
         Q[a] = Append(P[a], Head(P[b])), Q[b] = Tail(P[b]),
         \A c \in 1 .. 5 : c # a /\ c # b => Q[c] = P[c]
  PROVE  Chain(Q, n, i)
<1> DEFINE m == Head(P[b])
<1>0. \A c \in 1 .. 5 : P[c] \in Seq(Frame)
  BY DEF Ways
<1>1. m \in Frame
  BY <1>0, Tailed
<1>2. /\ \A c \in 1 .. 5 : Sorted(P[c], i) /\ UpTo(P[c], n, i)
      /\ \A c, d \in 1 .. 5 : c < d => Before(P[c], P[d], i)
  BY DEF Chain
<1>3. Below(P[a], m, i)
  BY <1>0, <1>2, HeadOrder
<1>4. ASSUME NEW c \in 1 .. 5
      PROVE  Sorted(Q[c], i)
  <2>1. CASE c = a
    BY <1>0, <1>1, <1>2, <1>3, <2>1, SortedAppend
  <2>2. CASE c = b
    BY <1>0, <1>2, <2>2, HeadOrder
  <2> QED
    BY <1>2, <2>1, <2>2
<1>5. ASSUME NEW c \in 1 .. 5
      PROVE  UpTo(Q[c], n, i)
  <2>1. UpTo(Tail(P[b]), n, i) /\ (Mine(m, i) => m.event <= n)
    BY <1>0, <1>2, UpToStep
  <2>2. CASE c = a
    BY <1>0, <1>1, <1>2, <2>1, <2>2, UpToStep
  <2> QED
    BY <1>2, <2>1, <2>2
<1>6. ASSUME NEW c \in 1 .. 5, NEW d \in 1 .. 5, c < d
      PROVE  Before(Q[c], Q[d], i)
  <2>0. Before(P[c], P[d], i)
    BY <1>2, <1>6
  <2>1. CASE c = a /\ d = b
    <3>1. Before(P[a], Tail(P[b]), i)
      BY <1>0, <2>0, <2>1, HeadOrder
    <3>2. Above(Tail(P[b]), m, i) /\ Tail(P[b]) \in Seq(Frame)
      BY <1>0, <1>2, HeadOrder, Tailed
    <3> QED
      BY <1>0, <1>1, <2>1, <3>1, <3>2, BeforeAppend
  <2>2. CASE c = a /\ d < b
    <3>1. Q[d] = <<>>
      BY <1>6, <2>2
    <3> QED
      BY <3>1, EmptyOrder
  <2>3. CASE c = a /\ b < d
    <3>1. Above(P[d], m, i)
      BY <1>0, <1>2, <2>3, HeadOrder
    <3>2. Q[d] = P[d]
      BY <1>6, <2>3
    <3> QED
      BY <1>0, <1>1, <2>0, <2>3, <3>1, <3>2, BeforeAppend
  <2>4. CASE d = a
    <3>1. Before(P[c], P[b], i)
      BY <1>2, <1>6, <2>4
    <3>2. Below(P[c], m, i)
      BY <1>0, <3>1, HeadOrder
    <3>3. Q[c] = P[c]
      BY <1>6, <2>4
    <3> QED
      BY <1>0, <1>1, <2>0, <2>4, <3>2, <3>3, BeforeAppend
  <2>5. CASE c = b
    <3>1. Q[d] = P[d]
      BY <1>6, <2>5
    <3> QED
      BY <1>0, <2>0, <2>5, <3>1, HeadOrder
  <2>6. CASE d = b /\ c # a
    <3>1. Q[c] = P[c]
      BY <1>6, <2>6
    <3> QED
      BY <1>0, <2>0, <2>6, <3>1, HeadOrder
  <2>7. CASE c # a /\ c # b /\ d # a /\ d # b
    BY <2>0, <2>7
  <2> QED
    BY <2>1, <2>2, <2>3, <2>4, <2>5, <2>6, <2>7
<1> QED
  BY <1>4, <1>5, <1>6 DEF Chain

\* An event that is newer than all comes in at the last stage.
LEMMA ChainGrown ==
  ASSUME NEW P \in Ways, NEW Q \in Ways, NEW n \in Nat, NEW i,
         Chain(P, n, i), NEW m \in Frame, m.event = n + 1,
         Q[5] = Append(P[5], m) \/ Q[5] = P[5],
         \A a \in 1 .. 4 : Q[a] = P[a]
  PROVE  Chain(Q, n + 1, i)
<1>0. \A a \in 1 .. 5 :
        /\ P[a] \in Seq(Frame)
        /\ \A j \in 1 .. Len(P[a]) : P[a][j] \in Frame
  BY ElementOfSeq DEF Ways
<1>1. \A a \in 1 .. 5 : Sorted(P[a], i) /\ UpTo(P[a], n, i)
  BY DEF Chain
<1>2. ASSUME NEW a \in 1 .. 5
      PROVE  UpTo(P[a], n + 1, i) /\ Below(P[a], m, i)
  <2>1. ASSUME NEW j \in 1 .. Len(P[a]), Mine(P[a][j], i)
        PROVE  P[a][j].event <= n + 1 /\ P[a][j].event < n + 1
    <3>1. P[a][j].event <= n /\ P[a][j].event \in Nat
      BY <1>0, <1>1, <2>1 DEF UpTo, Frame
    <3> QED
      BY <3>1
  <2> QED
    BY <2>1 DEF UpTo, Below
<1>3. Mine(m, i) => m.event <= n + 1
  OBVIOUS
<1>4. Sorted(Q[5], i) /\ UpTo(Q[5], n + 1, i)
  <2>1. Sorted(Append(P[5], m), i)
    BY <1>0, <1>1, <1>2, SortedAppend
  <2>2. UpTo(Append(P[5], m), n + 1, i)
    BY <1>0, <1>2, <1>3, UpToStep
  <2>3. CASE Q[5] = Append(P[5], m)
    BY <2>1, <2>2, <2>3
  <2>4. CASE Q[5] = P[5]
    <3>1. 5 \in 1 .. 5
      OBVIOUS
    <3> QED
      BY <1>1, <1>2, <2>4, <3>1
  <2> QED
    BY <2>3, <2>4
<1>5. ASSUME NEW a \in 1 .. 5, NEW b \in 1 .. 5, a < b
      PROVE  Before(Q[a], Q[b], i)
  <2>1. Before(P[a], P[b], i) /\ Q[a] = P[a]
    BY <1>5 DEF Chain
  <2>2. CASE b = 5
    <3>1. Before(P[a], Append(P[5], m), i)
      BY <1>0, <1>2, <2>1, <2>2, BeforeAppend
    <3> QED
      BY <2>1, <2>2, <3>1
  <2> QED
    BY <2>1, <2>2
<1>6. ASSUME NEW a \in 1 .. 4
      PROVE  Sorted(Q[a], i) /\ UpTo(Q[a], n + 1, i)
  BY <1>1, <1>2
<1> QED
  BY <1>4, <1>5, <1>6 DEF Chain

----------------------------------------------------------------------------
(***************************************************************************)
(* The invariant.                                                          *)
(***************************************************************************)

\* Where a client stands in its hub by where its ReadPump is.
ClientInv ==
  \A c \in Clients :
    /\ reader[c] \in {"new", "gone"} => c \notin channel
    /\ reader[c] = "new" => c \notin clients \cup closed
    /\ reader[c] \in {"reading", "authorizing", "leaving"} =>
         c \in clients \ closed

\* Without Redis nothing is subscribed there or waits there.
RedisInv ==
  ~withRedis => subscribed = {} /\ \A i \in Instances : stream[i] = <<>>

\* The changes an instance has still to take, as events of it.
EventsBy(n, i) == [k \in 1 .. Len(n) |-> [event |-> n[k], by |-> i]]

\* The way of an instance's events to a client.
Way(c, i) == <<received[c], send[c], broadcast[HubOf[c]], stream[HubOf[c]],
               EventsBy(notified[i], i)>>

WayInv ==
  \A c \in Clients, i \in Instances :
    i \notin failures => Chain(Way(c, i), committed, i)

Inv == HubTypeOK /\ ClientInv /\ RedisInv /\ WayInv

----------------------------------------------------------------------------
(***************************************************************************)
(* Typing.                                                                 *)
(***************************************************************************)

\* A queue of a family is taken from, or appended to.
LEMMA QueueTypes ==
  ASSUME NEW S, NEW I, NEW q \in [I -> Seq(S)], NEW i \in I
  PROVE  /\ q[i] # <<>> =>
              Head(q[i]) \in S /\ [q EXCEPT ![i] = Tail(@)] \in [I -> Seq(S)]
         /\ \A m \in S : [q EXCEPT ![i] = Append(@, m)] \in [I -> Seq(S)]
         /\ [q EXCEPT ![i] = <<>>] \in [I -> Seq(S)]
<1>1. q[i] # <<>> => Head(q[i]) \in S /\ Tail(q[i]) \in Seq(S)
  BY HeadTailProperties
<1>2. \A m \in S : Append(q[i], m) \in Seq(S)
  BY AppendProperties
<1>3. <<>> \in Seq(S)
  BY EmptySeq
<1> QED
  BY <1>1, <1>2, <1>3

\* A message offered to Redis reaches the subscribed instances.
LEMMA StreamType ==
  ASSUME HubTypeOK, NEW m \in Message
  PROVE  ToSubscribers(m) => stream' \in [Instances -> Seq(Message)]
<1>1. \A i \in Instances : Append(stream[i], m) \in Seq(Message)
  BY AppendProperties DEF HubTypeOK
<1> QED
  BY <1>1 DEF ToSubscribers, HubTypeOK

\* Every list begins empty and stays typed.
LEMMA TypeInit == HubInit => HubTypeOK
<1>1. \A S : <<>> \in Seq(S)
  BY EmptySeq
<1> QED
  BY <1>1, BoundAssumption DEF HubInit, HubTypeOK

\* A change is a number up to MaxEvents.
LEMMA TypeCommit == HubTypeOK /\ Commit => HubTypeOK'
<1> SUFFICES ASSUME HubTypeOK, Commit PROVE HubTypeOK'
  OBVIOUS
<1>1. committed + 1 \in 1 .. MaxEvents /\ committed' = committed + 1
  BY BoundAssumption DEF Commit, HubTypeOK
<1>2. \A i \in Instances : Append(notified[i], committed + 1)
                             \in Seq(1 .. MaxEvents)
  BY <1>1, AppendProperties DEF HubTypeOK
<1>3. notified' \in [Instances -> Seq(1 .. MaxEvents)]
  BY <1>2 DEF Commit, HubTypeOK
<1> QED
  BY <1>1, <1>3
  DEF Commit, HubTypeOK, redis, hub, pumps, ghosts

\* An instance publishes a change under its own name.
LEMMA TypePublish ==
  ASSUME HubTypeOK, NEW i \in Instances, Publish(i)
  PROVE  HubTypeOK'
<1> DEFINE m == [event |-> Head(notified[i]), by |-> i]
<1>1. /\ Head(notified[i]) \in 1 .. MaxEvents
      /\ notified' \in [Instances -> Seq(1 .. MaxEvents)]
  BY QueueTypes DEF HubTypeOK, Publish, Take
<1>2. m \in Message
  BY <1>1 DEF Message
<1>3. [broadcast EXCEPT ![i] = Append(@, m)] \in [Instances -> Seq(Message)]
  BY <1>2, QueueTypes DEF HubTypeOK
<1>4. ToSubscribers(m) => stream' \in [Instances -> Seq(Message)]
  BY <1>2, StreamType
<1> HIDE DEF m
<1>5. /\ broadcast' = broadcast \/ Locally(i, m)
      /\ stream' = stream \/ ToSubscribers(m)
      /\ UNCHANGED <<failures, losses>>
           \/ (failures' = failures \cup {i} /\ Fault)
  BY DEF Publish, m, ghosts
<1>6. broadcast' \in [Instances -> Seq(Message)]
  BY <1>3, <1>5 DEF HubTypeOK, Locally
<1>7. stream' \in [Instances -> Seq(Message)]
  BY <1>4, <1>5 DEF HubTypeOK
<1>8. failures' \in SUBSET Instances /\ losses' \in Nat
  BY <1>5 DEF HubTypeOK, Fault
<1> QED
  BY <1>1, <1>6, <1>7, <1>8 DEF Publish, HubTypeOK, hub, pumps

\* The other steps between the changes and the hubs.
LEMMA TypeOfChanges ==
  ASSUME HubTypeOK, NEW i \in Instances,
         LoseListener(i) \/ Listen(i) \/ LoseSubscription(i)
         \/ Resubscribe(i) \/ FromRedis(i)
  PROVE  HubTypeOK'
<1>1. CASE LoseListener(i)
  <2>1. notified' \in [Instances -> Seq(1 .. MaxEvents)]
    BY <1>1, QueueTypes DEF LoseListener, HubTypeOK
  <2> QED
    BY <1>1, <2>1 DEF LoseListener, HubTypeOK, Fault, redis, hub, pumps
<1>2. CASE Listen(i)
  BY <1>2 DEF Listen, HubTypeOK, redis, hub, pumps, ghosts
<1>3. CASE LoseSubscription(i)
  <2>1. stream' \in [Instances -> Seq(Message)]
    BY <1>3, QueueTypes DEF LoseSubscription, HubTypeOK
  <2> QED
    BY <1>3, <2>1 DEF LoseSubscription, HubTypeOK, Fault, postgres, hub, pumps
<1>4. CASE Resubscribe(i)
  BY <1>4 DEF Resubscribe, HubTypeOK, postgres, hub, pumps, ghosts
<1>5. CASE FromRedis(i)
  <2>1. /\ Head(stream[i]) \in Message
        /\ stream' \in [Instances -> Seq(Message)]
    BY <1>5, QueueTypes DEF FromRedis, Take, HubTypeOK
  <2>2. broadcast' \in [Instances -> Seq(Message)]
    BY <1>5, <2>1, QueueTypes DEF FromRedis, Locally, HubTypeOK
  <2> QED
    BY <1>5, <2>1, <2>2 DEF FromRedis, HubTypeOK, postgres, hub, pumps, ghosts
<1> QED
  BY <1>1, <1>2, <1>3, <1>4, <1>5

\* A client's buffer holds messages and notices.
LEMMA OfferType ==
  ASSUME HubTypeOK, NEW c \in Clients, NEW m \in Message \cup Notice
  PROVE  Offer(c, m) \in Seq(Message \cup Notice)
<1>1. Append(send[c], m) \in Seq(Message \cup Notice)
  BY AppendProperties DEF HubTypeOK
<1> QED
  BY <1>1 DEF Offer, HubTypeOK

\* What a hub broadcasts is a message.
LEMMA TypeBroadcast ==
  ASSUME HubTypeOK, NEW i \in Instances, Broadcast(i)
  PROVE  HubTypeOK'
<1>1. /\ Head(broadcast[i]) \in Message
      /\ broadcast' \in [Instances -> Seq(Message)]
  BY QueueTypes DEF Broadcast, Take, HubTypeOK
<1>2. \A c \in Clients : Offer(c, Head(broadcast[i]))
                           \in Seq(Message \cup Notice)
  BY <1>1, OfferType
<1>3. send' \in [Clients -> Seq(Message \cup Notice)]
  BY <1>2 DEF Broadcast, HubTypeOK
<1> QED
  BY <1>1, <1>3 DEF Broadcast, HubTypeOK, postgres, redis, hub, pumps, ghosts

\* A client's ReadPump and connection.
LEMMA TypeReader ==
  ASSUME HubTypeOK, NEW c \in Clients,
         Register(c) \/ SubscribeClient(c) \/ AddSubscription(c)
         \/ Unsubscribe(c) \/ Disconnect(c) \/ ReadFails(c) \/ Unregister(c)
  PROVE  HubTypeOK'
<1> USE DEF HubTypeOK, postgres, redis, hub, pumps, ghosts
<1>1. CASE Register(c)
  BY <1>1 DEF Register
<1>2. CASE SubscribeClient(c)
  BY <1>2 DEF SubscribeClient
<1>3. CASE AddSubscription(c)
  BY <1>3 DEF AddSubscription
<1>4. CASE Unsubscribe(c)
  BY <1>4 DEF Unsubscribe
<1>5. CASE Disconnect(c)
  BY <1>5 DEF Disconnect
<1>6. CASE ReadFails(c)
  BY <1>6 DEF ReadFails
<1>7. CASE Unregister(c)
  BY <1>7 DEF Unregister
<1> QED
  BY <1>1, <1>2, <1>3, <1>4, <1>5, <1>6, <1>7

\* A refusal, and what is written.
LEMMA TypeSend ==
  ASSUME HubTypeOK, NEW c \in Clients, SendError(c) \/ WriteMessage(c)
  PROVE  HubTypeOK'
<1>1. CASE SendError(c)
  <2> DEFINE m == [event |-> 0, by |-> HubOf[c]]
  <2>1. m \in Message \cup Notice
    BY HubOfAssumption DEF Notice
  <2>2. Offer(c, m) \in Seq(Message \cup Notice)
    BY <2>1, OfferType
  <2>3. /\ send' \in [Clients -> Seq(Message \cup Notice)]
        /\ reader' \in [Clients -> {"new", "reading", "authorizing",
                                    "leaving", "gone"}]
    BY <1>1, <2>2 DEF SendError, HubTypeOK
  <2> QED
    BY <1>1, <2>3 DEF SendError, HubTypeOK, postgres, redis, hub, ghosts
<1>2. CASE WriteMessage(c)
  <2>1. /\ Head(send[c]) \in Message \cup Notice
        /\ send' \in [Clients -> Seq(Message \cup Notice)]
    BY <1>2, QueueTypes DEF WriteMessage, Take, HubTypeOK
  <2>2. Head(send[c]).event # 0 => Head(send[c]) \in Message
    BY <2>1 DEF Message, Notice
  <2>3. Head(send[c]).event # 0 =>
          [received EXCEPT ![c] = Append(@, Head(send[c]))]
            \in [Clients -> Seq(Message)]
    BY <2>2, QueueTypes DEF HubTypeOK
  <2>4. received' \in [Clients -> Seq(Message)]
    BY <1>2, <2>3 DEF WriteMessage, HubTypeOK
  <2> QED
    BY <1>2, <2>1, <2>4
    DEF WriteMessage, HubTypeOK, postgres, redis, hub, pumps, ghosts
<1> QED
  BY <1>1, <1>2

\* Every step keeps the types.
LEMMA TypeStep == HubTypeOK /\ [HubNext]_hubVars => HubTypeOK'
<1> SUFFICES ASSUME HubTypeOK, [HubNext]_hubVars PROVE HubTypeOK'
  OBVIOUS
<1>1. CASE Commit
  BY <1>1, TypeCommit
<1>2. ASSUME NEW i \in Instances, FromChanges(i)
      PROVE  HubTypeOK'
  BY <1>2, TypePublish, TypeOfChanges, TypeBroadcast DEF FromChanges
<1>3. ASSUME NEW c \in Clients, OfClient(c)
      PROVE  HubTypeOK'
  BY <1>3, TypeReader, TypeSend DEF OfClient
<1>4. CASE UNCHANGED hubVars
  BY <1>4 DEF hubVars, HubTypeOK, postgres, redis, hub, pumps, ghosts
<1> QED
  BY <1>1, <1>2, <1>3, <1>4 DEF HubNext

\* Every state is typed: HubTypeOK.
THEOREM HubTypeTheorem == HubSpec => []HubTypeOK
<1> QED
  BY TypeInit, TypeStep, PTL DEF HubSpec

----------------------------------------------------------------------------
(***************************************************************************)
(* Clients and their hub; Redis.                                           *)
(***************************************************************************)

\* Every step keeps a client's standing in line with its ReadPump.
LEMMA ClientStep == HubTypeOK /\ ClientInv /\ [HubNext]_hubVars => ClientInv'
<1> SUFFICES ASSUME HubTypeOK, ClientInv, [HubNext]_hubVars PROVE ClientInv'
  OBVIOUS
<1>1. CASE UNCHANGED <<clients, channel, closed, reader>>
  BY <1>1 DEF ClientInv
<1>2. CASE Commit
  BY <1>1, <1>2 DEF Commit, hub, pumps
<1>3. ASSUME NEW i \in Instances, FromChanges(i)
      PROVE  ClientInv'
  BY <1>1, <1>3
  DEF FromChanges, LoseListener, Listen, Publish, LoseSubscription,
      Resubscribe, FromRedis, Broadcast, hub, pumps
<1>4. ASSUME NEW c \in Clients, OfClient(c)
      PROVE  ClientInv'
  <2> USE DEF HubTypeOK, ClientInv, hub, pumps
  <2>1. CASE Register(c)
    BY <2>1 DEF Register
  <2>2. CASE SubscribeClient(c)
    BY <2>2 DEF SubscribeClient
  <2>3. CASE AddSubscription(c)
    BY <2>3 DEF AddSubscription
  <2>4. CASE SendError(c)
    BY <2>4 DEF SendError
  <2>5. CASE Unsubscribe(c)
    BY <2>5 DEF Unsubscribe
  <2>6. CASE Disconnect(c)
    BY <2>6 DEF Disconnect
  <2>7. CASE ReadFails(c)
    BY <2>7 DEF ReadFails
  <2>8. CASE Unregister(c)
    BY <2>8 DEF Unregister
  <2>9. CASE WriteMessage(c)
    BY <2>9 DEF WriteMessage
  <2> QED
    BY <1>4, <2>1, <2>2, <2>3, <2>4, <2>5, <2>6, <2>7, <2>8, <2>9
    DEF OfClient
<1>5. CASE UNCHANGED hubVars
  BY <1>1, <1>5 DEF hubVars, hub, pumps
<1> QED
  BY <1>2, <1>3, <1>4, <1>5 DEF HubNext

\* Nothing is sent on a closed channel: NeverSendsOnClosed.
THEOREM NeverSendsOnClosedTheorem == HubSpec => []NeverSendsOnClosed
<1>1. HubInit => ClientInv
  BY DEF HubInit, ClientInv
<1>2. HubTypeOK /\ ClientInv => NeverSendsOnClosed
  BY DEF HubTypeOK, ClientInv, NeverSendsOnClosed
<1> QED
  BY <1>1, <1>2, TypeInit, TypeStep, ClientStep, PTL DEF HubSpec

\* Without Redis, Redis stays empty.
LEMMA RedisStep == HubTypeOK /\ RedisInv /\ [HubNext]_hubVars => RedisInv'
<1> SUFFICES ASSUME HubTypeOK, RedisInv, [HubNext]_hubVars PROVE RedisInv'
  OBVIOUS
<1>1. withRedis' = withRedis
  BY DEF HubNext, hubVars, Commit, FromChanges, LoseListener, Listen, Publish,
         LoseSubscription, Resubscribe, FromRedis, Broadcast, OfClient,
         Register, SubscribeClient, AddSubscription, SendError, Unsubscribe,
         Disconnect, ReadFails, Unregister, WriteMessage, redis
<1>2. CASE UNCHANGED <<subscribed, stream>>
  BY <1>1, <1>2 DEF RedisInv
<1>3. CASE Commit
  BY <1>2, <1>3 DEF Commit, redis
<1>4. ASSUME NEW i \in Instances, FromChanges(i), ~withRedis
      PROVE  UNCHANGED <<subscribed, stream>>
  BY <1>4
  DEF FromChanges, LoseListener, Listen, Publish, LoseSubscription,
      Resubscribe, FromRedis, Broadcast, RedisInv, redis
<1>5. ASSUME NEW c \in Clients, OfClient(c)
      PROVE  UNCHANGED <<subscribed, stream>>
  BY <1>5
  DEF OfClient, Register, SubscribeClient, AddSubscription, SendError,
      Unsubscribe, Disconnect, ReadFails, Unregister, WriteMessage, redis
<1>6. CASE UNCHANGED hubVars
  BY <1>2, <1>6 DEF hubVars, redis
<1>7. CASE withRedis
  BY <1>1, <1>7 DEF RedisInv
<1> QED
  BY <1>2, <1>3, <1>4, <1>5, <1>6, <1>7 DEF HubNext

----------------------------------------------------------------------------
(***************************************************************************)
(* The way of an instance's events.                                        *)
(***************************************************************************)

\* What an instance has still to take, as a list of frames.
LEMMA EventsByProperties ==
  ASSUME NEW n \in Seq(1 .. MaxEvents), NEW i \in Instances
  PROVE  /\ EventsBy(n, i) \in Seq(Frame)
         /\ Len(EventsBy(n, i)) = Len(n) /\ Len(n) \in Nat
         /\ \A k \in 1 .. Len(n) :
              EventsBy(n, i)[k] = [event |-> n[k], by |-> i]
         /\ n # <<>> => EventsBy(n, i) # <<>>
         /\ EventsBy(<<>>, i) = <<>>
<1>1. Len(n) \in Nat /\ \A k \in 1 .. Len(n) : n[k] \in 1 .. MaxEvents
  BY LenProperties, ElementOfSeq
<1>2. \A k \in 1 .. Len(n) : [event |-> n[k], by |-> i] \in Frame
  BY <1>1, BoundAssumption DEF Frame
<1>3. EventsBy(n, i) \in [1 .. Len(n) -> Frame]
  BY <1>2 DEF EventsBy
<1>4. EventsBy(n, i) \in Seq(Frame)
  BY <1>1, <1>3, SeqDef
<1>5. Len(EventsBy(n, i)) = Len(n)
  BY <1>1, <1>3, <1>4, LenProperties
<1>6. n # <<>> => EventsBy(n, i) # <<>>
  BY <1>5, EmptySeq
<1>7. EventsBy(<<>>, i) = <<>>
  BY DEF EventsBy
<1> QED
  BY <1>1, <1>4, <1>5, <1>6, <1>7 DEF EventsBy

\* Taking a change takes the first event.
LEMMA EventsByTail ==
  ASSUME NEW n \in Seq(1 .. MaxEvents), NEW i \in Instances, n # <<>>
  PROVE  /\ EventsBy(n, i) # <<>>
         /\ Head(EventsBy(n, i)) = [event |-> Head(n), by |-> i]
         /\ EventsBy(Tail(n), i) = Tail(EventsBy(n, i))
<1> DEFINE e == EventsBy(n, i)
           t == EventsBy(Tail(n), i)
<1>1. /\ e \in Seq(Frame) /\ e # <<>> /\ Len(e) = Len(n)
      /\ \A k \in 1 .. Len(n) : e[k] = [event |-> n[k], by |-> i]
  BY EventsByProperties
<1>2. /\ Tail(n) \in Seq(1 .. MaxEvents) /\ Len(n) \in Nat \ {0}
      /\ Len(Tail(n)) = Len(n) - 1 /\ Head(n) = n[1]
      /\ \A k \in 1 .. Len(Tail(n)) : Tail(n)[k] = n[k + 1]
  BY HeadTailProperties, EmptySeq
<1>3. /\ t \in Seq(Frame) /\ Len(t) = Len(n) - 1
      /\ \A k \in 1 .. Len(n) - 1 : t[k] = [event |-> Tail(n)[k], by |-> i]
  <2>1. /\ t \in Seq(Frame) /\ Len(t) = Len(Tail(n))
        /\ \A k \in 1 .. Len(Tail(n)) : t[k] = [event |-> Tail(n)[k], by |-> i]
    BY <1>2, EventsByProperties
  <2> HIDE DEF t
  <2> QED
    BY <1>2, <2>1
<1> HIDE DEF e, t
<1>4. /\ Tail(e) \in Seq(Frame) /\ Head(e) = e[1]
      /\ Len(Tail(e)) = Len(e) - 1
      /\ \A k \in 1 .. Len(Tail(e)) : Tail(e)[k] = e[k + 1]
  BY <1>1, Tailed
<1>5. Head(e) = [event |-> Head(n), by |-> i]
  <2>1. 1 \in 1 .. Len(n)
    BY <1>2
  <2>2. e[1] = [event |-> n[1], by |-> i]
    BY <1>1, <2>1
  <2> QED
    BY <1>2, <1>4, <2>2
<1>6. ASSUME NEW k \in 1 .. Len(t) PROVE t[k] = Tail(e)[k]
  <2>1. k \in 1 .. Len(n) - 1 /\ k + 1 \in 1 .. Len(n)
    BY <1>2, <1>3
  <2>2. t[k] = [event |-> n[k + 1], by |-> i]
    BY <1>2, <1>3, <2>1
  <2>3. Tail(e)[k] = [event |-> n[k + 1], by |-> i]
    BY <1>1, <1>4, <2>1
  <2> QED
    BY <2>2, <2>3
<1>7. t = Tail(e)
  BY <1>1, <1>3, <1>4, <1>6, SeqEqual
<1> QED
  BY <1>1, <1>5, <1>7 DEF e, t

\* A new change adds an event at the end.
LEMMA EventsByAppend ==
  ASSUME NEW n \in Seq(1 .. MaxEvents), NEW i \in Instances,
         NEW v \in 1 .. MaxEvents
  PROVE  EventsBy(Append(n, v), i)
           = Append(EventsBy(n, i), [event |-> v, by |-> i])
<1> DEFINE e == EventsBy(n, i)
           m == [event |-> v, by |-> i]
           t == EventsBy(Append(n, v), i)
<1>1. /\ e \in Seq(Frame) /\ Len(e) = Len(n) /\ Len(n) \in Nat
      /\ \A k \in 1 .. Len(n) : e[k] = [event |-> n[k], by |-> i]
  BY EventsByProperties
<1>2. /\ Append(n, v) \in Seq(1 .. MaxEvents)
      /\ Len(Append(n, v)) = Len(n) + 1
      /\ Append(n, v)[Len(n) + 1] = v
      /\ \A k \in 1 .. Len(n) : Append(n, v)[k] = n[k]
  BY AppendProperties
<1>3. /\ t \in Seq(Frame) /\ Len(t) = Len(n) + 1
      /\ \A k \in 1 .. Len(n) + 1 : t[k] = [event |-> Append(n, v)[k],
                                            by |-> i]
  <2>1. /\ t \in Seq(Frame) /\ Len(t) = Len(Append(n, v))
        /\ \A k \in 1 .. Len(Append(n, v)) :
             t[k] = [event |-> Append(n, v)[k], by |-> i]
    BY <1>2, EventsByProperties
  <2> HIDE DEF t
  <2> QED
    BY <1>2, <2>1
<1>4. m \in Frame
  BY BoundAssumption DEF Frame
<1> HIDE DEF e, t
<1>5. /\ Append(e, m) \in Seq(Frame) /\ Len(Append(e, m)) = Len(e) + 1
      /\ Append(e, m)[Len(e) + 1] = m
      /\ \A k \in 1 .. Len(e) : Append(e, m)[k] = e[k]
  BY <1>1, <1>4, Appended
<1>6. ASSUME NEW k \in 1 .. Len(t) PROVE t[k] = Append(e, m)[k]
  <2>1. k \in 1 .. Len(n) \/ k = Len(n) + 1
    BY <1>1, <1>3
  <2> QED
    BY <1>1, <1>2, <1>3, <1>5, <2>1
<1>7. t = Append(e, m)
  BY <1>1, <1>3, <1>5, <1>6, SeqEqual
<1> QED
  BY <1>7 DEF e, t

\* A way is typed.
LEMMA WayType ==
  ASSUME HubTypeOK, NEW c \in Clients, NEW i \in Instances
  PROVE  Way(c, i) \in Ways
<1>1. Message \subseteq Frame /\ Message \cup Notice \subseteq Frame
  BY BoundAssumption DEF Message, Notice, Frame
<1>2. /\ received[c] \in Seq(Frame) /\ send[c] \in Seq(Frame)
      /\ broadcast[HubOf[c]] \in Seq(Frame)
      /\ stream[HubOf[c]] \in Seq(Frame)
  <2>1. /\ received[c] \in Seq(Message)
        /\ send[c] \in Seq(Message \cup Notice)
        /\ broadcast[HubOf[c]] \in Seq(Message)
        /\ stream[HubOf[c]] \in Seq(Message)
    BY HubOfAssumption DEF HubTypeOK
  <2> QED
    BY <1>1, <2>1, SeqMonotonic
<1>3. EventsBy(notified[i], i) \in Seq(Frame)
  BY EventsByProperties DEF HubTypeOK
<1> QED
  BY <1>2, <1>3 DEF Way, Ways

LEMMA WayTypeNext ==
  ASSUME HubTypeOK', NEW c \in Clients, NEW i \in Instances
  PROVE  Way(c, i)' \in Ways
<1>1. Message \subseteq Frame /\ Message \cup Notice \subseteq Frame
  BY BoundAssumption DEF Message, Notice, Frame
<1>2. /\ received'[c] \in Seq(Frame) /\ send'[c] \in Seq(Frame)
      /\ broadcast'[HubOf[c]] \in Seq(Frame)
      /\ stream'[HubOf[c]] \in Seq(Frame)
  <2>1. /\ received'[c] \in Seq(Message)
        /\ send'[c] \in Seq(Message \cup Notice)
        /\ broadcast'[HubOf[c]] \in Seq(Message)
        /\ stream'[HubOf[c]] \in Seq(Message)
    BY HubOfAssumption DEF HubTypeOK
  <2> QED
    BY <1>1, <2>1, SeqMonotonic
<1>3. EventsBy(notified'[i], i) \in Seq(Frame)
  BY EventsByProperties DEF HubTypeOK
<1> QED
  BY <1>2, <1>3 DEF Way, Ways

\* A step that thins the stages keeps the order of a way.
LEMMA WayThinned ==
  ASSUME HubTypeOK, HubTypeOK', NEW c \in Clients, NEW i \in Instances,
         Chain(Way(c, i), committed, i), committed' = committed,
         Thin(received'[c], received[c], i), Thin(send'[c], send[c], i),
         Thin(broadcast'[HubOf[c]], broadcast[HubOf[c]], i),
         Thin(stream'[HubOf[c]], stream[HubOf[c]], i),
         Thin(EventsBy(notified'[i], i), EventsBy(notified[i], i), i)
  PROVE  Chain(Way(c, i), committed, i)'
<1> DEFINE P == Way(c, i)
           Q == <<received'[c], send'[c], broadcast'[HubOf[c]],
                  stream'[HubOf[c]], EventsBy(notified'[i], i)>>
<1>1. Q = Way(c, i)'
  BY DEF Way
<1>2. P \in Ways /\ Q \in Ways
  BY <1>1, WayType, WayTypeNext
<1>3. \A a \in 1 .. 5 : Thin(Q[a], P[a], i)
  BY DEF Way
<1> HIDE DEF P, Q
<1>4. Chain(Q, committed, i)
  BY <1>2, <1>3, ChainThinned DEF P
<1> QED
  BY <1>1, <1>4 DEF Chain

\* A change goes to every instance that listens.
LEMMA WayCommit ==
  ASSUME HubTypeOK, HubTypeOK', NEW c \in Clients, NEW i \in Instances,
         Chain(Way(c, i), committed, i), Commit
  PROVE  Chain(Way(c, i), committed, i)'
<1> DEFINE P == Way(c, i)
           Q == <<received'[c], send'[c], broadcast'[HubOf[c]],
                  stream'[HubOf[c]], EventsBy(notified'[i], i)>>
           m == [event |-> committed + 1, by |-> i]
<1>1. Q = Way(c, i)'
  BY DEF Way
<1>2. P \in Ways /\ Q \in Ways
  BY <1>1, WayType, WayTypeNext
<1>3. /\ committed \in Nat /\ committed + 1 \in 1 .. MaxEvents
      /\ committed' = committed + 1
  BY BoundAssumption DEF Commit, HubTypeOK
<1>4. m \in Frame
  BY <1>3 DEF Frame
<1>5. notified'[i] = notified[i]
        \/ notified'[i] = Append(notified[i], committed + 1)
  BY DEF Commit, HubTypeOK
<1>6. notified[i] \in Seq(1 .. MaxEvents)
  BY DEF HubTypeOK
<1>7. EventsBy(Append(notified[i], committed + 1), i)
        = Append(EventsBy(notified[i], i), m)
  BY <1>3, <1>6, EventsByAppend
<1>8. Q[5] = Append(P[5], m) \/ Q[5] = P[5]
  BY <1>5, <1>7 DEF Way
<1>9. \A a \in 1 .. 4 : Q[a] = P[a]
  BY DEF Way, Commit, redis
<1>10. Chain(P, committed, i) /\ m.event = committed + 1
  OBVIOUS
<1> HIDE DEF P, Q, m
<1>11. Chain(Q, committed + 1, i)
  BY <1>2, <1>3, <1>4, <1>8, <1>9, <1>10, ChainGrown
<1> QED
  BY <1>1, <1>3, <1>11 DEF Chain

\* A stage that is not touched is not thinned, one that is dropped is.
LEMMA ThinCases ==
  ASSUME NEW p, NEW i
  PROVE  /\ Thin(p, p, i) /\ Thin(<<>>, p, i)
         /\ p # <<>> => Thin(Tail(p), p, i)
         /\ \A m \in Frame : ~Mine(m, i) => Thin(Append(p, m), p, i)
  BY DEF Thin

\* Steps that do not move an event of the way, and the failing ones.
LEMMA WayQuiet ==
  ASSUME HubTypeOK, HubTypeOK', NEW c \in Clients, NEW i \in Instances,
         Chain(Way(c, i), committed, i), NEW j \in Instances,
         LoseListener(j) \/ Listen(j) \/ LoseSubscription(j) \/ Resubscribe(j)
  PROVE  Chain(Way(c, i), committed, i)'
<1>1. /\ UNCHANGED <<committed, received, send, broadcast>>
      /\ stream'[HubOf[c]] = stream[HubOf[c]] \/ stream'[HubOf[c]] = <<>>
      /\ notified'[i] = notified[i] \/ notified'[i] = <<>>
  BY HubOfAssumption
  DEF HubTypeOK, LoseListener, Listen, LoseSubscription, Resubscribe, postgres,
      redis
<1>2. Thin(EventsBy(notified'[i], i), EventsBy(notified[i], i), i)
  <2>1. EventsBy(<<>>, i) = <<>>
    BY DEF EventsBy
  <2> QED
    BY <1>1, <2>1, ThinCases
<1>3. Thin(stream'[HubOf[c]], stream[HubOf[c]], i)
  BY <1>1, ThinCases
<1>4. /\ Thin(received'[c], received[c], i) /\ Thin(send'[c], send[c], i)
      /\ Thin(broadcast'[HubOf[c]], broadcast[HubOf[c]], i)
  BY <1>1, ThinCases
<1> QED
  BY <1>1, <1>2, <1>3, <1>4, WayThinned

\* What an instance publishes comes at the end of the stage it goes to, behind
\* all that it published before.
LEMMA WayPublish ==
  ASSUME HubTypeOK, HubTypeOK', RedisInv, NEW c \in Clients, NEW i \in Instances,
         Chain(Way(c, i), committed, i), Publish(i), i \notin failures'
  PROVE  Chain(Way(c, i), committed, i)'
<1> DEFINE m == [event |-> Head(notified[i]), by |-> i]
           P == Way(c, i)
           Q == <<received'[c], send'[c], broadcast'[HubOf[c]],
                  stream'[HubOf[c]], EventsBy(notified'[i], i)>>
<1>1. Q = Way(c, i)'
  BY DEF Way
<1>2. P \in Ways /\ Q \in Ways
  BY <1>1, WayType, WayTypeNext
<1>3. /\ notified[i] \in Seq(1 .. MaxEvents) /\ notified[i] # <<>>
      /\ notified'[i] = Tail(notified[i])
  BY DEF HubTypeOK, Publish, Take
<1>4. /\ P[5] # <<>> /\ Head(P[5]) = m /\ Q[5] = Tail(P[5])
  BY <1>3, EventsByTail DEF Way
<1>5. UNCHANGED <<committed, received, send>>
  BY DEF Publish
<1>6. HubOf[c] \in Instances /\ broadcast[HubOf[c]] = P[3]
      /\ stream[HubOf[c]] = P[4] /\ broadcast'[HubOf[c]] = Q[3]
      /\ stream'[HubOf[c]] = Q[4]
  BY HubOfAssumption DEF Way
<1>7. Q[1] = P[1] /\ Q[2] = P[2]
  BY <1>5 DEF Way
<1>8. Thin(Q[5], P[5], i) /\ Thin(Q[1], P[1], i) /\ Thin(Q[2], P[2], i)
  BY <1>4, <1>7, ThinCases
<1>9. \/ ~withRedis /\ Locally(i, m) /\ stream' = stream
      \/ withRedis /\ ToSubscribers(m) /\ broadcast' = broadcast
  BY DEF Publish
<1>10. Chain(P, committed, i)
  OBVIOUS
<1>11. SUFFICES Chain(Q, committed, i)
  BY <1>1, <1>5
<1> HIDE DEF P, Q, m
<1>12. CASE withRedis /\ HubOf[c] \in subscribed
  <2>1. Q[4] = Append(P[4], m) /\ Q[3] = P[3]
    BY <1>6, <1>9, <1>12 DEF ToSubscribers
  <2>2. \A a \in 1 .. 5 : a # 4 /\ a # 5 => Q[a] = P[a]
    BY <1>7, <2>1
  <2>3. \A a \in 1 .. 5 : 4 < a /\ a < 5 => P[a] = <<>>
    OBVIOUS
  <2>4. 4 \in 1 .. 5 /\ 5 \in 1 .. 5 /\ 4 < 5
    OBVIOUS
  <2>5. Q[4] = Append(P[4], Head(P[5]))
    BY <1>4, <2>1
  <2> QED
    BY <1>2, <1>4, <1>10, <2>2, <2>3, <2>4, <2>5, ChainMoved
<1>13. CASE withRedis /\ HubOf[c] \notin subscribed
  <2>1. Q[4] = P[4] /\ Q[3] = P[3]
    BY <1>6, <1>9, <1>13 DEF ToSubscribers
  <2>2. Thin(Q[4], P[4], i) /\ Thin(Q[3], P[3], i)
    BY <2>1, ThinCases
  <2>3. \A a \in 1 .. 5 : a = 1 \/ a = 2 \/ a = 3 \/ a = 4 \/ a = 5
    OBVIOUS
  <2>4. \A a \in 1 .. 5 : Thin(Q[a], P[a], i)
    BY <1>8, <2>2, <2>3
  <2> QED
    BY <1>2, <1>10, <2>4, ChainThinned
<1>14. CASE ~withRedis /\ HubOf[c] = i
  <2>0. /\ broadcast' = [broadcast EXCEPT ![i] = Append(@, m)]
        /\ stream' = stream /\ broadcast \in [Instances -> Seq(Message)]
    BY <1>9, <1>14 DEF Locally, HubTypeOK
  <2>1. Q[3] = Append(P[3], m) /\ Q[4] = P[4]
    BY <1>6, <1>14, <2>0
  <2>2. \A a \in 1 .. 5 : a # 3 /\ a # 5 => Q[a] = P[a]
    BY <1>7, <2>1
  <2>3. P[4] = <<>>
    BY <1>6, <1>14 DEF RedisInv
  <2>4. \A a \in 1 .. 5 : 3 < a /\ a < 5 => P[a] = <<>>
    BY <2>3
  <2>5. 3 \in 1 .. 5 /\ 5 \in 1 .. 5 /\ 3 < 5
    OBVIOUS
  <2>6. Q[3] = Append(P[3], Head(P[5]))
    BY <1>4, <2>1
  <2> QED
    BY <1>2, <1>4, <1>10, <2>2, <2>4, <2>5, <2>6, ChainMoved
<1>15. CASE ~withRedis /\ HubOf[c] # i
  <2>0. /\ broadcast' = [broadcast EXCEPT ![i] = Append(@, m)]
        /\ stream' = stream /\ broadcast \in [Instances -> Seq(Message)]
    BY <1>9, <1>15 DEF Locally, HubTypeOK
  <2>1. Q[4] = P[4] /\ Q[3] = P[3]
    BY <1>6, <1>15, <2>0
  <2>2. Thin(Q[4], P[4], i) /\ Thin(Q[3], P[3], i)
    BY <2>1, ThinCases
  <2>3. \A a \in 1 .. 5 : a = 1 \/ a = 2 \/ a = 3 \/ a = 4 \/ a = 5
    OBVIOUS
  <2>4. \A a \in 1 .. 5 : Thin(Q[a], P[a], i)
    BY <1>8, <2>2, <2>3
  <2> QED
    BY <1>2, <1>10, <2>4, ChainThinned
<1> QED
  BY <1>12, <1>13, <1>14, <1>15

\* Another instance's events only come between.
LEMMA WayForeign ==
  ASSUME HubTypeOK, HubTypeOK', NEW c \in Clients, NEW i \in Instances,
         Chain(Way(c, i), committed, i), NEW j \in Instances, j # i,
         Publish(j)
  PROVE  Chain(Way(c, i), committed, i)'
<1> DEFINE m == [event |-> Head(notified[j]), by |-> j]
<1>1. m \in Frame /\ ~Mine(m, i)
  <2>1. Head(notified[j]) \in 1 .. MaxEvents
    BY QueueTypes DEF HubTypeOK, Publish
  <2> QED
    BY <2>1, BoundAssumption DEF Frame, Mine
<1>2. /\ UNCHANGED <<committed, received, send>>
      /\ notified'[i] = notified[i]
      /\ broadcast' = broadcast \/ Locally(j, m)
      /\ stream' = stream \/ ToSubscribers(m)
  BY DEF Publish, Take, HubTypeOK
<1>3. HubOf[c] \in Instances
  BY HubOfAssumption
<1> HIDE DEF m
<1>4. \/ broadcast'[HubOf[c]] = broadcast[HubOf[c]]
      \/ broadcast'[HubOf[c]] = Append(broadcast[HubOf[c]], m)
  BY <1>2, <1>3 DEF Locally, HubTypeOK
<1>5. \/ stream'[HubOf[c]] = stream[HubOf[c]]
      \/ stream'[HubOf[c]] = Append(stream[HubOf[c]], m)
  BY <1>2, <1>3 DEF ToSubscribers, HubTypeOK
<1>6. /\ Thin(broadcast'[HubOf[c]], broadcast[HubOf[c]], i)
      /\ Thin(stream'[HubOf[c]], stream[HubOf[c]], i)
  BY <1>1, <1>4, <1>5, ThinCases
<1>7. /\ Thin(received'[c], received[c], i) /\ Thin(send'[c], send[c], i)
      /\ Thin(EventsBy(notified'[i], i), EventsBy(notified[i], i), i)
  BY <1>2, ThinCases
<1> QED
  BY <1>2, <1>6, <1>7, WayThinned

\* A hub takes from Redis in order.
LEMMA WayFromRedis ==
  ASSUME HubTypeOK, HubTypeOK', NEW c \in Clients, NEW i \in Instances,
         Chain(Way(c, i), committed, i), NEW j \in Instances, FromRedis(j)
  PROVE  Chain(Way(c, i), committed, i)'
<1> DEFINE P == Way(c, i)
           Q == <<received'[c], send'[c], broadcast'[HubOf[c]],
                  stream'[HubOf[c]], EventsBy(notified'[i], i)>>
<1>1. Q = Way(c, i)'
  BY DEF Way
<1>2. P \in Ways /\ Q \in Ways
  BY <1>1, WayType, WayTypeNext
<1>3. /\ UNCHANGED <<committed, received, send, notified>>
      /\ stream[j] # <<>> /\ stream' = [stream EXCEPT ![j] = Tail(@)]
      /\ broadcast' = [broadcast EXCEPT ![j] = Append(@, Head(stream[j]))]
      /\ broadcast \in [Instances -> Seq(Message)]
      /\ stream \in [Instances -> Seq(Message)]
  BY DEF FromRedis, Take, Locally, HubTypeOK, postgres
<1>4. HubOf[c] \in Instances /\ broadcast[HubOf[c]] = P[3]
      /\ stream[HubOf[c]] = P[4] /\ broadcast'[HubOf[c]] = Q[3]
      /\ stream'[HubOf[c]] = Q[4]
  BY HubOfAssumption DEF Way
<1>5. Q[1] = P[1] /\ Q[2] = P[2] /\ Q[5] = P[5]
  BY <1>3 DEF Way
<1>6. Chain(P, committed, i)
  OBVIOUS
<1>7. SUFFICES Chain(Q, committed, i)
  BY <1>1, <1>3
<1> HIDE DEF P, Q
<1>8. CASE HubOf[c] = j
  <2>1. Q[3] = Append(P[3], Head(P[4])) /\ Q[4] = Tail(P[4]) /\ P[4] # <<>>
    BY <1>3, <1>4, <1>8
  <2>2. \A a \in 1 .. 5 : a # 3 /\ a # 4 => Q[a] = P[a]
    BY <1>5
  <2>3. \A a \in 1 .. 5 : 3 < a /\ a < 4 => P[a] = <<>>
    OBVIOUS
  <2>4. 3 \in 1 .. 5 /\ 4 \in 1 .. 5 /\ 3 < 4
    OBVIOUS
  <2> QED
    BY <1>2, <1>6, <2>1, <2>2, <2>3, <2>4, ChainMoved
<1>9. CASE HubOf[c] # j
  <2>1. Q[3] = P[3] /\ Q[4] = P[4]
    BY <1>3, <1>4, <1>9
  <2>2. \A a \in 1 .. 5 : Thin(Q[a], P[a], i)
    BY <1>5, <2>1, ThinCases
  <2> QED
    BY <1>2, <1>6, <2>2, ChainThinned
<1> QED
  BY <1>8, <1>9

\* A hub hands an event to a client, or drops it for want of room.
LEMMA WayBroadcast ==
  ASSUME HubTypeOK, HubTypeOK', NEW c \in Clients, NEW i \in Instances,
         Chain(Way(c, i), committed, i), NEW j \in Instances, Broadcast(j)
  PROVE  Chain(Way(c, i), committed, i)'
<1> DEFINE P == Way(c, i)
           Q == <<received'[c], send'[c], broadcast'[HubOf[c]],
                  stream'[HubOf[c]], EventsBy(notified'[i], i)>>
<1>1. Q = Way(c, i)'
  BY DEF Way
<1>2. P \in Ways /\ Q \in Ways
  BY <1>1, WayType, WayTypeNext
<1>3. /\ UNCHANGED <<committed, received, stream, notified>>
      /\ broadcast[j] # <<>>
      /\ broadcast' = [broadcast EXCEPT ![j] = Tail(@)]
      /\ broadcast \in [Instances -> Seq(Message)]
      /\ send'[c] = IF c \in channel /\ HubOf[c] = j
                    THEN Offer(c, Head(broadcast[j])) ELSE send[c]
  BY DEF Broadcast, Take, HubTypeOK, postgres, redis
<1>4. HubOf[c] \in Instances /\ broadcast[HubOf[c]] = P[3]
      /\ send[c] = P[2] /\ broadcast'[HubOf[c]] = Q[3] /\ send'[c] = Q[2]
  BY HubOfAssumption DEF Way
<1>5. Q[1] = P[1] /\ Q[4] = P[4] /\ Q[5] = P[5]
  BY <1>3 DEF Way
<1>6. Chain(P, committed, i)
  OBVIOUS
<1>7. SUFFICES Chain(Q, committed, i)
  BY <1>1, <1>3
<1> HIDE DEF P, Q
<1>8. CASE HubOf[c] = j /\ Q[2] # P[2]
  <2>1. Q[2] = Append(P[2], Head(P[3])) /\ Q[3] = Tail(P[3]) /\ P[3] # <<>>
    BY <1>3, <1>4, <1>8 DEF Offer
  <2>2. \A a \in 1 .. 5 : a # 2 /\ a # 3 => Q[a] = P[a]
    BY <1>5
  <2>3. \A a \in 1 .. 5 : 2 < a /\ a < 3 => P[a] = <<>>
    OBVIOUS
  <2>4. 2 \in 1 .. 5 /\ 3 \in 1 .. 5 /\ 2 < 3
    OBVIOUS
  <2> QED
    BY <1>2, <1>6, <2>1, <2>2, <2>3, <2>4, ChainMoved
<1>9. CASE HubOf[c] # j \/ Q[2] = P[2]
  <2>1. Q[2] = P[2]
    BY <1>3, <1>4, <1>9
  <2>2. Q[3] = P[3] \/ (P[3] # <<>> /\ Q[3] = Tail(P[3]))
    BY <1>3, <1>4
  <2>3. \A a \in 1 .. 5 : Thin(Q[a], P[a], i)
    BY <1>5, <2>1, <2>2, ThinCases
  <2> QED
    BY <1>2, <1>6, <2>3, ChainThinned
<1> QED
  BY <1>8, <1>9

\* A client's reader, and its refusals.
LEMMA WayReader ==
  ASSUME HubTypeOK, HubTypeOK', NEW c \in Clients, NEW i \in Instances,
         Chain(Way(c, i), committed, i), NEW d \in Clients,
         Register(d) \/ SubscribeClient(d) \/ AddSubscription(d)
         \/ SendError(d) \/ Unsubscribe(d) \/ Disconnect(d) \/ ReadFails(d)
         \/ Unregister(d)
  PROVE  Chain(Way(c, i), committed, i)'
<1> DEFINE m == [event |-> 0, by |-> HubOf[d]]
<1>1. m \in Frame /\ ~Mine(m, i)
  BY HubOfAssumption DEF Frame, Mine
<1>2. /\ UNCHANGED <<committed, received, broadcast, stream, notified>>
      /\ send'[c] = send[c] \/ send'[c] = Append(send[c], m)
  <2>1. CASE SendError(d)
    <3>1. /\ UNCHANGED <<committed, received, broadcast, stream, notified>>
          /\ send' = [send EXCEPT ![d] = Offer(d, m)]
          /\ send \in [Clients -> Seq(Message \cup Notice)]
      BY <2>1 DEF SendError, HubTypeOK, postgres, redis
    <3>2. Offer(d, m) = send[d] \/ Offer(d, m) = Append(send[d], m)
      BY DEF Offer
    <3> HIDE DEF m
    <3> QED
      BY <3>1, <3>2
  <2>2. CASE ~SendError(d)
    <3>1. UNCHANGED <<committed, received, broadcast, stream, notified, send>>
      BY <2>2
      DEF Register, SubscribeClient, AddSubscription, Unsubscribe,
          Disconnect, ReadFails, Unregister, postgres, redis
    <3> QED
      BY <3>1
  <2> QED
    BY <2>1, <2>2
<1> HIDE DEF m
<1>3. Thin(send'[c], send[c], i)
  BY <1>1, <1>2, ThinCases
<1>4. /\ Thin(received'[c], received[c], i)
      /\ Thin(broadcast'[HubOf[c]], broadcast[HubOf[c]], i)
      /\ Thin(stream'[HubOf[c]], stream[HubOf[c]], i)
      /\ Thin(EventsBy(notified'[i], i), EventsBy(notified[i], i), i)
  BY <1>2, ThinCases
<1> QED
  BY <1>2, <1>3, <1>4, WayThinned

\* What is written is the oldest there is to write.
LEMMA WayWrite ==
  ASSUME HubTypeOK, HubTypeOK', NEW c \in Clients, NEW i \in Instances,
         Chain(Way(c, i), committed, i), NEW d \in Clients, WriteMessage(d)
  PROVE  Chain(Way(c, i), committed, i)'
<1> DEFINE P == Way(c, i)
           Q == <<received'[c], send'[c], broadcast'[HubOf[c]],
                  stream'[HubOf[c]], EventsBy(notified'[i], i)>>
<1>1. Q = Way(c, i)'
  BY DEF Way
<1>2. P \in Ways /\ Q \in Ways
  BY <1>1, WayType, WayTypeNext
<1>3. /\ UNCHANGED <<committed, broadcast, stream, notified>>
      /\ send[d] # <<>> /\ send' = [send EXCEPT ![d] = Tail(@)]
      /\ received' = received
           \/ received' = [received EXCEPT ![d] = Append(@, Head(send[d]))]
      /\ send \in [Clients -> Seq(Message \cup Notice)]
      /\ received \in [Clients -> Seq(Message)]
  BY DEF WriteMessage, Take, HubTypeOK, postgres, redis
<1>4. /\ received[c] = P[1] /\ send[c] = P[2]
      /\ received'[c] = Q[1] /\ send'[c] = Q[2]
  BY DEF Way
<1>5. Q[3] = P[3] /\ Q[4] = P[4] /\ Q[5] = P[5]
  BY <1>3 DEF Way
<1>6. Chain(P, committed, i)
  OBVIOUS
<1>7. SUFFICES Chain(Q, committed, i)
  BY <1>1, <1>3
<1> HIDE DEF P, Q
<1>8. CASE d = c /\ Q[1] # P[1]
  <2>1. Q[1] = Append(P[1], Head(P[2])) /\ Q[2] = Tail(P[2]) /\ P[2] # <<>>
    BY <1>3, <1>4, <1>8
  <2>2. \A a \in 1 .. 5 : a # 1 /\ a # 2 => Q[a] = P[a]
    BY <1>5
  <2>3. \A a \in 1 .. 5 : 1 < a /\ a < 2 => P[a] = <<>>
    OBVIOUS
  <2>4. 1 \in 1 .. 5 /\ 2 \in 1 .. 5 /\ 1 < 2
    OBVIOUS
  <2> QED
    BY <1>2, <1>6, <2>1, <2>2, <2>3, <2>4, ChainMoved
<1>9. CASE d # c \/ Q[1] = P[1]
  <2>1. Q[1] = P[1]
    BY <1>3, <1>4, <1>9
  <2>2. Q[2] = P[2] \/ (P[2] # <<>> /\ Q[2] = Tail(P[2]))
    BY <1>3, <1>4
  <2>3. \A a \in 1 .. 5 : Thin(Q[a], P[a], i)
    BY <1>5, <2>1, <2>2, ThinCases
  <2> QED
    BY <1>2, <1>6, <2>3, ChainThinned
<1> QED
  BY <1>8, <1>9

\* Failures are never forgotten.
LEMMA FailuresGrow == HubTypeOK /\ [HubNext]_hubVars => failures \subseteq failures'
<1> SUFFICES ASSUME HubTypeOK, [HubNext]_hubVars PROVE failures \subseteq failures'
  OBVIOUS
<1>1. ASSUME NEW i \in Instances, FromChanges(i)
      PROVE  failures \subseteq failures'
  BY <1>1
  DEF FromChanges, LoseListener, Listen, Publish, LoseSubscription,
      Resubscribe, FromRedis, Broadcast, ghosts
<1>2. ASSUME NEW c \in Clients, OfClient(c)
      PROVE  failures \subseteq failures'
  BY <1>2
  DEF OfClient, Register, SubscribeClient, AddSubscription, SendError,
      Unsubscribe, Disconnect, ReadFails, Unregister, WriteMessage, ghosts
<1> QED
  BY <1>1, <1>2 DEF HubNext, Commit, hubVars, ghosts

\* Every step keeps the order of every way.
LEMMA WayStep ==
  HubTypeOK /\ HubTypeOK' /\ RedisInv /\ WayInv /\ [HubNext]_hubVars => WayInv'
<1> SUFFICES ASSUME HubTypeOK, HubTypeOK', RedisInv, WayInv, [HubNext]_hubVars,
                    NEW c \in Clients, NEW i \in Instances, i \notin failures'
             PROVE  Chain(Way(c, i), committed, i)'
  BY DEF WayInv
<1>1. Chain(Way(c, i), committed, i)
  BY FailuresGrow DEF WayInv
<1>2. CASE Commit
  BY <1>1, <1>2, WayCommit
<1>3. ASSUME NEW j \in Instances, FromChanges(j)
      PROVE  Chain(Way(c, i), committed, i)'
  <2>1. CASE LoseListener(j) \/ Listen(j) \/ LoseSubscription(j)
             \/ Resubscribe(j)
    BY <1>1, <2>1, WayQuiet
  <2>2. CASE Publish(j) /\ j = i
    BY <1>1, <2>2, WayPublish
  <2>3. CASE Publish(j) /\ j # i
    BY <1>1, <2>3, WayForeign
  <2>4. CASE FromRedis(j)
    BY <1>1, <2>4, WayFromRedis
  <2>5. CASE Broadcast(j)
    BY <1>1, <2>5, WayBroadcast
  <2> QED
    BY <1>3, <2>1, <2>2, <2>3, <2>4, <2>5 DEF FromChanges
<1>4. ASSUME NEW d \in Clients, OfClient(d)
      PROVE  Chain(Way(c, i), committed, i)'
  BY <1>1, <1>4, WayReader, WayWrite DEF OfClient
<1>5. CASE UNCHANGED hubVars
  BY <1>1, <1>5 DEF hubVars, Way, Chain, postgres, redis
<1> QED
  BY <1>2, <1>3, <1>4, <1>5 DEF HubNext

\* At the start nothing is on its way.
LEMMA WayInit == HubInit => WayInv
<1> SUFFICES ASSUME HubInit, NEW c \in Clients, NEW i \in Instances
             PROVE  Chain(Way(c, i), committed, i)
  BY DEF WayInv
<1>1. \A a \in 1 .. 5 : Way(c, i)[a] = <<>>
  BY HubOfAssumption DEF HubInit, Way, EventsBy
<1> QED
  BY <1>1, EmptyOrder DEF Chain

\* The end of a way is what the client gets.
LEMMA WayOrders ==
  ASSUME HubTypeOK, NEW c \in Clients, NEW i \in Instances,
         Chain(Way(c, i), committed, i),
         NEW j \in DOMAIN EventsOf(c), NEW k \in DOMAIN EventsOf(c), j < k,
         Mine(EventsOf(c)[j], i), Mine(EventsOf(c)[k], i)
  PROVE  EventsOf(c)[j].event < EventsOf(c)[k].event
<1> DEFINE s == received[c]
           t == send[c]
           e == EventsOf(c)
<1>1. s \in Seq(Frame) /\ t \in Seq(Frame)
  <2>1. /\ 1 \in 1 .. 5 /\ 2 \in 1 .. 5
        /\ Way(c, i)[1] = s /\ Way(c, i)[2] = t
    BY DEF Way
  <2> QED
    BY <2>1, WayType DEF Ways
<1>2. Sorted(s, i) /\ Sorted(t, i) /\ Before(s, t, i)
  <2>1. 1 \in 1 .. 5 /\ 2 \in 1 .. 5 /\ 1 < 2
    OBVIOUS
  <2>2. Way(c, i)[1] = s /\ Way(c, i)[2] = t
    BY DEF Way
  <2> QED
    BY <2>1, <2>2 DEF Chain
<1>3. /\ Len(s) \in Nat /\ Len(t) \in Nat
      /\ DOMAIN e = 1 .. Len(s) + Len(t)
      /\ \A a \in 1 .. Len(s) + Len(t) :
           e[a] = IF a <= Len(s) THEN s[a] ELSE t[a - Len(s)]
  <2>1. Len(s) \in Nat /\ Len(t) \in Nat /\ e = s \o t
    BY <1>1, LenProperties DEF EventsOf
  <2> HIDE DEF s, t, e
  <2>2. /\ e \in Seq(Frame) /\ Len(e) = Len(s) + Len(t)
        /\ \A a \in 1 .. Len(s) + Len(t) :
             e[a] = IF a <= Len(s) THEN s[a] ELSE t[a - Len(s)]
    BY <1>1, <2>1, ConcatProperties
  <2>3. DOMAIN e = 1 .. Len(e)
    BY <2>2, LenProperties
  <2> QED
    BY <2>1, <2>2, <2>3
<1> HIDE DEF s, t, e
<1>4. j \in 1 .. Len(s) + Len(t) /\ k \in 1 .. Len(s) + Len(t)
      /\ Mine(e[j], i) /\ Mine(e[k], i)
  BY <1>3 DEF e
<1>5. CASE k <= Len(s)
  <2>1. j \in 1 .. Len(s) /\ k \in 1 .. Len(s) /\ e[j] = s[j] /\ e[k] = s[k]
    BY <1>3, <1>4, <1>5
  <2> QED
    BY <1>2, <1>4, <2>1 DEF Sorted, e
<1>6. CASE j <= Len(s) /\ ~(k <= Len(s))
  <2>1. /\ j \in 1 .. Len(s) /\ k - Len(s) \in 1 .. Len(t)
        /\ e[j] = s[j] /\ e[k] = t[k - Len(s)]
    BY <1>3, <1>4, <1>6
  <2> QED
    BY <1>2, <1>4, <2>1 DEF Before, Below, e
<1>7. CASE ~(j <= Len(s))
  <2>1. /\ j - Len(s) \in 1 .. Len(t) /\ k - Len(s) \in 1 .. Len(t)
        /\ j - Len(s) < k - Len(s)
    BY <1>3, <1>4, <1>7
  <2>2. e[j] = t[j - Len(s)] /\ e[k] = t[k - Len(s)]
    BY <1>3, <1>4, <1>7
  <2> QED
    BY <1>2, <1>4, <2>1, <2>2 DEF Sorted, e
<1> QED
  BY <1>3, <1>4, <1>5, <1>6, <1>7

\* The events one instance publishes reach every client in the order of the
\* changes and once each, unless a publish failed: InOrderPerPublisher.
THEOREM InOrderTheorem == HubSpec => []InOrderPerPublisher
<1>1. HubInit => RedisInv
  BY DEF HubInit, RedisInv
<1>2. HubTypeOK /\ WayInv => InOrderPerPublisher
  <2> SUFFICES ASSUME HubTypeOK, WayInv, NEW c \in Clients,
                      NEW i \in Instances \ failures,
                      NEW j \in DOMAIN EventsOf(c),
                      NEW k \in DOMAIN EventsOf(c), j < k,
                      Mine(EventsOf(c)[j], i), Mine(EventsOf(c)[k], i)
               PROVE  EventsOf(c)[j].event < EventsOf(c)[k].event
    BY DEF InOrderPerPublisher, Mine
  <2>1. Chain(Way(c, i), committed, i)
    BY DEF WayInv
  <2> QED
    BY <2>1, WayOrders
<1> QED
  BY <1>1, <1>2, TypeInit, TypeStep, RedisStep, WayInit, WayStep, PTL
  DEF HubSpec
=============================================================================
