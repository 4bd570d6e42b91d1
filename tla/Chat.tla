--------------------------------- MODULE Chat ---------------------------------
(***************************************************************************)
(* The relay of the end-to-end encrypted chat: devices that publish        *)
(* prekeys, direct conversations, and messages with one ciphertext for     *)
(* every target device.                                                    *)
(*                                                                         *)
(* Sources: src/apps/backend/internal/chat (devices.go, conversations.go,  *)
(* messages.go, service.go) and the constraints of                         *)
(* db/migrations/042_chat.sql.                                             *)
(*                                                                         *)
(* A request runs its statements one by one.  One outside a transaction    *)
(* commits by itself; what a transaction writes is kept in the request     *)
(* until it commits, and the row it has updated stays locked until then.   *)
(* A request may fail or its process die before any statement, and the     *)
(* client may then repeat it, with the same ids.                           *)
(*                                                                         *)
(* Keys and ciphertexts are opaque to the server.  Here an identity is a   *)
(* number that grows when the app is reinstalled, a one-time prekey is its *)
(* id and the identity it was made for, and a ciphertext is there or not.  *)
(* A user acts through devices of its own, and nobody ever leaves a        *)
(* conversation: no code sets removed_at.                                  *)
(***************************************************************************)
EXTENDS Integers, FiniteSets

CONSTANTS
    Requests,    \* the goroutines that serve a request each
    Devices,     \* device ids
    Users,
    Owner,       \* [Devices -> Users]
    KeyIds,      \* ids of one-time prekeys, chosen by the device
    Convs,       \* the conversation ids uid.New will give out
    ClientIds,   \* clientMessageIds
    Sends,       \* what clients send: device, clientMessageId and targets
    PageSize,    \* how many messages ListMessages returns at most
    MaxIdentity, \* bound: how often an app is reinstalled
    MaxAsked,    \* bound: requests over the whole run
    MaxFaults,   \* bound: requests that fail or die
    None         \* no device, conversation, id or key

ASSUME RequestsAssumption == IsFiniteSet(Requests)
ASSUME OwnerAssumption == Owner \in [Devices -> Users]
ASSUME NoneAssumption == None \notin Devices \cup Convs \cup KeyIds \cup ClientIds
ASSUME SendsAssumption ==
    Sends \subseteq [dev : Devices, cid : ClientIds, targets : SUBSET Devices]
ASSUME BoundsAssumption ==
    /\ PageSize \in Nat \ {0}
    /\ MaxIdentity \in Nat
    /\ MaxAsked \in Nat
    /\ MaxFaults \in Nat

VARIABLES
    device,   \* [Devices -> chat_devices row]
    pool,     \* chat_one_time_prekeys
    members,  \* [Convs -> its members]; {} when the conversation does not exist
    nextSeq,  \* [Convs -> chat_conversations.next_seq], as committed
    messages, \* chat_messages, as committed
    receipts, \* chat_message_deliveries and chat_message_receipts, as committed:
              \* the rows of both are inserted together, one per target device
    req,      \* [Requests -> the request being served]
    cursor,   \* [Devices -> [Convs -> the last seq the device has listed]]
    got,      \* [Devices -> what it was sent by ListMessages]
    uploaded, \* ghost: how often a prekey was inserted
    handed,   \* ghost: how often a prekey was answered in a bundle
    bundles,  \* ghost: the bundles answered
    answers,  \* ghost: the sends answered with a message
    asked, faults

deviceVars == <<device, pool, uploaded, handed, bundles>>
chatVars == <<members, nextSeq, messages, receipts, answers>>
readerVars == <<cursor, got>>
vars == <<deviceVars, chatVars, readerVars, req, asked, faults>>
------------------------------------------------------------------------------
Identities == 0..MaxIdentity
Statuses == {"none", "active", "revoked"}
Prekeys == [dev : Devices, id : KeyIds, identity : Identities]
Messages == [conv : Convs, seq : Nat, dev : Devices, cid : ClientIds,
             targets : SUBSET Devices]

\* A delivery is named by its message and the device it is for.
Copies == [conv : Convs, seq : Nat, dev : Devices]
Marks == {"sent", "delivered", "read"}
Rank(mark) == CASE mark = "sent" -> 1 [] mark = "delivered" -> 2 [] OTHER -> 3

Idle == [op |-> "idle", step |-> "idle", dev |-> None, conv |-> None,
         cid |-> None, targets |-> {}, users |-> {}, keys |-> {},
         key |-> None, identity |-> 0, made |-> 0, seq |-> 0, mark |-> "sent"]

\* A device may have registered before, without prekeys, and two users may have
\* a conversation, without messages.
Init ==
    /\ device \in [Devices -> [status : {"none", "active"}, identity : {0}]]
    /\ pool = {}
    /\ \/ members = [c \in Convs |-> {}]
       \/ \E open \in Convs, u, v \in Users :
             /\ u # v
             /\ members = [c \in Convs |-> IF c = open THEN {u, v} ELSE {}]
    /\ nextSeq = [c \in Convs |-> 0]
    /\ messages = {}
    /\ receipts = <<>>
    /\ req = [r \in Requests |-> Idle]
    /\ cursor = [d \in Devices |-> [c \in Convs |-> 0]]
    /\ got = [d \in Devices |-> {}]
    /\ uploaded = [d \in Devices |-> [k \in KeyIds |-> 0]]
    /\ handed = [d \in Devices |-> [k \in KeyIds |-> 0]]
    /\ bundles = {}
    /\ answers = {}
    /\ asked = 0
    /\ faults = 0
------------------------------------------------------------------------------
At(r, op, step) == req[r].op = op /\ req[r].step = step
Goto(r, step) == req' = [req EXCEPT ![r].step = step]
End(r) == req' = [req EXCEPT ![r] = Idle]

\* A client sends a request.
Ask == asked < MaxAsked /\ asked' = asked + 1
Start(r, q) ==
    /\ req[r] = Idle
    /\ req' = [req EXCEPT ![r] = q]
    /\ Ask
    /\ UNCHANGED <<deviceVars, chatVars, readerVars, faults>>

Active(d) == device[d].status = "active"
DeviceOwnedByUser(d) == Active(d)
IsConversationMember(c, d) == Owner[d] \in members[c]
------------------------------------------------------------------------------
(***************************************************************************)
(* Devices and their prekeys.                                              *)
(***************************************************************************)
Pooled(d, k) == \E p \in pool : p.dev = d /\ p.id = k

\* The row of the prekey is locked by a bundle request that is deleting it.
Locked(d, k) ==
    \E r \in Requests : At(r, "bundle", "take") /\ req[r].dev = d
                        /\ req[r].key = k

\* INSERT ... ON CONFLICT (device_id, key_id) DO NOTHING, for the keys in ks:
\* it waits for a row that is being deleted, and leaves one that is there.
Insert(d, ks, identity) ==
    LET new == {k \in ks : ~Pooled(d, k)}
    IN  /\ \A k \in ks : ~Locked(d, k)
        /\ pool' = pool \cup
               {[dev |-> d, id |-> k, identity |-> identity] : k \in new}
        /\ uploaded' = [uploaded EXCEPT ![d] =
               [k \in KeyIds |-> IF k \in new THEN @[k] + 1 ELSE @[k]]]

\* RegisterDevice: one transaction.  A device that registers again writes its
\* key material over the old one, and its prekeys are added to what is there.
RegisterDevice(d, identity, ks) ==
    /\ identity \in {device[d].identity, device[d].identity + 1}
    /\ Ask
    /\ device' = [device EXCEPT ![d] = [status |-> "active",
                                       identity |-> identity]]
    /\ Insert(d, ks, identity)
    /\ UNCHANGED <<handed, bundles, chatVars, readerVars, req, faults>>

\* RevokeDevice: one statement.
RevokeDevice(d) ==
    /\ device[d].status # "none"
    /\ Ask
    /\ device' = [device EXCEPT ![d].status = "revoked"]
    /\ UNCHANGED <<pool, uploaded, handed, bundles, chatVars, readerVars,
                   req, faults>>

\* TopUpPrekeys: the check, then one statement for each prekey.  identity is
\* the one the prekeys were made for.
AskTopUp(r) ==
    \E d \in Devices, ks \in SUBSET KeyIds \ {{}} :
        Start(r, [Idle EXCEPT !.op = "topup", !.step = "owned", !.dev = d,
                              !.keys = ks, !.identity = device[d].identity])

TopUpPrekeys(r) ==
    /\ At(r, "topup", "owned")
    /\ IF DeviceOwnedByUser(req[r].dev) THEN Goto(r, "insert") ELSE End(r)
    /\ UNCHANGED <<deviceVars, chatVars, readerVars, asked, faults>>

TopUpOne(r) ==
    /\ At(r, "topup", "insert")
    /\ \E k \in req[r].keys :
        /\ Insert(req[r].dev, {k}, req[r].identity)
        /\ IF req[r].keys = {k} THEN End(r)
           ELSE req' = [req EXCEPT ![r].keys = @ \ {k}]
    /\ UNCHANGED <<device, handed, bundles, chatVars, readerVars, asked, faults>>

\* GetPrekeyBundle: the device's row ...
AskBundle(r) ==
    \E d \in Devices :
        Start(r, [Idle EXCEPT !.op = "bundle", !.step = "device", !.dev = d])

GetPrekeyBundle(r) ==
    /\ At(r, "bundle", "device")
    /\ IF Active(req[r].dev)
       THEN req' = [req EXCEPT ![r].step = "select",
                               ![r].identity = device[req[r].dev].identity]
       ELSE End(r)
    /\ UNCHANGED <<deviceVars, chatVars, readerVars, asked, faults>>

\* ... one of its prekeys, the oldest in the code, that no other request has
\* locked: SELECT ... LIMIT 1 FOR UPDATE SKIP LOCKED, inside the DELETE.
Unlocked(d) == {p \in pool : p.dev = d /\ ~Locked(d, p.id)}

\* Broken: the prekey is selected without a lock and deleted by its id.
SelectUnlocked(r) ==
    /\ At(r, "bundle", "select")
    /\ \/ \E p \in pool :
             /\ p.dev = req[r].dev
             /\ req' = [req EXCEPT ![r].step = "take", ![r].key = p.id,
                                     ![r].made = p.identity]
       \/ /\ \A p \in pool : p.dev # req[r].dev
          /\ Goto(r, "count")
    /\ UNCHANGED <<deviceVars, chatVars, readerVars, asked, faults>>

SelectPrekey(r) ==
    /\ At(r, "bundle", "select")
    /\ \/ \E p \in Unlocked(req[r].dev) :
             req' = [req EXCEPT ![r].step = "take", ![r].key = p.id,
                                     ![r].made = p.identity]
       \/ /\ Unlocked(req[r].dev) = {}
          /\ Goto(r, "count")
    /\ UNCHANGED <<deviceVars, chatVars, readerVars, asked, faults>>

\* The DELETE is over, and with it the lock.
TakePrekey(r) ==
    /\ At(r, "bundle", "take")
    /\ pool' = {p \in pool : ~(p.dev = req[r].dev /\ p.id = req[r].key)}
    /\ Goto(r, "count")
    /\ UNCHANGED <<device, uploaded, handed, bundles, chatVars, readerVars,
                   asked, faults>>

\* COUNT of what is left, and the answer.
AnswerBundle(r) ==
    /\ At(r, "bundle", "count")
    /\ LET d == req[r].dev
       IN  IF req[r].key = None THEN UNCHANGED <<handed, bundles>>
           ELSE /\ handed' = [handed EXCEPT ![d][req[r].key] = @ + 1]
                /\ bundles' = bundles \cup {[dev |-> d, made |-> req[r].made,
                                            identity |-> req[r].identity]}
    /\ End(r)
    /\ UNCHANGED <<device, pool, uploaded, chatVars, readerVars, asked, faults>>
------------------------------------------------------------------------------
(***************************************************************************)
(* Conversations and messages.                                             *)
(***************************************************************************)
\* CreateConversation between a user and another: the look for an existing
\* one, then one transaction that inserts the conversation and its members.
AskCreate(r) ==
    \E u, v \in Users :
        /\ u # v
        /\ Start(r, [Idle EXCEPT !.op = "create", !.step = "find",
                                 !.users = {u, v}])

FindDirectConversation(r) ==
    /\ At(r, "create", "find")
    /\ IF \E c \in Convs : members[c] = req[r].users
       THEN End(r) ELSE Goto(r, "insert")
    /\ UNCHANGED <<deviceVars, chatVars, readerVars, asked, faults>>

CreateConversation(r) ==
    /\ At(r, "create", "insert")
    /\ \E c \in Convs :
        /\ members[c] = {}
        /\ members' = [members EXCEPT ![c] = req[r].users]
    /\ End(r)
    /\ UNCHANGED <<deviceVars, nextSeq, messages, receipts, answers, readerVars,
                   asked, faults>>

\* SendMessage: the caller belongs to the conversation and owns the device ...
AskSend(r) ==
    \E c \in Convs, s \in Sends :
        /\ members[c] # {}
        /\ Start(r, [Idle EXCEPT !.op = "send", !.step = "sender",
                                 !.dev = s.dev, !.conv = c, !.cid = s.cid,
                                 !.targets = s.targets])

CheckSender(r) ==
    /\ At(r, "send", "sender")
    /\ IF /\ IsConversationMember(req[r].conv, req[r].dev)
          /\ DeviceOwnedByUser(req[r].dev)
       THEN Goto(r, "dedupe") ELSE End(r)
    /\ UNCHANGED <<deviceVars, chatVars, readerVars, asked, faults>>

\* ... the message is not one that was sent before ...
SameSend(q, m) == m.conv = q.conv /\ m.dev = q.dev /\ m.cid = q.cid

AnswerWith(r, seq) ==
    answers' = answers \cup {[conv |-> req[r].conv, dev |-> req[r].dev,
                              cid |-> req[r].cid, seq |-> seq]}

GetMessageByDedupeKey(r) ==
    /\ At(r, "send", "dedupe")
    /\ \/ \E m \in messages :
             /\ SameSend(req[r], m)
             /\ AnswerWith(r, m.seq)
             /\ End(r)
       \/ /\ \A m \in messages : ~SameSend(req[r], m)
          /\ Goto(r, "targets")
          /\ UNCHANGED answers
    /\ UNCHANGED <<deviceVars, members, nextSeq, messages, receipts, readerVars,
                   asked, faults>>

\* ... every target is an active device of a member.
ActiveMemberDeviceSet(c) ==
    {d \in Devices : Active(d) /\ IsConversationMember(c, d)}

CheckTargets(r) ==
    /\ At(r, "send", "targets")
    /\ IF req[r].targets \subseteq ActiveMemberDeviceSet(req[r].conv)
       THEN Goto(r, "assign") ELSE End(r)
    /\ UNCHANGED <<deviceVars, chatVars, readerVars, asked, faults>>

\* The transaction: UPDATE ... SET next_seq = next_seq + 1 RETURNING next_seq
\* waits for the row of the conversation and keeps it locked ...
InTransaction(r, c) == /\ req[r].op = "send" /\ req[r].conv = c
                       /\ req[r].step \in {"message", "copies"}

\* Broken: the counter is read outside of the transaction that inserts.
RowFreeAlways(c) == TRUE

RowFree(c) == \A r \in Requests : ~InTransaction(r, c)

AssignSeq(r) ==
    /\ At(r, "send", "assign")
    /\ RowFree(req[r].conv)
    /\ req' = [req EXCEPT ![r].step = "message",
                          ![r].seq = nextSeq[req[r].conv] + 1]
    /\ UNCHANGED <<deviceVars, chatVars, readerVars, asked, faults>>

\* ... the message is inserted, unless the unique constraint finds that it was
\* sent in the meantime: the transaction is rolled back ...
\* Broken: no unique constraint, the look before the transaction is trusted.
NeverTaken(q) == FALSE

Taken(q) == \E m \in messages : SameSend(q, m)

\* Broken: the number is taken in a transaction of its own, so a send that is
\* refused leaves a hole.
InsertMessageApart(r) ==
    /\ At(r, "send", "message")
    /\ nextSeq' = [nextSeq EXCEPT ![req[r].conv] = req[r].seq]
    /\ IF Taken(req[r]) THEN End(r) ELSE Goto(r, "copies")
    /\ UNCHANGED <<deviceVars, members, messages, receipts, answers, readerVars,
                   asked, faults>>

InsertMessage(r) ==
    /\ At(r, "send", "message")
    /\ IF Taken(req[r]) THEN End(r) ELSE Goto(r, "copies")
    /\ UNCHANGED <<deviceVars, chatVars, readerVars, asked, faults>>

\* ... and with it a delivery and a receipt for every target, all at once.
CopiesOf(q) == {[conv |-> q.conv, seq |-> q.seq, dev |-> d] : d \in q.targets}

CommitMessage(r) ==
    LET q == req[r]
    IN  /\ At(r, "send", "copies")
        /\ nextSeq' = [nextSeq EXCEPT ![q.conv] = q.seq]
        /\ messages' = messages \cup
               {[conv |-> q.conv, seq |-> q.seq, dev |-> q.dev, cid |-> q.cid,
                 targets |-> q.targets]}
        /\ receipts' = [x \in DOMAIN receipts \cup CopiesOf(q) |->
               IF x \in DOMAIN receipts THEN receipts[x] ELSE "sent"]
        /\ Goto(r, "answer")
        /\ UNCHANGED <<deviceVars, members, answers, readerVars, asked, faults>>

\* The event and the push are on their way, the client is answered.
AnswerSend(r) ==
    /\ At(r, "send", "answer")
    /\ AnswerWith(r, req[r].seq)
    /\ End(r)
    /\ UNCHANGED <<deviceVars, members, nextSeq, messages, receipts, readerVars,
                   asked, faults>>

\* AckMessage: the check, then one UPDATE that moves the mark forward only.
AskAck(r) ==
    \E x \in DOMAIN receipts, mark \in {"delivered", "read"} :
        Start(r, [Idle EXCEPT !.op = "ack", !.step = "owned", !.dev = x.dev,
                              !.conv = x.conv, !.seq = x.seq, !.mark = mark])

CheckAck(r) ==
    /\ At(r, "ack", "owned")
    /\ IF DeviceOwnedByUser(req[r].dev) THEN Goto(r, "update") ELSE End(r)
    /\ UNCHANGED <<deviceVars, chatVars, readerVars, asked, faults>>

\* The marks the UPDATE's WHERE clause accepts for the new one.
Updates(mark) == IF mark = "read" THEN {"sent", "delivered"} ELSE {"sent"}

AckMessage(r) ==
    LET x == [conv |-> req[r].conv, seq |-> req[r].seq, dev |-> req[r].dev]
    IN  /\ At(r, "ack", "update")
        /\ receipts' = IF receipts[x] \in Updates(req[r].mark)
                       THEN [receipts EXCEPT ![x] = req[r].mark] ELSE receipts
        /\ End(r)
        /\ UNCHANGED <<deviceVars, members, nextSeq, messages, answers,
                       readerVars, asked, faults>>

\* ListMessages after the device's cursor: one statement, the first PageSize
\* messages in the order of seq, with the device's own ciphertext if it has one.
Later(d, c) == {m \in messages : m.conv = c /\ m.seq > cursor[d][c]}

\* Broken: the newest messages first, as for a chat's first screen.
NewestPage(d, c) ==
    {m \in Later(d, c) :
        Cardinality({x \in Later(d, c) : x.seq > m.seq}) < PageSize}

Page(d, c) ==
    {m \in Later(d, c) :
        Cardinality({x \in Later(d, c) : x.seq < m.seq}) < PageSize}

ListMessages(d, c) ==
    /\ IsConversationMember(c, d)
    /\ got' = [got EXCEPT ![d] = @ \cup
           {[conv |-> c, seq |-> m.seq, whole |->
                [conv |-> c, seq |-> m.seq, dev |-> d] \in DOMAIN receipts]
            : m \in Page(d, c)}]
    /\ \E last \in Page(d, c) :
        /\ \A m \in Page(d, c) : m.seq <= last.seq
        /\ cursor' = [cursor EXCEPT ![d][c] = last.seq]
    /\ UNCHANGED <<deviceVars, chatVars, req, asked, faults>>
------------------------------------------------------------------------------
\* A statement fails, the client is gone, or the process dies: what is not
\* committed is rolled back, and what is locked is free again.
Fail(r) ==
    /\ faults < MaxFaults
    /\ req[r] # Idle
    /\ faults' = faults + 1
    /\ End(r)
    /\ UNCHANGED <<deviceVars, chatVars, readerVars, asked>>

AskAny(r) ==
    AskTopUp(r) \/ AskBundle(r) \/ AskCreate(r) \/ AskSend(r) \/ AskAck(r)

Step(r) ==
    \/ TopUpPrekeys(r) \/ TopUpOne(r)
    \/ GetPrekeyBundle(r) \/ SelectPrekey(r) \/ TakePrekey(r) \/ AnswerBundle(r)
    \/ FindDirectConversation(r) \/ CreateConversation(r)
    \/ CheckSender(r) \/ GetMessageByDedupeKey(r) \/ CheckTargets(r)
    \/ AssignSeq(r) \/ InsertMessage(r) \/ CommitMessage(r) \/ AnswerSend(r)
    \/ CheckAck(r) \/ AckMessage(r)

Next ==
    \/ \E r \in Requests : AskAny(r) \/ Step(r) \/ Fail(r)
    \/ \E d \in Devices, g \in Identities, ks \in SUBSET KeyIds :
           RegisterDevice(d, g, ks)
    \/ \E d \in Devices : RevokeDevice(d)
    \/ \E d \in Devices, c \in Convs : ListMessages(d, c)

Spec == Init /\ [][Next]_vars
------------------------------------------------------------------------------
RequestType ==
    [op : {"idle", "topup", "bundle", "create", "send", "ack"},
     step : {"idle", "owned", "insert", "device", "select", "take", "count",
             "find", "sender", "dedupe", "targets", "assign", "message",
             "copies", "answer", "update"},
     dev : Devices \cup {None}, conv : Convs \cup {None},
     cid : ClientIds \cup {None}, targets : SUBSET Devices,
     users : SUBSET Users, keys : SUBSET KeyIds, key : KeyIds \cup {None},
     identity : Identities, made : Identities, seq : Nat, mark : Marks]

TypeOK ==
    /\ device \in [Devices -> [status : Statuses, identity : Identities]]
    /\ pool \subseteq Prekeys
    /\ members \in [Convs -> SUBSET Users]
    /\ nextSeq \in [Convs -> Nat]
    /\ messages \subseteq Messages /\ IsFiniteSet(messages)
    /\ DOMAIN receipts \subseteq Copies
    /\ receipts \in [DOMAIN receipts -> Marks]
    /\ req \in [Requests -> RequestType]
    /\ cursor \in [Devices -> [Convs -> Nat]]
    /\ got \in [Devices -> SUBSET [conv : Convs, seq : Nat, whole : BOOLEAN]]
    /\ uploaded \in [Devices -> [KeyIds -> Nat]]
    /\ handed \in [Devices -> [KeyIds -> Nat]]

\* The messages of a conversation are numbered 1, 2, 3 ... without a hole and
\* without a repetition, whatever sends overlap, fail or are repeated: a device
\* that misses a number has missed a message ("so clients can detect gaps").
SequenceDense ==
    \A c \in Convs :
        LET own == {m \in messages : m.conv = c}
        IN  /\ {m.seq : m \in own} = 1..nextSeq[c]
            /\ \A m, n \in own : m.seq = n.seq => m = n

\* A device that pages through a conversation with the last number it has seen
\* never steps over a message, however late a send commits, and has got its
\* own ciphertext of each that was addressed to it.
CursorMissesNothing ==
    \A d \in Devices : \A m \in messages :
        m.seq <= cursor[d][m.conv] =>
            [conv |-> m.conv, seq |-> m.seq, whole |-> d \in m.targets] \in got[d]

\* However often and however concurrently a client repeats a send, all answers
\* name one message, and it is stored.
OneMessagePerSend ==
    \A a \in answers :
        /\ \E m \in messages : SameSend(a, m) /\ m.seq = a.seq
        /\ \A m \in messages : SameSend(a, m) => m.seq = a.seq

\* No prekey is handed to more peers than it was uploaded: two sessions never
\* start from one one-time prekey, and one that was handed out is not in the
\* pool any more.
PrekeyHandedOnce ==
    \A d \in Devices, k \in KeyIds :
        handed[d][k] + (IF Pooled(d, k) THEN 1 ELSE 0) <= uploaded[d][k]

\* A receipt never goes back: an acknowledgement of delivery that comes after
\* the one of reading is refused.
ReceiptsForward ==
    [][\A x \in DOMAIN receipts :
          /\ x \in DOMAIN receipts'
          /\ Rank(receipts[x]) <= Rank(receipts'[x])]_vars
------------------------------------------------------------------------------
\* What the code does not keep.

\* Two users have one conversation (conversations.go:13: "tapping "message this
\* person" twice never spawns a duplicate thread").
OneThread ==
    \A c, e \in Convs : members[c] = members[e] /\ members[c] # {} => c = e

\* A bundle is of one piece: its one-time prekey was made for the identity the
\* bundle names.
BundleMatches == \A b \in bundles : b.made = b.identity
===============================================================================
