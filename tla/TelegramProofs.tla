--------------------------- MODULE TelegramProofs ---------------------------
(* For any bots, members, messages and failures: what is marked was told,    *)
(* once and once more for a failure at most, and an update is acted on again *)
(* only after a failure or when the bot is given anew.                       *)
EXTENDS Telegram, TLAPS

Tied == UNION {[S -> Chats] : S \in SUBSET Members}
Numbers == 1..MaxMessages
Readers == [at : {"idle", "get", "take", "tie", "offset"}, bot : Bots \cup {NoBot},
            list : Seq(Numbers), next : 0..MaxMessages + 1, user : Members \cup {"nobody"}]
Senders == [at : {"idle", "pick", "send", "mark", "forget"}, chats : Tied,
            todo : SUBSET Members, user : Members \cup {"nobody"}]

(* What the reader has in hand: updates of a bot, in order, none of them     *)
(* below what it has read to.                                                *)
InHand ==
  /\ reader \in Readers
  /\ reader.at = "idle" => reader = Reading
  /\ reader.at # "idle" => reader.bot \in Bots \ {NoBot} /\ offset <= reader.next
  /\ reader.at \in {"take", "tie"} => reader.list # <<>>
  /\ reader.at = "tie" => reader.user \in Members
  /\ \A i \in 1..Len(reader.list) : reader.list[i] >= reader.next
  /\ \A i, j \in 1..Len(reader.list) : i < j => reader.list[i] < reader.list[j]
Kept ==
  /\ given \in Nat /\ chats \in Tied /\ sent \subseteq Members
  /\ codes \in UNION {[S -> [user : Members, till : Nat]] : S \in SUBSET (1..given)}
  /\ inbox \in [Bots -> Seq([chat : Chats, text : Nat])]
  /\ \A b \in Bots : Len(inbox[b]) <= MaxMessages
  /\ dropped \in [Bots -> 0..MaxMessages]
  /\ now \in 0..MaxClock /\ bot \in Bots \cup {NoBot} /\ offset \in 0..MaxMessages + 1
  /\ switches \in Nat /\ faults \in Nat
There == reader.at # "idle" =>
           \A i \in 1..Len(reader.list) : /\ reader.list[i] <= Len(inbox[reader.bot])
                                           /\ reader.list[i] > dropped[reader.bot]
Typed == InHand /\ There /\ Kept

(* Whether an update can be acted on without another failure or another      *)
(* bot: by the run under way, or by the next.                                *)
MayBeRead(b, i) ==
  /\ i > dropped[b]
  /\ IF reader.at # "idle" /\ reader.bot = b THEN i >= reader.next ELSE bot = b /\ i >= offset
(* Each time it was acted on, and the one to come, has a failure or a bot    *)
(* given to account for it.                                                  *)
Counted ==
  /\ DOMAIN handled \subseteq (Bots \ {NoBot}) \X Numbers
  /\ \A b \in Bots \ {NoBot}, i \in Numbers :
       /\ Times(b, i) \in Nat
       /\ Times(b, i) + (IF MayBeRead(b, i) THEN 1 ELSE 0) <= faults + switches

(* A message sent and not yet marked is the sender's.                        *)
Unmarked(u) == sender.at = "mark" /\ sender.user = u
Told ==
  /\ sender \in Senders /\ faults \in Nat /\ sent \subseteq Members /\ told \in [Members -> Nat]
  /\ sender.at \in {"send", "mark", "forget"} => sender.user \in Members
  /\ sender.at = "send" => sender.user \notin sent
  /\ \A u \in Members : /\ told[u] <= faults + (IF u \in sent \/ Unmarked(u) THEN 1 ELSE 0)
                        /\ u \in sent \/ Unmarked(u) => told[u] > 0

USE TelegramAssumption

LEMMA MaxIs ==
  ASSUME NEW S, NEW m \in Int, m \in S, \A x \in S : x \in Int /\ x <= m
  PROVE  Max(S) = m
<1>1. \E x \in S : \A y \in S : x >= y
  OBVIOUS
<1>2. Max(S) \in S /\ \A y \in S : Max(S) >= y
  BY <1>1, Zenon DEF Max
<1>3. Max(S) >= m
  BY <1>2, Zenon
<1>4. Max(S) \in Int /\ Max(S) <= m
  BY <1>2, Zenon
<1> HIDE DEF Max
<1> QED
  BY <1>3, <1>4

LEMMA MaxOfTwo ==
  ASSUME NEW a \in Int, NEW b \in Int PROVE Max({a, b}) = IF a >= b THEN a ELSE b
<1>1. CASE a >= b BY <1>1, MaxIs
<1>2. CASE ~(a >= b) BY <1>2, MaxIs
<1> QED BY <1>1, <1>2

LEMMA Ties ==
  ASSUME NEW f \in Tied
  PROVE  /\ \A S : Without(f, S) \in Tied
         /\ \A u \in Members, c \in Chats : With(f, u, c) \in Tied
<1>1. PICK S \in SUBSET Members : f \in [S -> Chats] BY DEF Tied
<1>2. ASSUME NEW T PROVE Without(f, T) \in Tied
  <2>1. Without(f, T) \in [S \ T -> Chats] BY <1>1 DEF Without
  <2> QED BY <2>1 DEF Tied
<1>3. ASSUME NEW u \in Members, NEW c \in Chats PROVE With(f, u, c) \in Tied
  <2>1. With(f, u, c) \in [S \cup {u} -> Chats] BY <1>1 DEF With
  <2>2. S \cup {u} \in SUBSET Members OBVIOUS
  <2> QED BY <2>1, <2>2 DEF Tied
<1> QED BY <1>2, <1>3

LEMMA NoneTied == <<>> \in Tied
<1>1. <<>> \in [{} -> Chats] OBVIOUS
<1> QED BY <1>1 DEF Tied

-----------------------------------------------------------------------------
(* What is marked was told. *)

LEMMA InitTold == Init => Told
<1> SUFFICES ASSUME Init PROVE Told OBVIOUS
<1>1. sender \in Senders BY NoneTied DEF Init, Sending, Senders
<1> QED BY <1>1 DEF Init, Sending, Told, Unmarked

LEMMA StepTold == ASSUME Typed, Told, [Next]_vars PROVE Told'
<1> USE DEF Unmarked
<1>1. CASE UNCHANGED <<outbox, faults>>
  BY <1>1 DEF Told, outbox
<1>2. CASE ReaderStops
  BY <1>2 DEF ReaderStops, Told, outbox
<1>3. CASE ReadChats
  <2>1. sender' \in Senders
    <3>1. DOMAIN chats \in SUBSET Members BY DEF Typed, Kept, Tied
    <3> QED BY <1>3, <3>1 DEF ReadChats, Sending, Senders, Typed, Kept
  <2> QED BY <1>3, <2>1 DEF ReadChats, Sending, Told, others
<1>4. ASSUME NEW u \in Members, Pick(u) PROVE Told'
  BY <1>4 DEF Pick, Told, Senders, others
<1>5. CASE SendMessage
  BY <1>5 DEF SendMessage, Told, Senders, others
<1>6. CASE MarkSent
  BY <1>6 DEF MarkSent, Marked, Told, Senders, others
<1>7. CASE Forget
  BY <1>7 DEF Forget, Told, Senders, others
<1>8. CASE Delivered
  <2>1. sender' \in Senders BY <1>8, NoneTied DEF Delivered, Sending, Senders
  <2> QED BY <1>8, <2>1 DEF Delivered, Sending, Told, others
<1>9. CASE NotDelivered
  BY <1>9 DEF NotDelivered, MarkedWhenLost, Told, Senders
<1>10. CASE SenderStops
  <2>1. sender' \in Senders BY <1>10, NoneTied DEF SenderStops, Sending, Senders
  <2> QED BY <1>10, <2>1 DEF SenderStops, Sending, Told
<1>11. CASE Reads
  BY <1>1, <1>11 DEF Reads, ReadBots, GetUpdates, Greet, SpendCode, Tie, SetOffset, others
<1>12. CASE \/ Tick \/ (\E b \in Bots : SetBot(b)) \/ DeleteChats \/ DeleteBot
            \/ \E u \in Members : NewLinkCode(u) \/ Unlink(u)
            \/ \E b \in Bots, chat \in Chats, text \in 0..MaxCodes : Write(b, chat, text)
            \/ \E chat \in Chats : Leave(chat)
  BY <1>1, <1>12 DEF Tick, SetBot, DeleteChats, DeleteBot, NewLinkCode, Unlink, Write, Leave, others
<1>13. CASE UNCHANGED vars
  BY <1>1, <1>13 DEF vars, outbox
<1> QED
  BY <1>2, <1>3, <1>4, <1>5, <1>6, <1>7, <1>8, <1>9, <1>10, <1>11, <1>12, <1>13 DEF Next, Delivers

-----------------------------------------------------------------------------
(* What was read is in order. *)

LEMMA InitTyped == Init => Typed
<1> SUFFICES ASSUME Init PROVE Typed OBVIOUS
<1>1. reader \in Readers /\ reader = Reading /\ Len(reader.list) = 0
  BY DEF Init, Reading, Readers
<1>2. InHand /\ There BY <1>1 DEF InHand, There, Reading
<1>3. codes \in [{} -> [user : Members, till : Nat]] /\ {} \in SUBSET (1..given)
  BY DEF Init
<1>4. codes \in UNION {[S -> [user : Members, till : Nat]] : S \in SUBSET (1..given)} BY <1>3
<1>5. inbox \in [Bots -> Seq([chat : Chats, text : Nat])] /\ \A b \in Bots : Len(inbox[b]) <= MaxMessages
  <2>1. <<>> \in Seq([chat : Chats, text : Nat]) /\ Len(<<>>) <= MaxMessages OBVIOUS
  <2> QED BY <2>1 DEF Init
<1>6. /\ given \in Nat /\ chats \in Tied /\ sent \subseteq Members /\ dropped \in [Bots -> 0..MaxMessages]
      /\ now \in 0..MaxClock /\ bot \in Bots \cup {NoBot} /\ offset \in 0..MaxMessages + 1
      /\ switches \in Nat /\ faults \in Nat
  BY NoneTied DEF Init
<1>7. Kept BY <1>4, <1>5, <1>6 DEF Kept
<1> QED BY <1>2, <1>7 DEF Typed

LEMMA OwnersTyped ==
  ASSUME Typed,
         Tick \/ (\E b \in Bots : SetBot(b)) \/ DeleteChats \/ DeleteBot
  PROVE  Typed'
<1>1. UNCHANGED <<codes, given, sent, inbox, dropped, reader, faults, handled>>
  BY DEF Tick, SetBot, DeleteChats, DeleteBot, owners, members, outbox, others
<1>2. /\ chats' \in Tied /\ bot' \in Bots \cup {NoBot} /\ switches' \in Nat /\ now' \in 0..MaxClock
      /\ offset' \in 0..MaxMessages + 1 /\ offset' <= offset
  <2> USE DEF Typed, Kept, owners, members
  <2>1. CASE Tick BY <2>1, SMTT(90) DEF Tick
  <2>2. ASSUME NEW b \in Bots, SetBot(b) PROVE /\ chats' \in Tied /\ bot' \in Bots \cup {NoBot} /\ switches' \in Nat
                                                /\ now' \in 0..MaxClock /\ offset' \in 0..MaxMessages + 1 /\ offset' <= offset
    BY <2>2, NoneTied DEF SetBot, others
  <2>3. CASE DeleteChats BY <2>3, NoneTied DEF DeleteChats, others
  <2>4. CASE DeleteBot BY <2>4 DEF DeleteBot, others
  <2> QED BY <2>1, <2>2, <2>3, <2>4
<1>3. There' BY <1>1 DEF Typed, There
<1>4. InHand'
  <2>1. reader.next \in Int /\ offset \in Int /\ offset' \in Int BY <1>2 DEF Typed, InHand, Readers, Kept
  <2>2. reader.at # "idle" => reader.bot \in Bots \ {NoBot} /\ offset' <= reader.next BY <1>2, <2>1 DEF Typed, InHand
  <2>3. reader' = reader BY <1>1
  <2> QED BY <2>2, <2>3 DEF Typed, InHand
<1>5. Kept' BY <1>1, <1>2 DEF Typed, Kept
<1> QED BY <1>3, <1>4, <1>5 DEF Typed

LEMMA CodesTyped ==
  ASSUME NEW T \in SUBSET (1..given), given \in Nat, NEW n \in Nat, given <= n,
         NEW f \in [T -> [user : Members, till : Nat]]
  PROVE  /\ \A S : Without(f, S) \in UNION {[R -> [user : Members, till : Nat]] : R \in SUBSET (1..n)}
         /\ \A c \in 1..n, x \in [user : Members, till : Nat] :
              With(f, c, x) \in UNION {[R -> [user : Members, till : Nat]] : R \in SUBSET (1..n)}
<1> DEFINE One == [user : Members, till : Nat]
<1> HIDE DEF One
<1>1. ASSUME NEW S PROVE Without(f, S) \in UNION {[R -> One] : R \in SUBSET (1..n)}
  <2>1. Without(f, S) \in [T \ S -> One] BY DEF Without, One
  <2>2. T \ S \in SUBSET (1..n)
    <3>1. 1..given \subseteq 1..n OBVIOUS
    <3> QED BY <3>1
  <2> QED BY <2>1, <2>2
<1>2. ASSUME NEW c \in 1..n, NEW x \in One PROVE With(f, c, x) \in UNION {[R -> One] : R \in SUBSET (1..n)}
  <2>1. With(f, c, x) \in [T \cup {c} -> One] BY DEF With, One
  <2>2. T \cup {c} \in SUBSET (1..n) OBVIOUS
  <2> QED BY <2>1, <2>2
<1> QED BY <1>1, <1>2 DEF One

LEMMA MembersTyped ==
  ASSUME Typed, \/ \E u \in Members : NewLinkCode(u) \/ Unlink(u)
                \/ \E b \in Bots, chat \in Chats, text \in 0..MaxCodes : Write(b, chat, text)
                \/ \E chat \in Chats : Leave(chat)
  PROVE  Typed'
<1> DEFINE One == [user : Members, till : Nat]
<1>1. PICK T \in SUBSET (1..given) : codes \in [T -> One] BY DEF Typed, Kept
<1>2. UNCHANGED <<now, bot, offset, sent, dropped, reader, switches, faults, handled>>
  BY DEF NewLinkCode, Unlink, Write, Leave, owners, members, outbox, others
<1>3. InHand' /\ (UNCHANGED inbox => There') BY <1>2 DEF Typed, InHand, There
<1>4. ASSUME NEW u \in Members, NewLinkCode(u) PROVE Typed'
  <2> DEFINE over == {c \in DOMAIN codes : codes[c].user = u \/ codes[c].till < now}
             kept == Without(codes, over)
  <2>1. kept \in [T \ over -> One] BY <1>1 DEF Without
  <2>2. /\ given' = given + 1 /\ UNCHANGED <<chats, inbox>>
        /\ codes' = With(kept, given', [user |-> u, till |-> now + TTL])
    BY <1>4 DEF NewLinkCode
  <2>3. [user |-> u, till |-> now + TTL] \in One /\ given \in Nat /\ given' \in 1..given'
    BY <2>2, SMTT(90) DEF Typed, Kept
  <2> HIDE DEF kept, over, One
  <2>4. T \ over \in SUBSET (1..given) OBVIOUS
  <2>5. codes' \in UNION {[R -> One] : R \in SUBSET (1..given')}
    BY <2>1, <2>2, <2>3, <2>4, CodesTyped, SMTT(90) DEF One
  <2>6. given' \in Nat BY <2>2, <2>3
  <2>7. Kept' BY <1>2, <2>2, <2>5, <2>6 DEF Typed, Kept, One
  <2> QED BY <1>3, <2>2, <2>7 DEF Typed
<1>5. ASSUME NEW u \in Members, Unlink(u) PROVE Typed'
  <2>1. chats' \in Tied BY <1>5, Ties DEF Unlink, Typed, Kept
  <2> QED BY <1>2, <1>3, <1>5, <2>1 DEF Unlink, Typed, Kept
<1>6. ASSUME NEW b \in Bots, NEW chat \in Chats, NEW text \in 0..MaxCodes, Write(b, chat, text) PROVE Typed'
  <2>1. /\ inbox' \in [Bots -> Seq([chat : Chats, text : Nat])] /\ \A c \in Bots : Len(inbox'[c]) <= MaxMessages
        /\ There'
    <3>1. [chat |-> chat, text |-> text] \in [chat : Chats, text : Nat] OBVIOUS
    <3> DEFINE M == [chat : Chats, text : Nat]
               m == [chat |-> chat, text |-> text]
    <3> HIDE DEF M, m
    <3>2. /\ inbox' = [inbox EXCEPT ![b] = Append(@, m)] /\ Len(inbox[b]) < MaxMessages
          /\ inbox \in [Bots -> Seq(M)] /\ m \in M /\ \A c \in Bots : Len(inbox[c]) <= MaxMessages
      BY <1>6, <3>1 DEF Write, Typed, Kept, M, m
    <3>3. Append(inbox[b], m) \in Seq(M) /\ Len(Append(inbox[b], m)) = Len(inbox[b]) + 1 /\ Len(inbox[b]) \in Nat
      BY <3>2
    <3>4. inbox' \in [Bots -> Seq(M)] /\ \A c \in Bots : Len(inbox'[c]) <= MaxMessages BY <3>2, <3>3
    <3>5. \A c \in Bots : Len(inbox'[c]) >= Len(inbox[c]) /\ Len(inbox[c]) \in Int /\ Len(inbox'[c]) \in Int
      BY <3>2, <3>3
    <3>6. There'
      <4> SUFFICES ASSUME reader.at # "idle", NEW i \in 1..Len(reader.list)
                   PROVE  reader.list[i] <= Len(inbox'[reader.bot]) /\ reader.list[i] > dropped[reader.bot]
        BY <1>2 DEF There
      <4>1. /\ reader.list[i] <= Len(inbox[reader.bot]) /\ reader.list[i] > dropped[reader.bot]
            /\ reader.bot \in Bots /\ reader.list \in Seq(Numbers)
        BY DEF Typed, There, InHand, Readers
      <4>2. reader.list[i] \in Int BY <4>1, SMTT(90) DEF Numbers
      <4> QED BY <3>5, <4>1, <4>2, SMTT(90)
    <3> QED BY <3>4, <3>6 DEF M
  <2> QED BY <1>2, <1>3, <1>6, <2>1 DEF Write, members, Typed, Kept
<1>7. ASSUME NEW chat \in Chats, Leave(chat) PROVE Typed'
  BY <1>2, <1>3, <1>7 DEF Leave, members, Typed, Kept
<1> QED BY <1>4, <1>5, <1>6, <1>7

LEMMA SenderTyped ==
  ASSUME Typed, Told, Delivers \/ NotDelivered \/ SenderStops PROVE Typed'
<1>1. UNCHANGED <<now, bot, offset, switches, codes, given, inbox, dropped, reader, handled>>
  BY DEF Delivers, NotDelivered, SenderStops, ReadChats, Pick, SendMessage, MarkSent, Forget, Delivered,
         owners, members, outbox, others
<1>2. InHand' /\ There' BY <1>1 DEF Typed, InHand, There
<1>3. chats' \in Tied
  BY Ties, ZenonT(90) DEF Delivers, NotDelivered, SenderStops, ReadChats, Pick, SendMessage, MarkSent, Forget, Delivered,
              members, Typed, Kept
<1>4. sent' \subseteq Members /\ faults' \in Nat
  <2>1. CASE MarkSent
    BY <2>1 DEF MarkSent, Marked, others, Typed, Kept, Told
  <2>2. CASE UNCHANGED sent /\ faults' \in {faults, faults + 1}
    BY <2>2 DEF Typed, Kept
  <2> QED BY <2>1, <2>2 DEF Delivers, NotDelivered, SenderStops, ReadChats, Pick, SendMessage, Forget, Delivered,
                            others, MarkedWhenLost
<1>5. Kept' BY <1>1, <1>3, <1>4 DEF Typed, Kept
<1> QED BY <1>2, <1>5 DEF Typed

(* What the reader has in hand once it has passed an update. *)
LEMMA PassedBy ==
  ASSUME InHand, MaxMessages \in Nat, reader.at \in {"take", "tie"}
  PROVE  /\ Head(reader.list) \in Numbers /\ Head(reader.list) >= reader.next
         /\ Passed.bot = reader.bot /\ Passed.next = Head(reader.list) + 1
         /\ Passed.at \in {"take", "offset"}
         /\ Passed \in Readers
         /\ Passed.at = "take" => Passed.list # <<>>
         /\ \A i \in 1..Len(Passed.list) : Passed.list[i] >= Passed.next
         /\ \A i, j \in 1..Len(Passed.list) : i < j => Passed.list[i] < Passed.list[j]
<1> DEFINE list == reader.list
           h == Head(list)
<1>1. reader \in Readers /\ list \in Seq(Numbers) /\ list # <<>> BY DEF InHand, Readers
<1>2. /\ h = list[1] /\ h \in Numbers /\ Len(list) \in Nat \ {0}
      /\ Tail(list) \in Seq(Numbers) /\ Len(Tail(list)) = Len(list) - 1
      /\ \A i \in 1..Len(Tail(list)) : Tail(list)[i] = list[i + 1]
  BY <1>1
<1>3. h >= reader.next BY <1>2 DEF InHand
<1>4. NextAfter(h) = h + 1 /\ Max({reader.next, h + 1}) = h + 1
  <2>1. reader.next \in Int BY <1>1 DEF Readers
  <2>2. h \in Int BY <1>2 DEF Numbers
  <2> HIDE DEF h
  <2>3. h + 1 \in Int /\ ~(reader.next >= h + 1) BY <2>1, <2>2, <1>3
  <2>4. Max({reader.next, h + 1}) = h + 1 BY <2>1, <2>3, MaxOfTwo
  <2> QED BY <2>4 DEF NextAfter
<1>5. /\ Passed.bot = reader.bot /\ Passed.list = Tail(list) /\ Passed.next = h + 1 /\ Passed.user = "nobody"
      /\ Passed.at = IF Len(list) = 1 THEN "offset" ELSE "take"
      /\ Passed \in Readers
  <2>1. h + 1 \in 0..MaxMessages + 1 BY <1>2, SMTT(30) DEF Numbers
  <2> QED BY <1>1, <1>2, <1>4, <2>1, ZenonT(30) DEF Passed, Readers
<1>6. Passed.at = "take" => Passed.list # <<>>
  <2> HIDE DEF list, Passed
  <2>1. Len(list) # 1 => Len(Tail(list)) # 0 BY <1>2
  <2>2. Len(<<>>) = 0 OBVIOUS
  <2> QED BY <1>5, <2>1, <2>2
<1>7. ASSUME NEW i \in 1..Len(Tail(list)) PROVE Tail(list)[i] >= h + 1
  <2>1. i + 1 \in 1..Len(list) /\ 1 \in 1..Len(list) /\ 1 < i + 1 BY <1>2
  <2>2. list[1] < list[i + 1] BY <2>1 DEF InHand
  <2>3. list[i + 1] \in Int /\ list[1] \in Int BY <1>1, <2>1, SMTT(30) DEF Numbers
  <2> QED BY <1>2, <2>2, <2>3
<1>8. ASSUME NEW i \in 1..Len(Tail(list)), NEW j \in 1..Len(Tail(list)), i < j PROVE Tail(list)[i] < Tail(list)[j]
  <2>1. i + 1 \in 1..Len(list) /\ j + 1 \in 1..Len(list) /\ i + 1 < j + 1 BY <1>2, <1>8
  <2> QED BY <1>2, <2>1 DEF InHand
<1> QED BY <1>2, <1>3, <1>5, <1>6, <1>7, <1>8

(* The bots as they are read, and what Telegram answers. *)
LEMMA ReadBotsTyped == ASSUME Typed, ReadBots PROVE Typed'
<1>1. /\ reader'.at = "get" /\ reader'.bot = bot /\ reader'.next = offset /\ reader'.list = <<>> /\ reader'.user = "nobody"
      /\ reader' \in Readers
  <2>1. bot \in Bots \cup {NoBot} /\ offset \in 0..MaxMessages + 1 BY DEF Typed, Kept
  <2>2. reader' = [at |-> "get", bot |-> bot, list |-> <<>>, next |-> offset, user |-> "nobody"]
    BY DEF ReadBots, Reading
  <2>3. <<>> \in Seq(Numbers) OBVIOUS
  <2> QED BY <2>1, <2>2, <2>3 DEF Readers
<1>2. UNCHANGED <<offset, bot>> /\ bot \in Bots \ {NoBot} BY DEF ReadBots, owners, Typed, Kept
<1>3. InHand' /\ There' BY <1>1, <1>2 DEF InHand, There, Typed, Kept
<1>4. Kept' BY DEF ReadBots, owners, members, outbox, others, Typed, Kept
<1> QED BY <1>3, <1>4 DEF Typed

LEMMA NextDropped ==
  ASSUME NEW d \in Nat, NEW x \in Int
  PROVE  /\ Max({d, x, 0}) \in {d, x} /\ Max({d, x, 0}) >= d /\ Max({d, x, 0}) >= x
<1> DEFINE S == {d, x, 0}
<1> SUFFICES Max(S) \in {d, x} /\ Max(S) >= d /\ Max(S) >= x OBVIOUS
<1>1. CASE d >= x
  <2>1. d \in Int /\ d \in S /\ \A y \in S : y \in Int /\ y <= d BY <1>1
  <2> HIDE DEF S
  <2>2. Max(S) = d BY <2>1, MaxIs
  <2> QED BY <1>1, <2>2
<1>2. CASE ~(d >= x)
  <2>1. x \in S /\ \A y \in S : y \in Int /\ y <= x BY <1>2
  <2> HIDE DEF S
  <2>2. Max(S) = x BY <2>1, MaxIs
  <2> QED BY <1>2, <2>2
<1> QED BY <1>1, <1>2

LEMMA GetUpdatesTyped == ASSUME Typed, GetUpdates PROVE Typed'
<1> DEFINE b == reader.bot
           from == Max({reader.next, dropped[b] + 1})
           n == IF Len(inbox[b]) < from THEN 0 ELSE Len(inbox[b]) - from + 1
           list == [i \in 1..n |-> from + i - 1]
<1>1. b \in Bots /\ reader \in Readers /\ reader.next \in 0..MaxMessages + 1
  BY DEF GetUpdates, Typed, InHand, Readers
<1>2. /\ Len(inbox[b]) \in 0..MaxMessages
      /\ dropped[b] \in 0..MaxMessages /\ dropped \in [Bots -> 0..MaxMessages]
  <2> DEFINE M == [chat : Chats, text : Nat]
  <2>1. /\ inbox \in [Bots -> Seq(M)] /\ Len(inbox[b]) <= MaxMessages
        /\ dropped \in [Bots -> 0..MaxMessages]
    BY <1>1 DEF Typed, Kept
  <2> HIDE DEF M
  <2>2. inbox[b] \in Seq(M) BY <1>1, <2>1
  <2>3. Len(inbox[b]) \in Nat BY <2>2
  <2> QED BY <1>1, <2>1, <2>3
<1>3. from \in Nat /\ from >= 1 /\ from >= reader.next /\ from > dropped[b]
  <2>1. from = IF reader.next >= dropped[b] + 1 THEN reader.next ELSE dropped[b] + 1
    <3>1. reader.next \in Int /\ dropped[b] + 1 \in Int BY <1>1, <1>2
    <3> QED BY <3>1, MaxOfTwo
  <2> HIDE DEF from, b
  <2> QED BY <2>1, <1>1, <1>2
<1>4. UNCHANGED <<owners, members, outbox, inbox, others, handled>> /\ reader.at = "get"
      /\ dropped' = [dropped EXCEPT ![b] = Max({@, reader.next - 1, 0})]
      /\ reader' = IF list = <<>> THEN Reading ELSE [reader EXCEPT !.at = "take", !.list = list]
  BY DEF GetUpdates
<1>5. Max({dropped[b], reader.next - 1, 0}) \in 0..MaxMessages
  <2>1. reader.next - 1 \in Int /\ reader.next - 1 <= MaxMessages /\ dropped[b] \in Nat BY <1>1, <1>2
  <2>2. Max({dropped[b], reader.next - 1, 0}) \in {dropped[b], reader.next - 1}
        /\ Max({dropped[b], reader.next - 1, 0}) >= dropped[b]
    BY <2>1, NextDropped
  <2> QED BY <1>2, <2>1, <2>2
<1>6. dropped' \in [Bots -> 0..MaxMessages] BY <1>2, <1>4, <1>5
<1>12. dropped'[b] \in {dropped[b], reader.next - 1}
  <2>1. dropped'[b] = Max({dropped[b], reader.next - 1, 0}) BY <1>1, <1>2, <1>4
  <2> QED BY <1>1, <1>2, <2>1, NextDropped, SMTT(90)
<1>7. Kept' BY <1>4, <1>6 DEF Typed, Kept, owners, members, outbox, others
<1> HIDE DEF from
<1>8. /\ n \in Nat
      /\ \A i \in 1..n : from + i - 1 \in Numbers /\ from + i - 1 >= reader.next
      /\ \A k \in 1..n : from + k - 1 <= Len(inbox[b]) /\ from + k - 1 > dropped'[b]
  <2> HIDE DEF b
  <2>1. CASE Len(inbox[b]) < from
    <3>1. n = 0 BY <2>1
    <3> QED BY <3>1
  <2>2. CASE ~(Len(inbox[b]) < from)
    <3>1. n = Len(inbox[b]) - from + 1 BY <2>2
    <3> HIDE DEF n
    <3>2. n \in Nat BY <1>2, <1>3, <2>2, <3>1
    <3>3. ASSUME NEW i \in 1..n
          PROVE  /\ from + i - 1 \in 1..MaxMessages /\ from + i - 1 >= reader.next /\ from + i - 1 <= Len(inbox[b])
                 /\ from + i - 1 > dropped'[b]
      <4>1. from > dropped'[b] /\ dropped'[b] \in Int
        <5>1. reader.next \in Int /\ dropped[b] \in Int BY <1>1, <1>2
        <5>2. CASE dropped'[b] = dropped[b] BY <1>3, <5>1, <5>2
        <5>3. CASE dropped'[b] = reader.next - 1 BY <1>3, <5>1, <5>3
        <5> QED BY <1>12, <5>2, <5>3
      <4> DEFINE l == Len(inbox[b])
                 x == from + i - 1
      <4>2. l \in Int /\ l <= MaxMessages /\ from \in Int /\ from >= 1 /\ i \in Int /\ 1 <= i /\ i <= l - from + 1
            /\ reader.next \in Int /\ from >= reader.next
        BY <1>1, <1>2, <1>3, <3>1, <3>2
      <4> HIDE DEF l
      <4>3. x \in Int /\ x >= from /\ x <= l BY <4>2
      <4> HIDE DEF x
      <4>4. x \in 1..MaxMessages /\ x >= reader.next /\ x <= l /\ x > dropped'[b] BY <4>1, <4>2, <4>3
      <4> QED BY <4>4 DEF l, x
    <3> QED BY <3>2, <3>3 DEF Numbers
  <2> QED BY <2>1, <2>2
<1> HIDE DEF n
<1>9. list \in Seq(Numbers) /\ Len(list) = n /\ \A i \in 1..n : list[i] = from + i - 1
  <2>1. list \in [1..n -> Numbers] BY <1>8
  <2>2. list \in Seq(Numbers) BY <1>8, <2>1
  <2>3. DOMAIN list = 1..n OBVIOUS
  <2> HIDE DEF list
  <2>4. Len(list) = n BY <1>8, <2>2, <2>3
  <2> QED BY <2>2, <2>4 DEF list
<1>10. CASE list = <<>>
  <2>1. reader' = Reading BY <1>4, <1>10
  <2>2. Reading \in Readers /\ Reading.at = "idle" /\ Len(Reading.list) = 0 BY DEF Reading, Readers
  <2>3. InHand' /\ There' BY <2>1, <2>2 DEF InHand, There
  <2> QED BY <1>7, <2>3 DEF Typed
<1>11. CASE list # <<>>
  <2> HIDE DEF list
  <2>1. /\ reader'.at = "take" /\ reader'.list = list /\ reader'.next = reader.next /\ reader'.bot = b
        /\ reader' \in Readers
    BY <1>1, <1>4, <1>9, <1>11 DEF Readers
  <2>2. offset' = offset /\ offset <= reader.next /\ b \in Bots \ {NoBot} BY <1>4 DEF owners, Typed, InHand
  <2>3. \A i \in 1..Len(list) : list[i] >= reader.next BY <1>8, <1>9
  <2>4. \A i, j \in 1..Len(list) : i < j => list[i] < list[j] BY <1>3, <1>8, <1>9
  <2>5. InHand' BY <1>11, <2>1, <2>2, <2>3, <2>4 DEF InHand
  <2>6. There' BY <1>4, <1>8, <1>9, <2>1 DEF There
  <2> QED BY <1>7, <2>5, <2>6 DEF Typed
<1> QED BY <1>10, <1>11

(* An update passed, its code spent, its chat tied. *)
LEMMA PassedTyped ==
  ASSUME Typed, reader.at \in {"take", "tie"}, reader' = Passed, UNCHANGED <<offset, inbox, dropped>>
  PROVE  InHand' /\ There'
<1>1. /\ offset <= reader.next /\ reader.bot \in Bots \ {NoBot} /\ reader.next \in Int /\ offset \in Int
      /\ InHand /\ MaxMessages \in Nat
  <2>1. InHand /\ Kept BY DEF Typed
  <2>2. /\ reader.bot \in Bots \ {NoBot} /\ offset <= reader.next /\ reader \in Readers
    BY <2>1 DEF InHand
  <2>3. MaxMessages \in Nat OBVIOUS
  <2>4. offset \in Int BY <2>1, <2>3 DEF Kept
  <2>5. reader.next \in Int BY <2>2, <2>3 DEF Readers
  <2> QED BY <2>1, <2>2, <2>3, <2>4, <2>5
<1>2. Head(reader.list) \in Int BY <1>1, PassedBy DEF Numbers
<1>3. Passed.next = Head(reader.list) + 1 /\ Head(reader.list) >= reader.next /\ Passed.bot = reader.bot
  BY <1>1, PassedBy
<1>4. offset <= Passed.next BY <1>1, <1>2, <1>3
<1>5. /\ Passed \in Readers /\ Passed.at \in {"take", "offset"}
      /\ Passed.at = "take" => Passed.list # <<>>
      /\ \A i \in 1..Len(Passed.list) : Passed.list[i] >= Passed.next
      /\ \A i, j \in 1..Len(Passed.list) : i < j => Passed.list[i] < Passed.list[j]
  BY <1>1, PassedBy
<1>6. reader' = Passed /\ offset' = offset OBVIOUS
<1>7. There'
  <2> DEFINE list == reader.list
  <2>1. /\ list \in Seq(Numbers) /\ list # <<>> /\ Passed.list = Tail(list)
        /\ \A i \in 1..Len(list) : list[i] <= Len(inbox[reader.bot]) /\ list[i] > dropped[reader.bot]
    BY DEF Passed, Typed, InHand, Readers, There
  <2>2. \A i \in 1..Len(Tail(list)) : i + 1 \in 1..Len(list) /\ Tail(list)[i] = list[i + 1] BY <2>1
  <2> HIDE DEF list, Passed
  <2> QED BY <1>3, <1>6, <2>1, <2>2 DEF There
<1> HIDE DEF Passed
<1>8. reader' \in Readers /\ reader'.at # "idle" /\ reader'.at # "tie" BY <1>5, <1>6
<1>9. InHand'
  <2>1. reader'.at \in {"take", "tie"} => reader'.list # <<>> BY <1>5, <1>6, <1>8
  <2>2. reader'.bot \in Bots \ {NoBot} /\ offset' <= reader'.next BY <1>1, <1>3, <1>4, <1>6
  <2> QED BY <1>5, <1>6, <1>8, <2>1, <2>2 DEF InHand
<1> QED BY <1>7, <1>9

LEMMA SpendTyped ==
  ASSUME Typed, SpendCode PROVE Typed'
<1> DEFINE One == [user : Members, till : Nat]
<1>1. PICK T \in SUBSET (1..given) : codes \in [T -> One] BY DEF Typed, Kept
<1>2. CASE codes[Update.text].till < now
  <2>1. UNCHANGED <<owners, members, outbox, inbox, dropped, others>> /\ reader' = Passed /\ reader.at = "take"
    BY <1>2 DEF SpendCode, members
  <2>2. InHand' /\ There' BY <2>1, PassedTyped DEF owners
  <2> QED BY <2>1, <2>2 DEF Typed, Kept, owners, members, outbox, others
<1>3. CASE ~(codes[Update.text].till < now)
  <2>1. /\ UNCHANGED <<owners, given, chats, outbox, inbox, dropped, others>> /\ reader.at = "take"
        /\ reader' = [reader EXCEPT !.at = "tie", !.user = codes[Update.text].user]
        /\ codes' = Without(codes, {Update.text}) /\ Update.text \in DOMAIN codes
    BY <1>3 DEF SpendCode
  <2>2. codes[Update.text].user \in Members BY <1>1, <2>1
  <2>3. codes' \in UNION {[R -> One] : R \in SUBSET (1..given)}
    <3>1. given \in Nat /\ given <= given BY DEF Typed, Kept
    <3> HIDE DEF One
    <3> QED BY <1>1, <2>1, <3>1, CodesTyped DEF One
  <2> HIDE DEF One
  <2>4. Kept' BY <2>1, <2>3 DEF Typed, Kept, owners, outbox, others, One
  <2>5. reader' \in Readers /\ reader'.at = "tie" /\ reader'.user \in Members /\ reader'.bot = reader.bot
        /\ reader'.list = reader.list /\ reader'.next = reader.next
    BY <2>1, <2>2 DEF Readers, Typed, InHand
  <2>6. InHand' BY <2>1, <2>5 DEF InHand, Typed, owners
  <2>7. There' BY <2>1, <2>5 DEF There, Typed
  <2> QED BY <2>4, <2>6, <2>7 DEF Typed
<1> QED BY <1>2, <1>3

LEMMA TieTyped == ASSUME Typed, Tie PROVE Typed'
<1>1. /\ reader.at = "tie" /\ reader' = Passed /\ chats' = With(chats, reader.user, Update.chat)
      /\ UNCHANGED <<owners, codes, given, outbox, inbox, dropped, others>>
  BY DEF Tie
<1>2. InHand' /\ There' BY <1>1, PassedTyped DEF owners
<1>3. reader.user \in Members /\ chats \in Tied /\ reader.bot \in Bots /\ reader.list \in Seq(Numbers)
      /\ reader.list # <<>>
  BY <1>1 DEF Typed, InHand, Kept, Readers
<1>4. Update.chat \in Chats
  <2> DEFINE M == [chat : Chats, text : Nat]
             h == Head(reader.list)
  <2>1. inbox \in [Bots -> Seq(M)] BY DEF Typed, Kept
  <2>2. h = reader.list[1] /\ 1 \in 1..Len(reader.list) /\ h \in Numbers BY <1>3
  <2>3. h <= Len(inbox[reader.bot]) BY <1>1, <2>2 DEF Typed, There
  <2>4. Update = inbox[reader.bot][h] BY DEF Update
  <2> HIDE DEF M, h
  <2>5. inbox[reader.bot] \in Seq(M) BY <1>3, <2>1
  <2>6. h \in 1..Len(inbox[reader.bot]) BY <2>2, <2>3, <2>5 DEF Numbers
  <2>7. Update \in M BY <2>4, <2>5, <2>6
  <2> QED BY <2>7 DEF M
<1>5. chats' \in Tied BY <1>1, <1>3, <1>4, Ties
<1>6. Kept' BY <1>1, <1>5 DEF Typed, Kept, owners, outbox, others
<1> QED BY <1>2, <1>6 DEF Typed

LEMMA ReaderTyped ==
  ASSUME Typed, Reads \/ ReaderStops PROVE Typed'
<1>1. CASE Greet
  <2>1. InHand' /\ There' BY <1>1, PassedTyped DEF Greet, owners
  <2> QED BY <1>1, <2>1 DEF Greet, Typed, Kept, owners, members, outbox, others
<1>2. CASE SetOffset
  <2>1. reader' = Reading /\ Reading \in Readers /\ Reading.at = "idle" /\ Len(Reading.list) = 0
    BY <1>2 DEF SetOffset, Reading, Readers
  <2>2. InHand' /\ There' BY <2>1 DEF InHand, There
  <2>3. offset' \in 0..MaxMessages + 1 BY <1>2 DEF SetOffset, Typed, InHand, Kept, Readers
  <2> QED BY <1>2, <2>2, <2>3 DEF SetOffset, Typed, Kept, members, outbox, others
<1>3. CASE ReaderStops
  <2>1. reader' = Reading /\ Reading \in Readers /\ Reading.at = "idle" /\ Len(Reading.list) = 0
    BY <1>3 DEF ReaderStops, Reading, Readers
  <2>2. InHand' /\ There' BY <2>1 DEF InHand, There
  <2>3. faults' \in Nat /\ UNCHANGED <<offset, bot, switches, members, outbox, inbox, dropped, now>>
    BY <1>3 DEF ReaderStops, OffsetKept, Typed, Kept
  <2>4. Kept' BY <2>3 DEF Typed, Kept, members, outbox
  <2> QED BY <2>2, <2>4 DEF Typed
<1> QED BY <1>1, <1>2, <1>3, ReadBotsTyped, GetUpdatesTyped, SpendTyped, TieTyped DEF Reads

LEMMA StepTyped == ASSUME Typed, Told, [Next]_vars PROVE Typed'
<1>1. CASE UNCHANGED vars
  BY <1>1 DEF vars, Typed, InHand, There, Kept
<1> QED BY <1>1, OwnersTyped, MembersTyped, SenderTyped, ReaderTyped DEF Next

-----------------------------------------------------------------------------
(* What was read is acted on once, and once more for a failure or a bot      *)
(* given anew.                                                               *)

LEMMA InitCounted == Init => Counted
<1> SUFFICES ASSUME Init PROVE Counted OBVIOUS
<1>1. DOMAIN handled = {} /\ faults = 0 /\ switches = 0 /\ bot = NoBot /\ reader.at = "idle"
  BY DEF Init, Reading
<1> QED BY <1>1 DEF Counted, MayBeRead, Times

(* A step that acts on nothing, and opens nothing or is a cause of its own.  *)
LEMMA CountedStays ==
  ASSUME Counted, UNCHANGED handled, faults \in Nat, switches \in Nat, faults' \in Nat, switches' \in Nat,
         faults' + switches' >= faults + switches,
         \A b \in Bots \ {NoBot}, i \in Numbers : MayBeRead(b, i)' => MayBeRead(b, i)
  PROVE  Counted'
<1>1. ASSUME NEW b \in Bots \ {NoBot}, NEW i \in Numbers
      PROVE  /\ Times(b, i)' \in Nat
             /\ Times(b, i)' + (IF MayBeRead(b, i)' THEN 1 ELSE 0) <= faults' + switches'
  <2>1. Times(b, i)' = Times(b, i) BY DEF Times
  <2>2. Times(b, i) \in Nat /\ Times(b, i) + (IF MayBeRead(b, i) THEN 1 ELSE 0) <= faults + switches
    BY DEF Counted
  <2> QED BY <2>1, <2>2
<1> QED BY <1>1 DEF Counted

LEMMA CountedCaused ==
  ASSUME Counted, UNCHANGED handled, faults \in Nat, switches \in Nat, faults' \in Nat, switches' \in Nat,
         faults' + switches' = faults + switches + 1
  PROVE  Counted'
<1>1. ASSUME NEW b \in Bots \ {NoBot}, NEW i \in Numbers
      PROVE  /\ Times(b, i)' \in Nat
             /\ Times(b, i)' + (IF MayBeRead(b, i)' THEN 1 ELSE 0) <= faults' + switches'
  <2>1. Times(b, i)' = Times(b, i) BY DEF Times
  <2>2. Times(b, i) \in Nat /\ Times(b, i) + (IF MayBeRead(b, i) THEN 1 ELSE 0) <= faults + switches
    BY DEF Counted
  <2> QED BY <2>1, <2>2
<1> QED BY <1>1 DEF Counted

(* An update is acted on: it was to be, and is passed by.                    *)
LEMMA CountedActed ==
  ASSUME Counted, Typed, Acted, reader.at \in {"take", "tie"}, reader' = Passed,
         UNCHANGED <<faults, switches, bot, offset, dropped>>
  PROVE  Counted'
<1> DEFINE c == reader.bot
           h == Head(reader.list)
<1>1. /\ InHand /\ reader.bot \in Bots \ {NoBot} /\ reader.at # "idle" /\ reader.next \in Int
      /\ MaxMessages \in Nat
  BY DEF Typed, InHand, Readers
<1>2. /\ h \in Numbers /\ h >= reader.next /\ Passed.bot = c /\ Passed.next = h + 1 /\ Passed.at # "idle"
      /\ h > dropped[c]
  <2>1. h > dropped[c]
    <3>1. h = reader.list[1] /\ 1 \in 1..Len(reader.list) BY <1>1 DEF InHand, Readers
    <3> QED BY <1>1, <3>1 DEF Typed, There
  <2> HIDE DEF Passed, h
  <2> QED BY <1>1, <2>1, PassedBy DEF h
<1>3. handled' = With(handled, <<c, h>>, Times(c, h) + 1) BY DEF Acted
<1>4. <<c, h>> \in (Bots \ {NoBot}) \X Numbers BY <1>1, <1>2
<1>5. reader'.at # "idle" /\ reader'.bot = c /\ reader'.next = h + 1
  <2> HIDE DEF Passed
  <2> QED BY <1>2
<1> HIDE DEF h
<1>6. ASSUME NEW b \in Bots \ {NoBot}, NEW i \in Numbers
      PROVE  /\ Times(b, i)' \in Nat
             /\ Times(b, i)' + (IF MayBeRead(b, i)' THEN 1 ELSE 0) <= faults' + switches'
  <2>1. /\ Times(b, i) \in Nat /\ Times(b, i) + (IF MayBeRead(b, i) THEN 1 ELSE 0) <= faults + switches
        /\ faults \in Nat /\ switches \in Nat
    BY DEF Counted, Typed, Kept
  <2>2. i \in Int /\ h \in Int BY <1>2 DEF Numbers
  <2>3. CASE b = c /\ i = h
    <3>1. Times(b, i)' = Times(b, i) + 1 BY <1>3, <2>3 DEF Times, With
    <3>2. MayBeRead(b, i) BY <1>1, <1>2, <2>3 DEF MayBeRead
    <3>3. ~MayBeRead(b, i)' BY <1>5, <2>2, <2>3 DEF MayBeRead
    <3> QED BY <2>1, <3>1, <3>2, <3>3
  <2>4. CASE ~(b = c /\ i = h)
    <3>1. <<b, i>> # <<c, h>> BY <2>4
    <3>2. Times(b, i)' = Times(b, i) BY <1>3, <3>1 DEF Times, With
    <3>3. MayBeRead(b, i)' => MayBeRead(b, i) BY <1>1, <1>2, <1>5, <2>2 DEF MayBeRead
    <3> QED BY <2>1, <3>2, <3>3
  <2> QED BY <2>3, <2>4
<1>7. DOMAIN handled' \subseteq (Bots \ {NoBot}) \X Numbers BY <1>3, <1>4 DEF Counted, With
<1> QED BY <1>6, <1>7 DEF Counted

LEMMA StepCounted == ASSUME Typed, Told, Counted, [Next]_vars PROVE Counted'
<1> USE DEF owners, members, outbox, others
<1>1. Typed' BY StepTyped
<1>2. faults \in Nat /\ faults' \in Nat /\ switches \in Nat /\ switches' \in Nat BY <1>1 DEF Typed, Kept
<1>3. ASSUME UNCHANGED <<handled, reader, bot, offset, switches, dropped>>, faults' \in {faults, faults + 1}
      PROVE  Counted'
  <2>1. \A b \in Bots \ {NoBot}, i \in Numbers : MayBeRead(b, i)' => MayBeRead(b, i) BY <1>3 DEF MayBeRead
  <2>2. faults' + switches' >= faults + switches
    <3>1. switches' = switches BY <1>3
    <3>2. CASE faults' = faults BY <1>2, <3>1, <3>2
    <3>3. CASE faults' = faults + 1 BY <1>2, <3>1, <3>3
    <3> QED BY <1>3, <3>2, <3>3
  <2> QED BY <1>2, <1>3, <2>1, <2>2, CountedStays
<1>4. ASSUME NEW b \in Bots, SetBot(b) PROVE Counted'
  BY <1>2, <1>4, CountedCaused DEF SetBot
<1>5. CASE DeleteBot
  <2>1. \A b \in Bots \ {NoBot}, i \in Numbers : MayBeRead(b, i)' => MayBeRead(b, i)
    BY <1>5 DEF DeleteBot, MayBeRead
  <2> QED BY <1>2, <1>5, <2>1, CountedStays DEF DeleteBot
<1>6. CASE ReadBots
  <2>1. \A b \in Bots \ {NoBot}, i \in Numbers : MayBeRead(b, i)' => MayBeRead(b, i)
    BY <1>6 DEF ReadBots, Reading, MayBeRead
  <2> QED BY <1>2, <1>6, <2>1, CountedStays DEF ReadBots
<1>7. CASE GetUpdates
  <2>1. /\ reader.at = "get" /\ offset <= reader.next /\ reader.next \in 0..MaxMessages + 1
        /\ offset \in Int /\ reader.bot \in Bots \ {NoBot} /\ dropped \in [Bots -> 0..MaxMessages]
    BY <1>7 DEF GetUpdates, Typed, InHand, Kept, Readers
  <2>2. /\ UNCHANGED <<bot, offset, switches, faults, handled>>
        /\ dropped' = [dropped EXCEPT ![reader.bot] = Max({@, reader.next - 1, 0})]
        /\ \/ reader' = Reading
           \/ reader'.at = "take" /\ reader'.bot = reader.bot /\ reader'.next = reader.next
    <3>1. reader \in Readers BY DEF Typed, InHand
    <3> QED BY <1>7, <3>1 DEF GetUpdates, Readers
  <2>3. /\ dropped'[reader.bot] \in Int /\ dropped'[reader.bot] >= dropped[reader.bot]
        /\ dropped'[reader.bot] >= reader.next - 1
    <3>1. dropped'[reader.bot] = Max({dropped[reader.bot], reader.next - 1, 0}) BY <2>1, <2>2
    <3>2. dropped[reader.bot] \in Nat /\ reader.next - 1 \in Int BY <2>1
    <3> QED BY <3>1, <3>2, NextDropped
  <2>4. ASSUME NEW b \in Bots \ {NoBot}, NEW i \in Numbers, MayBeRead(b, i)' PROVE MayBeRead(b, i)
    <3>1. i \in Int /\ dropped[b] \in Int BY <2>1 DEF Numbers
    <3>2. CASE b = reader.bot
      <4>1. i > dropped'[b] BY <2>4 DEF MayBeRead
      <4>2. i >= reader.next /\ i > dropped[b] BY <2>1, <2>3, <3>1, <3>2, <4>1
      <4> QED BY <2>1, <3>2, <4>2 DEF MayBeRead
    <3>3. CASE b # reader.bot
      <4>1. dropped'[b] = dropped[b] BY <2>1, <2>2, <3>3
      <4> QED BY <2>1, <2>2, <2>4, <3>3, <4>1 DEF MayBeRead, Reading
    <3> QED BY <3>2, <3>3
  <2> QED BY <1>2, <2>2, <2>4, CountedStays
<1>8. CASE Greet
  BY <1>8, CountedActed DEF Greet
<1>9. CASE SpendCode
  <2>1. CASE UNCHANGED handled /\ reader' = [reader EXCEPT !.at = "tie", !.user = codes[Update.text].user]
    <3>1. reader \in Readers /\ reader.at = "take" BY <1>9 DEF SpendCode, Typed, InHand
    <3>2. reader'.at = "tie" /\ reader'.bot = reader.bot /\ reader'.next = reader.next
      BY <2>1, <3>1 DEF Readers
    <3>3. UNCHANGED <<bot, offset, dropped, switches, faults>> BY <1>9 DEF SpendCode
    <3>4. \A b \in Bots \ {NoBot}, i \in Numbers : MayBeRead(b, i)' => MayBeRead(b, i)
      BY <3>1, <3>2, <3>3 DEF MayBeRead
    <3> QED BY <1>2, <2>1, <3>3, <3>4, CountedStays
  <2>2. CASE Acted /\ reader' = Passed
    BY <1>9, <2>2, CountedActed DEF SpendCode
  <2> QED BY <1>9, <2>1, <2>2 DEF SpendCode
<1>10. CASE Tie
  BY <1>10, CountedActed DEF Tie
<1>11. CASE SetOffset
  <2>1. /\ reader.at = "offset" /\ offset <= reader.next /\ reader.next \in Int /\ offset \in Int
        /\ reader' = Reading /\ offset' = IF bot = NoBot THEN offset ELSE reader.next
        /\ UNCHANGED <<bot, dropped, switches, faults, handled>>
    BY <1>11 DEF SetOffset, Typed, InHand, Kept, Readers
  <2>2. \A b \in Bots \ {NoBot}, i \in Numbers : MayBeRead(b, i)' => MayBeRead(b, i)
    BY <2>1 DEF MayBeRead, Reading, Numbers
  <2> QED BY <1>2, <2>1, <2>2, CountedStays
<1>12. CASE ReaderStops
  BY <1>2, <1>12, CountedCaused DEF ReaderStops
<1>13. CASE Delivers \/ NotDelivered \/ SenderStops
  BY <1>3, <1>13 DEF Delivers, NotDelivered, SenderStops, ReadChats, Pick, SendMessage, MarkSent, Forget, Delivered
<1>14. CASE \/ Tick \/ DeleteChats
            \/ \E u \in Members : NewLinkCode(u) \/ Unlink(u)
            \/ \E b \in Bots, chat \in Chats, text \in 0..MaxCodes : Write(b, chat, text)
            \/ \E chat \in Chats : Leave(chat)
  BY <1>3, <1>14 DEF Tick, DeleteChats, NewLinkCode, Unlink, Write, Leave
<1>15. CASE UNCHANGED vars
  BY <1>3, <1>15 DEF vars
<1> QED BY <1>4, <1>5, <1>6, <1>7, <1>8, <1>9, <1>10, <1>11, <1>12, <1>13, <1>14, <1>15 DEF Next, Reads

(* What is marked was told, and told once; what was sent to the bot is not   *)
(* acted on again without a cause (DeliverTelegram, ReadUpdates, SetOffset). *)
THEOREM ToldOnceAndMarked == Spec => []ToldAsMarked
<1>1. Init => Typed /\ Told /\ Counted BY InitTyped, InitTold, InitCounted
<1>2. Typed /\ Told /\ Counted /\ [Next]_vars => (Typed /\ Told /\ Counted)'
  BY StepTyped, StepTold, StepCounted
<1>3. Typed /\ Told /\ Counted => ToldAsMarked
  <2> SUFFICES ASSUME Typed, Told, Counted PROVE ToldAsMarked OBVIOUS
  <2>1. TypeOK
    <3>1. reader.user \in Members \cup {"nobody"} /\ sender.todo \subseteq Members
      BY DEF Typed, InHand, Readers, Told, Senders
    <3>2. \A c \in DOMAIN codes : c \in 1..given /\ codes[c].user \in Members
      BY ZenonT(30) DEF Typed, Kept
    <3>3. DOMAIN chats \subseteq Members BY DEF Typed, Kept, Tied
    <3> QED BY <3>1, <3>2, <3>3 DEF TypeOK, Typed, Kept
  <2>2. ToldOnce /\ MarkedWasTold
    <3>1. \A u \in Members : told[u] \in Nat /\ faults \in Nat BY DEF Told
    <3> QED BY <3>1 DEF ToldOnce, MarkedWasTold, Told
  <2>3. ReadOnce
    <3> SUFFICES ASSUME NEW x \in DOMAIN handled PROVE handled[x] <= faults + Max({1, switches})
      BY DEF ReadOnce
    <3>1. PICK b \in Bots \ {NoBot}, i \in Numbers : x = <<b, i>> BY DEF Counted
    <3>2. Times(b, i) = handled[x] BY <3>1 DEF Times
    <3>3. /\ Times(b, i) \in Nat /\ faults \in Nat /\ switches \in Nat
          /\ Times(b, i) + (IF MayBeRead(b, i) THEN 1 ELSE 0) <= faults + switches
      BY DEF Counted, Typed, Kept
    <3>4. Max({1, switches}) = IF 1 >= switches THEN 1 ELSE switches BY <3>3, MaxOfTwo
    <3> HIDE DEF MayBeRead
    <3> QED BY <3>2, <3>3, <3>4
  <2> QED BY <2>1, <2>2, <2>3 DEF ToldAsMarked
<1> QED BY <1>1, <1>2, <1>3, PTL DEF Spec
=============================================================================
