------------------------------ MODULE Telegram ------------------------------
(* A space's Telegram bot (notify/telegram_*.go): the bot the owner gives,   *)
(* the codes that tie a member's chat to it, the job that reads what was     *)
(* sent to the bot every minute, and the hourly job that sends a reminder to *)
(* the chats. A step is one statement, transaction or call of Telegram.      *)
(*                                                                           *)
(* An update is its number among what was sent to its bot, as Telegram       *)
(* numbers them for each bot. Telegram drops the updates below an offset it  *)
(* is asked from. Codes are numbered as they are given.                      *)
EXTENDS Naturals, Sequences, FiniteSets, FiniteSetsExt

CONSTANTS Bots, Members, Chats,
          MaxSwitches,  \* bots the owner gives
          MaxMessages,  \* messages to a bot
          MaxCodes, MaxFaults,
          TTL, MaxClock \* how long a code lasts, and moments

ASSUME TelegramAssumption ==
  {MaxSwitches, MaxMessages, MaxCodes, MaxFaults, TTL, MaxClock} \subseteq Nat

VARIABLES now, bot, offset,  \* the space's bot and the next update to read
          codes, given,      \* live codes: code -> [user, till]; codes given
          chats,             \* member -> chat
          sent,              \* members the reminder is marked as sent to
          inbox, dropped,    \* bot -> what was sent to it, and what of it is gone
          reader, sender,    \* the two jobs
          switches, faults,
          handled,           \* <<bot, update>> -> times it was acted on
          told, left         \* member -> times told; chats whose people left

vars == <<now, bot, offset, codes, given, chats, sent, inbox, dropped, reader, sender,
          switches, faults, handled, told, left>>
owners == <<bot, offset, switches>>
members == <<codes, given, chats>>
outbox == <<sent, sender, told>>
others == <<now, faults, left>>

NoBot == "no bot"
Reading == [at |-> "idle", bot |-> NoBot, list |-> <<>>, next |-> 0, user |-> "nobody"]
Sending == [at |-> "idle", chats |-> <<>>, todo |-> {}, user |-> "nobody"]
Hello == 0

Init == /\ now = 0 /\ bot = NoBot /\ offset = 0
        /\ codes = <<>> /\ given = 0 /\ chats = <<>> /\ sent = {}
        /\ inbox = [b \in Bots |-> <<>>] /\ dropped = [b \in Bots |-> 0]
        /\ reader = Reading /\ sender = Sending /\ switches = 0 /\ faults = 0
        /\ handled = <<>> /\ told = [u \in Members |-> 0] /\ left = {}

Without(f, S) == [x \in DOMAIN f \ S |-> f[x]]
With(f, x, v) == [y \in DOMAIN f \cup {x} |-> IF y = x THEN v ELSE f[y]]

Tick == /\ now < MaxClock /\ now' = now + 1
        /\ UNCHANGED <<owners, members, outbox, inbox, dropped, reader, faults, left, handled>>

-----------------------------------------------------------------------------
(* SetBot: another bot has chats of its own and is read from its start. *)
SetBot(b) ==
  /\ switches < MaxSwitches /\ switches' = switches + 1
  /\ bot' = b /\ offset' = IF bot = b THEN offset ELSE 0
  /\ chats' = IF bot = b THEN chats ELSE <<>>
  /\ UNCHANGED <<codes, given, outbox, inbox, dropped, reader, others, handled>>
(* DeleteBot: the chats go, then the bot. *)
DeleteChats ==
  /\ bot # NoBot /\ chats' = <<>>
  /\ UNCHANGED <<owners, codes, given, outbox, inbox, dropped, reader, others, handled>>
DeleteBot ==
  /\ bot # NoBot /\ bot' = NoBot /\ offset' = 0
  /\ UNCHANGED <<switches, members, outbox, inbox, dropped, reader, others, handled>>

(* NewLinkCode: in place of one given before, and of those that are over. *)
NewLinkCode(u) ==
  /\ bot # NoBot /\ given < MaxCodes /\ given' = given + 1
  /\ codes' = With(Without(codes, {c \in DOMAIN codes : codes[c].user = u \/ codes[c].till < now}),
                   given', [user |-> u, till |-> now + TTL])
  /\ UNCHANGED <<owners, chats, outbox, inbox, dropped, reader, others, handled>>
(* A person writes to a bot: a code they were given, or anything else. *)
Write(b, chat, text) ==
  /\ Len(inbox[b]) < MaxMessages /\ chat \notin left
  /\ text \in {Hello} \cup 1..given
  /\ inbox' = [inbox EXCEPT ![b] = Append(@, [chat |-> chat, text |-> text])]
  /\ UNCHANGED <<owners, members, outbox, dropped, reader, others, handled>>
Unlink(u) ==
  /\ u \in DOMAIN chats /\ chats' = Without(chats, {u})
  /\ UNCHANGED <<owners, codes, given, outbox, inbox, dropped, reader, others, handled>>
(* The person blocks the bot. *)
Leave(chat) ==
  /\ chat \notin left /\ left' = left \cup {chat}
  /\ UNCHANGED <<owners, members, outbox, inbox, dropped, reader, now, faults, handled>>

-----------------------------------------------------------------------------
(* telegramUpdatesWorker.Work and ReadUpdates: the bots are read with their  *)
(* offsets, then Telegram is asked.                                          *)
ReadBots ==
  /\ reader = Reading /\ bot # NoBot
  /\ reader' = [Reading EXCEPT !.at = "get", !.bot = bot, !.next = offset]
  /\ UNCHANGED <<owners, members, outbox, inbox, dropped, others, handled>>
GetUpdates ==
  LET from == Max({reader.next, dropped[reader.bot] + 1})
      list == [i \in 1..(IF Len(inbox[reader.bot]) < from THEN 0 ELSE Len(inbox[reader.bot]) - from + 1) |-> from + i - 1]
  IN  /\ reader.at = "get"
      /\ dropped' = [dropped EXCEPT ![reader.bot] = Max({@, reader.next - 1, 0})]
      /\ reader' = IF list = <<>> THEN Reading ELSE [reader EXCEPT !.at = "take", !.list = list]
      /\ UNCHANGED <<owners, members, outbox, inbox, others, handled>>

Update == inbox[reader.bot][Head(reader.list)]
Times(b, i) == IF <<b, i>> \in DOMAIN handled THEN handled[<<b, i>>] ELSE 0
Acted == handled' = With(handled, <<reader.bot, Head(reader.list)>>, Times(reader.bot, Head(reader.list)) + 1)
NextAfter(i) == i + 1
(* The next update, or the offset when there is none. *)
Passed == [reader EXCEPT !.list = Tail(@), !.next = Max({@, NextAfter(Head(reader.list))}),
                         !.at = IF Len(reader.list) = 1 THEN "offset" ELSE "take", !.user = "nobody"]
Greet == /\ reader.at = "take" /\ Update.text \notin DOMAIN codes
         /\ Acted /\ reader' = Passed
         /\ UNCHANGED <<owners, members, outbox, inbox, dropped, others>>
(* Link, its first statement: the code is spent, if it still stands. *)
SpendCode ==
  /\ reader.at = "take" /\ Update.text \in DOMAIN codes
  /\ IF codes[Update.text].till < now THEN Acted /\ reader' = Passed /\ UNCHANGED codes
     ELSE /\ reader' = [reader EXCEPT !.at = "tie", !.user = codes[Update.text].user]
          /\ codes' = Without(codes, {Update.text})
          /\ UNCHANGED handled
  /\ UNCHANGED <<owners, given, chats, outbox, inbox, dropped, others>>
(* Its second: the chat is the member's. *)
Tie == /\ reader.at = "tie"
       /\ chats' = With(chats, reader.user, Update.chat)
       /\ Acted /\ reader' = Passed
       /\ UNCHANGED <<owners, codes, given, outbox, inbox, dropped, others>>
(* SetOffset: of the space's bot, whichever it is now. *)
SetOffset == /\ reader.at = "offset"
             /\ offset' = IF bot = NoBot THEN offset ELSE reader.next
             /\ reader' = Reading
             /\ UNCHANGED <<bot, switches, members, outbox, inbox, dropped, others, handled>>
(* Wrong: what was read is acknowledged though it was not all acted on. *)
OffsetMovedOn == IF bot = NoBot \/ reader.list = <<>> THEN offset ELSE reader.list[Len(reader.list)] + 1
OffsetKept == offset
(* A statement fails, Telegram does not answer, the time is over or the      *)
(* process stops: the next minute's run reads from the offset noted.         *)
ReaderStops == /\ reader # Reading /\ faults < MaxFaults /\ faults' = faults + 1
               /\ reader' = Reading /\ offset' = OffsetKept
               /\ UNCHANGED <<bot, switches, members, outbox, inbox, dropped, now, left, handled>>

-----------------------------------------------------------------------------
(* DeliverTelegram, of one reminder: the chats are read once; each member    *)
(* who has not had it is sent it, and it is marked.                          *)
ReadChats ==
  /\ sender.at = "idle" /\ bot # NoBot /\ DOMAIN chats \ sent # {}
  /\ sender' = [Sending EXCEPT !.at = "pick", !.chats = chats, !.todo = DOMAIN chats]
  /\ UNCHANGED <<owners, members, sent, told, inbox, dropped, reader, others, handled>>
Pick(u) ==
  /\ sender.at = "pick" /\ u \in sender.todo
  /\ sender' = IF u \in sent THEN [sender EXCEPT !.todo = @ \ {u}]
               ELSE [sender EXCEPT !.todo = @ \ {u}, !.at = "send", !.user = u]
  /\ UNCHANGED <<owners, members, sent, told, inbox, dropped, reader, others, handled>>
SendMessage ==
  /\ sender.at = "send"
  /\ IF sender.chats[sender.user] \in left THEN sender' = [sender EXCEPT !.at = "forget"] /\ UNCHANGED told
     ELSE /\ told' = [told EXCEPT ![sender.user] = @ + 1]
          /\ sender' = [sender EXCEPT !.at = "mark"]
  /\ UNCHANGED <<owners, members, sent, inbox, dropped, reader, others, handled>>
(* Wrong: a message Telegram did not take is marked too. *)
MarkedAnyway(u) == sent \cup {u}
MarkedWhenLost(u) == sent
(* Telegram answers with an error: the next run tries again. *)
NotDelivered ==
  /\ sender.at = "send" /\ faults < MaxFaults /\ faults' = faults + 1
  /\ sent' = MarkedWhenLost(sender.user)
  /\ sender' = [sender EXCEPT !.at = "pick"]
  /\ UNCHANGED <<owners, members, told, inbox, dropped, reader, now, left, handled>>
Marked(u) == sent \cup {u}
MarkSent == /\ sender.at = "mark" /\ sent' = Marked(sender.user)
            /\ sender' = [sender EXCEPT !.at = "pick"]
            /\ UNCHANGED <<owners, members, told, inbox, dropped, reader, others, handled>>
(* The chat is gone: the member's chat is forgotten. *)
Forget == /\ sender.at = "forget" /\ chats' = Without(chats, {sender.user})
          /\ sender' = [sender EXCEPT !.at = "pick"]
          /\ UNCHANGED <<owners, codes, given, sent, told, inbox, dropped, reader, others, handled>>
Delivered == /\ sender.at = "pick" /\ sender.todo = {} /\ sender' = Sending
             /\ UNCHANGED <<owners, members, sent, told, inbox, dropped, reader, others, handled>>
SenderStops == /\ sender # Sending /\ faults < MaxFaults /\ faults' = faults + 1
               /\ sender' = Sending
               /\ UNCHANGED <<owners, members, sent, told, inbox, dropped, reader, now, left, handled>>

Reads == ReadBots \/ GetUpdates \/ Greet \/ SpendCode \/ Tie \/ SetOffset
Delivers == ReadChats \/ (\E u \in Members : Pick(u)) \/ SendMessage \/ MarkSent \/ Forget \/ Delivered
Next == \/ Tick \/ (\E b \in Bots : SetBot(b)) \/ DeleteChats \/ DeleteBot
        \/ \E u \in Members : NewLinkCode(u) \/ Unlink(u)
        \/ \E b \in Bots, chat \in Chats, text \in 0..MaxCodes : Write(b, chat, text)
        \/ \E chat \in Chats : Leave(chat)
        \/ Reads \/ ReaderStops \/ Delivers \/ NotDelivered \/ SenderStops

(* The minute and the hour come round, and a run that is not stopped goes on. *)
Fairness == WF_vars(Reads) /\ WF_vars(Delivers)
Spec == Init /\ [][Next]_vars
FairSpec == Spec /\ Fairness
-----------------------------------------------------------------------------
TypeOK == /\ now \in 0..MaxClock /\ bot \in Bots \cup {NoBot}
          /\ offset \in 0..MaxMessages + 1
          /\ \A c \in DOMAIN codes : c \in 1..given /\ codes[c].user \in Members
          /\ DOMAIN chats \subseteq Members /\ sent \subseteq Members
          /\ \A b \in Bots : dropped[b] \in 0..MaxMessages
          /\ reader.user \in Members \cup {"nobody"} /\ sender.todo \subseteq Members

(* A minute's run that failed is read again, and a bot taken away and given  *)
(* back from where Telegram has it: an update is acted on once more for each *)
(* of these at most.                                                         *)
ReadOnce == \A x \in DOMAIN handled : handled[x] <= faults + Max({1, switches})
(* Whatever fails on the way, what was sent to the bot is acted on, while it *)
(* is the space's bot.                                                       *)
EveryUpdateRead ==
  \A b \in Bots, i \in 1..MaxMessages :
    <>[](bot = b) => [](i <= Len(inbox[b]) => <>(Times(b, i) > 0))

(* A member is told once, and once more for each failure at most; one it is  *)
(* marked for was told; and a member whose chat stays tied is told.          *)
ToldOnce == \A u \in Members : told[u] <= 1 + faults
MarkedWasTold == \A u \in sent : told[u] > 0
EveryoneTold ==
  \A u \in Members : <>[](bot # NoBot /\ u \in DOMAIN chats /\ chats[u] \notin left) => <>(told[u] > 0)

(* What is marked was told, and told once; what was sent to the bot is not   *)
(* acted on again.                                                           *)
ToldAsMarked == TypeOK /\ ToldOnce /\ MarkedWasTold /\ ReadOnce
(* What was sent to the bot is acted on in the end, and nobody whose chat    *)
(* stays is left out.                                                        *)
Answered == EveryUpdateRead /\ EveryoneTold
=============================================================================
