------------------------------- MODULE Notify -------------------------------
(***************************************************************************)
(* Notifications: programs write "title|body" to a FIFO                    *)
(* (services/botnotify), BotDesk polls it and shows what it read as a      *)
(* toast that goes away by itself (apps/botdesk, TOAST NOTIFICATIONS).     *)
(*                                                                         *)
(* Text is reduced to what the protocol looks at: a message is a sequence  *)
(* of bytes, each a letter of its title or body or the separator, tagged   *)
(* with the message it belongs to.  Time is the millisecond clock BotDesk  *)
(* keeps in 32 bits, here modulo Wrap.                                     *)
(***************************************************************************)
EXTENDS Integers, Sequences

CONSTANTS
    Sender, Screenshot, \* calls of bot_notify_send, and BotDesk's own
    TitleLen, BodyLen,  \* length of each sender's texts
    Barred,         \* the senders whose texts hold the separator
    MaxLen,         \* BOT_NOTIFY_MAX_LEN
    ToastLen,       \* sizeof(toast_title) and sizeof(toast_body)
    PipeSize,       \* capacity of the FIFO
    Duration,       \* TOAST_DURATION_MS
    Wrap,           \* 2^32
    MaxGap          \* longest time between two rounds of BotDesk's main loop

ASSUME NotifyAssumption ==
    /\ TitleLen \in [Sender -> Nat] /\ BodyLen \in [Sender -> Nat]
    /\ Barred \subseteq Sender
    /\ MaxLen \in Nat \ {0, 1} /\ ToastLen \in Nat \ {0} /\ PipeSize \in Nat
    /\ Duration \in Nat \ {0} /\ MaxGap \in Nat \ {0}
    /\ Screenshot \notin Sender
    /\ Wrap \in Nat /\ Wrap > Duration + MaxGap

VARIABLES
    sender,     \* progress of each call
    fifo,       \* bytes in the FIFO
    reader,     \* BotDesk holds the read end open
    toast,      \* toast_active, toast_expire_at and the text shown
    clock,      \* CLOCK_MONOTONIC in milliseconds, modulo Wrap
    wrapped,    \* the clock wrapped since the last toast_show
    shownFor    \* time since the last toast_show, while it has not wrapped

notifyVars == <<sender, fifo, reader, toast, clock, wrapped, shownFor>>

(* idle; opened: the write end is open; ok: returned 0; failed: returned   *)
(* -1; killed: by SIGPIPE.                                                 *)
SenderState == {"idle", "opened", "ok", "failed", "killed"}

(* snprintf cuts the message to the buffer, the separator with it if the   *)
(* title alone is too long.                                                *)
Message(s) ==
    LET full == TitleLen[s] + 1 + BodyLen[s]
    IN  [i \in 1 .. (IF full < MaxLen THEN full ELSE MaxLen - 1) |->
            [of |-> s, part |-> IF i <= TitleLen[s] THEN "title"
                                ELSE IF i = TitleLen[s] + 1 THEN "sep" ELSE "body"]]

Shot == [part |-> "title", of |-> Screenshot]

Byte == [part : {"title", "sep", "body"}, of : Sender \cup {Screenshot}]

NoToast == [active |-> FALSE, expire |-> 0, title |-> <<>>, body |-> <<>>]

NotifyInit ==
    /\ sender = [s \in Sender |-> "idle"]
    /\ fifo = <<>> /\ reader = FALSE
    /\ toast = NoToast
    /\ clock \in 0 .. Wrap - 1
    /\ shownFor = 0 /\ wrapped = FALSE

-----------------------------------------------------------------------------
(* A FIFO that nobody holds open loses what is in it.                      *)
Kept(r, snd, bytes) == IF r \/ \E s \in Sender : snd[s] = "opened" THEN bytes ELSE <<>>

(* A text with a separator in it is refused; the open fails at once, with  *)
(* ENXIO, when BotDesk is not listening.                                   *)
Open(s) ==
    /\ sender[s] = "idle"
    /\ sender' = [sender EXCEPT ![s] = IF s \notin Barred /\ reader THEN "opened" ELSE "failed"]
    /\ UNCHANGED <<fifo, reader, toast, clock, wrapped, shownFor>>

(* A write of at most PIPE_BUF bytes goes in as a whole or not at all.     *)
(* BotDesk may have gone since the open.                                   *)
Send(s) ==
    /\ sender[s] = "opened"
    /\ LET room == Len(fifo) + Len(Message(s)) <= PipeSize IN
       /\ sender' = [sender EXCEPT ![s] = IF ~reader THEN "killed"
                                          ELSE IF room THEN "ok" ELSE "failed"]
       /\ fifo' = Kept(reader, sender', IF reader /\ room THEN fifo \o Message(s) ELSE fifo)
    /\ UNCHANGED <<reader, toast, clock, wrapped, shownFor>>

-----------------------------------------------------------------------------
(* strncpy into the toast's own buffers.                                   *)
Copied(text) == IF Len(text) < ToastLen THEN text ELSE SubSeq(text, 1, ToastLen - 1)

(* Mutant of toast_show: a toast on top of another one is added to its time. *)
ToastLonger(now, title, body) ==
    /\ toast' = [active |-> TRUE, title |-> Copied(title), body |-> Copied(body),
                 expire |-> ((IF toast.active THEN toast.expire ELSE now) + Duration) % Wrap]
    /\ shownFor' = 0 /\ wrapped' = FALSE

toast_show(now, title, body) ==
    /\ toast' = [active |-> TRUE, expire |-> (now + Duration) % Wrap,
                 title |-> Copied(title), body |-> Copied(body)]
    /\ shownFor' = 0 /\ wrapped' = FALSE

(* The code treats whatever one read returns as one message, and splits it *)
(* at the first separator.                                                 *)
ShowText(now, bytes) ==
    LET seps == {i \in DOMAIN bytes : bytes[i].part = "sep"} IN
    IF seps = {} THEN toast_show(now, bytes, <<>>)
    ELSE LET i == CHOOSE i \in seps : \A j \in seps : i <= j IN
         toast_show(now, SubSeq(bytes, 1, i - 1), SubSeq(bytes, i + 1, Len(bytes)))

toast_check_expiry(now) ==
    toast' = IF toast.active /\ now >= toast.expire THEN NoToast ELSE toast

(* Mutant of ReadSize: the buffer is one byte shorter. *)
ReadShort == IF Len(fifo) < MaxLen - 1 THEN Len(fifo) ELSE MaxLen - 2

(* What one read takes: at most the buffer, less the terminating zero.     *)
ReadSize == IF Len(fifo) < MaxLen THEN Len(fifo) ELSE MaxLen - 1

(* One round of wm_pump_events, gap units of time after the last one: it   *)
(* opens the FIFO, polls it once, and hides the toast when its time is     *)
(* over (not the one it has just shown).                                   *)
Pump(gap) ==
    LET now == (clock + gap) % Wrap IN
    /\ clock' = now
    /\ reader' = TRUE
    /\ fifo' = SubSeq(fifo, ReadSize + 1, Len(fifo))
    /\ IF fifo # <<>>
       THEN ShowText(now, SubSeq(fifo, 1, ReadSize))
       ELSE /\ toast_check_expiry(now)
            /\ wrapped' = (toast'.active /\ (wrapped \/ clock + gap >= Wrap))
            /\ shownFor' = IF toast'.active /\ ~wrapped' THEN shownFor + gap ELSE 0
    /\ UNCHANGED sender

(* Ctrl+Shift+S: saved or not, a toast says so.                            *)
take_screenshot ==
    /\ reader
    /\ toast_show(clock, <<Shot>>, <<>>)
    /\ UNCHANGED <<sender, fifo, reader, clock>>

(* BotDesk ends; it may be started again (Pump).                           *)
Stop ==
    /\ reader
    /\ reader' = FALSE
    /\ fifo' = Kept(FALSE, sender, fifo)
    /\ toast' = NoToast /\ shownFor' = 0 /\ wrapped' = FALSE
    /\ UNCHANGED <<sender, clock>>

NotifyNext ==
    \/ \E s \in Sender : Open(s) \/ Send(s)
    \/ \E gap \in 1 .. MaxGap : Pump(gap)
    \/ take_screenshot \/ Stop

(* While it runs, BotDesk comes round every 50 ms and waits for nobody.    *)
NotifyFairness == WF_notifyVars(\E gap \in 1 .. MaxGap : Pump(gap))

NotifySpec == NotifyInit /\ [][NotifyNext]_notifyVars /\ NotifyFairness

-----------------------------------------------------------------------------
NotifyTypeOK ==
    /\ sender \in [Sender -> SenderState]
    /\ fifo \in Seq(Byte) /\ Len(fifo) <= PipeSize
    /\ reader \in BOOLEAN
    /\ toast \in [active : BOOLEAN, expire : 0 .. Wrap - 1, title : Seq(Byte), body : Seq(Byte)]
    /\ clock \in 0 .. Wrap - 1
    /\ shownFor \in Nat /\ wrapped \in BOOLEAN

(* How far the title goes in s's message, and what it holds of each text.  *)
TitleEnd(s) == IF TitleLen[s] < Len(Message(s)) THEN TitleLen[s] ELSE Len(Message(s))

TextOf(s, part) ==
    IF part = "title" THEN SubSeq(Message(s), 1, TitleEnd(s))
                      ELSE SubSeq(Message(s), TitleEnd(s) + 2, Len(Message(s)))

LoneMessage(s) ==
    fifo = Message(s) /\ fifo' # fifo /\ reader /\ reader' =>
        /\ fifo' = <<>>
        /\ toast'.title = Copied(TextOf(s, "title"))
        /\ toast'.body  = Copied(TextOf(s, "body"))

(***************************************************************************)
(* A message that is alone in the FIFO is read as a whole and shown as it  *)
(* was sent: its title as title and its body as body, as much of them as   *)
(* the sender's buffer and the toast's hold.  The reader's buffer between  *)
(* them cuts nothing.                                                      *)
(***************************************************************************)
LoneMessageShown == [][\A s \in Sender : sender' = sender => LoneMessage(s)]_notifyVars

(***************************************************************************)
(* A toast is away as soon as BotDesk comes round after its time, if the   *)
(* 32-bit clock does not wrap meanwhile.                                   *)
(***************************************************************************)
ToastTimely == toast.active /\ ~wrapped => shownFor < Duration

(* The clock, the time a toast was shown and its expiry agree, modulo Wrap; *)
(* a toast that is past its first round has not expired.                   *)
Ticking ==
    toast.active /\ ~wrapped =>
        /\ shownFor <= clock
        /\ toast.expire = (clock - shownFor + Duration) % Wrap
        /\ shownFor > 0 => clock < toast.expire

(***************************************************************************)
(* A message whose sender was told that it was sent is read, however many  *)
(* are written at the same time, unless BotDesk ends before.               *)
(***************************************************************************)
AcceptedIsRead ==
    \A s \in Sender : (sender[s] = "ok" /\ \E i \in DOMAIN fifo : fifo[i].of = s)
                          ~> (\A i \in DOMAIN fifo : fifo[i].of # s)

(***************************************************************************)
(* "one read() here always yields exactly one complete, unsplit message"   *)
(* (botdesk.c:600): what a toast shows is one whole message.               *)
(***************************************************************************)
OneReadOneMessage ==
    toast.active => \/ toast.title = <<Shot>>
                    \/ \E s \in Sender : /\ toast.title = Copied(TextOf(s, "title"))
                                         /\ toast.body  = Copied(TextOf(s, "body"))

(* Every toast leaves in time: it is shown until the round of the loop that *)
(* its expiry asks for.                                                    *)
NotifyInv == NotifyTypeOK /\ Ticking /\ ToastTimely
=============================================================================
