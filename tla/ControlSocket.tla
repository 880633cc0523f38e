---------------------------- MODULE ControlSocket ----------------------------
(***************************************************************************)
(* The control socket of a deck: rt_main() (realtime.c) polls, and the     *)
(* controller accepts connections, reads what the connected client has     *)
(* sent and handles it line by line (control.c). Only the newest client    *)
(* is kept.                                                                *)
(*                                                                         *)
(* A byte is known by the connection it came from and its place in that    *)
(* connection's stream, which is all that tells one byte from another      *)
(* here; `newline' says which places hold a newline. What a line does is   *)
(* the matter of Player and ControlMailbox.                                *)
(***************************************************************************)
EXTENDS Integers, Sequences, FiniteSets

CONSTANTS
  Clients,                  \* connections; a client that reconnects is another
  none,                     \* client_fd == -1
  Streams,                  \* newline positions a client's stream may have
  MaxBytes,                 \* bound: bytes a client writes
  BUFSIZE,                  \* MAX_LINE - 1: bytes that buf holds
  BACKLOG,                  \* connections that wait for accept()
  Audio,                    \* a sound device wakes poll()
  REALTIME_POLL_TIMEOUT_MS  \* poll()'s limit, -1 for none

ASSUME SocketAssumption ==
  /\ IsFiniteSet(Clients) /\ none \notin Clients
  /\ MaxBytes \in Nat
  /\ Streams \subseteq SUBSET (1 .. MaxBytes)
  /\ BUFSIZE \in Nat \ {0}
  /\ BACKLOG \in Nat \ {0}
  /\ Audio \in BOOLEAN
  /\ REALTIME_POLL_TIMEOUT_MS \in Int

VARIABLES
  newline,    \* newline[c]: where the stream of c has its newlines
  wrote,      \* wrote[c]: how many bytes c has written
  got,        \* got[c]: how many of them were read
  gone,       \* clients that have closed their end
  reset,      \* clients that closed with a reply unread
  arrived,    \* clients that have called connect()
  backlog,    \* connections that wait for accept()
  client_fd,  \* the connected client
  buf,        \* ctrl->buf; its length is ctrl->fill
  handled,    \* history: the lines given to handle_line()
  pc,         \* where the realtime thread is
  finished    \* rt->finished

socketVars == <<newline, wrote, got, gone, reset, arrived, backlog,
                client_fd, buf, handled, pc, finished>>

peers  == <<newline, wrote, gone, arrived>>
thread == <<client_fd, buf, handled>>

Byte == [from : Clients, at : 1 .. MaxBytes]

ByteAt(c, k) == [from |-> c, at |-> k]

Line == [fd : Clients, line : Seq(Byte)]

IsNewline(b) == b.at \in newline[b.from]

Least(x, y) == IF x < y THEN x ELSE y

SocketInit ==
  /\ newline \in [Clients -> Streams]
  /\ wrote = [c \in Clients |-> 0]
  /\ got = [c \in Clients |-> 0]
  /\ gone = {}
  /\ reset = {}
  /\ arrived = {}
  /\ backlog = << >>
  /\ client_fd = none
  /\ buf = << >>
  /\ handled = << >>
  /\ pc = "poll"
  /\ finished = FALSE

-----------------------------------------------------------------------------
(* The clients.                                                            *)

Connect(c) ==
  /\ pc # "cleared"
  /\ c \notin arrived
  /\ Len(backlog) < BACKLOG
  /\ arrived' = arrived \cup {c}
  /\ backlog' = Append(backlog, c)
  /\ UNCHANGED <<newline, wrote, got, gone, reset, thread, pc, finished>>

Write(c) ==
  /\ c \in arrived \ gone
  /\ wrote[c] < MaxBytes
  /\ wrote' = [wrote EXCEPT ![c] = @ + 1]
  /\ UNCHANGED <<newline, got, gone, reset, arrived, backlog, thread, pc, finished>>

Close(c) ==
  /\ c \in arrived \ gone
  /\ gone' = gone \cup {c}
  /\ \/ reset' = reset
     \/ reset' = reset \cup {c}
  /\ UNCHANGED <<newline, wrote, got, arrived, backlog, thread, pc, finished>>

-----------------------------------------------------------------------------
(* The realtime thread.                                                    *)

(* Mutant: poll() without a limit, as it was upstream.                     *)
PollUnbounded ==
  /\ pc = "poll"
  /\ ~finished
  /\ backlog # << >> \/ Audio
  /\ pc' = "accept"
  /\ UNCHANGED <<peers, got, reset, backlog, thread, finished>>

(* The set that is polled was collected when nobody was connected: it has  *)
(* the listening socket and the sound devices, and never a client.         *)
Poll ==
  /\ pc = "poll"
  /\ ~finished
  /\ \/ backlog # << >>
     \/ Audio
     \/ REALTIME_POLL_TIMEOUT_MS >= 0
  /\ pc' = "accept"
  /\ UNCHANGED <<peers, got, reset, backlog, thread, finished>>

Leave ==
  /\ pc = "poll"
  /\ finished
  /\ pc' = "left"
  /\ UNCHANGED <<peers, got, reset, backlog, thread, finished>>

Disconnected == client_fd' = none /\ buf' = << >>

(* Mutant: the buffer goes over to the new client.                         *)
AcceptKeepsFill ==
  /\ pc = "accept"
  /\ backlog # << >>
  /\ backlog' = Tail(backlog)
  /\ client_fd' = Head(backlog)
  /\ UNCHANGED <<peers, got, reset, buf, handled, pc, finished>>

(* A connection in the place of the one there was.                         *)
Accept ==
  /\ pc = "accept"
  /\ backlog # << >>
  /\ backlog' = Tail(backlog)
  /\ client_fd' = Head(backlog)
  /\ buf' = IF client_fd # none THEN << >> ELSE buf
  /\ UNCHANGED <<peers, got, reset, handled, pc, finished>>

(* accept() has no more connections, or it fails.                          *)
AcceptReturns ==
  /\ pc = "accept"
  /\ pc' = IF client_fd # none THEN "read" ELSE "poll"
  /\ UNCHANGED <<peers, got, reset, backlog, thread, finished>>

Available(c) == wrote[c] - got[c]

(* read() takes some of what is there and fits.                            *)
Read ==
  /\ pc = "read"
  /\ Available(client_fd) > 0
  /\ \E n \in 1 .. Least(Available(client_fd), BUFSIZE - Len(buf)) :
       /\ buf' = buf \o [i \in 1 .. n |-> ByteAt(client_fd, got[client_fd] + i)]
       /\ got' = [got EXCEPT ![client_fd] = @ + n]
  /\ pc' = "lines"
  /\ UNCHANGED <<peers, reset, backlog, client_fd, handled, finished>>

(* There is nothing to read, or there was an error: the client stays.      *)
ReadReturns ==
  /\ pc = "read"
  /\ Available(client_fd) = 0
  /\ client_fd \in gone => client_fd \in reset
  /\ reset' = reset \ {client_fd}
  /\ pc' = "poll"
  /\ UNCHANGED <<peers, got, backlog, thread, finished>>

(* read() gives 0, at the end of the stream or for want of room.           *)
ReadsNothing ==
  /\ pc = "read"
  /\ \/ Len(buf) = BUFSIZE
     \/ Available(client_fd) = 0 /\ client_fd \in gone \ reset
  /\ Disconnected
  /\ pc' = "poll"
  /\ UNCHANGED <<peers, got, reset, backlog, handled, finished>>

(* Mutant: what follows the line in the buffer is forgotten.               *)
HandleLineForgets ==
  /\ pc = "lines"
  /\ \E nl \in 1 .. Len(buf) :
       /\ IsNewline(buf[nl])
       /\ \A i \in 1 .. nl - 1 : ~IsNewline(buf[i])
       /\ handled' = Append(handled, [fd |-> client_fd, line |-> SubSeq(buf, 1, nl)])
       /\ buf' = << >>
  /\ UNCHANGED <<peers, got, reset, backlog, client_fd, pc, finished>>

HandleLine ==
  /\ pc = "lines"
  /\ \E nl \in 1 .. Len(buf) :
       /\ IsNewline(buf[nl])
       /\ \A i \in 1 .. nl - 1 : ~IsNewline(buf[i])
       /\ handled' = Append(handled, [fd |-> client_fd, line |-> SubSeq(buf, 1, nl)])
       /\ buf' = SubSeq(buf, nl + 1, Len(buf))
  /\ UNCHANGED <<peers, got, reset, backlog, client_fd, pc, finished>>

NoNewline == \A i \in 1 .. Len(buf) : ~IsNewline(buf[i])

(* Mutant: a full buffer is read into again.                               *)
LinesDoneFull ==
  /\ pc = "lines"
  /\ NoNewline
  /\ pc' = "read"
  /\ UNCHANGED <<peers, got, reset, backlog, thread, finished>>

LinesDone ==
  /\ pc = "lines"
  /\ NoNewline
  /\ Len(buf) # BUFSIZE
  /\ pc' = "read"
  /\ UNCHANGED <<peers, got, reset, backlog, thread, finished>>

LineTooLong ==
  /\ pc = "lines"
  /\ NoNewline
  /\ Len(buf) = BUFSIZE
  /\ Disconnected
  /\ pc' = "poll"
  /\ UNCHANGED <<peers, got, reset, backlog, handled, finished>>

-----------------------------------------------------------------------------
(* main() stops the realtime thread, joins it and clears the controllers.  *)

RtFinish ==
  /\ ~finished
  /\ finished' = TRUE
  /\ UNCHANGED <<peers, got, reset, backlog, thread, pc>>

Clear ==
  /\ pc = "left"
  /\ pc' = "cleared"
  /\ Disconnected
  /\ backlog' = << >>
  /\ UNCHANGED <<peers, got, reset, handled, finished>>

Realtime ==
  \/ Poll \/ Leave \/ Accept \/ AcceptReturns
  \/ Read \/ ReadReturns \/ ReadsNothing
  \/ HandleLine \/ LinesDone \/ LineTooLong

SocketNext ==
  \/ \E c \in Clients : Connect(c) \/ Write(c) \/ Close(c)
  \/ Realtime
  \/ RtFinish \/ Clear

SocketSpec == SocketInit /\ [][SocketNext]_socketVars

(* The thread runs on; accept() does not fail for ever on a connection.    *)
SocketFairSpec ==
  SocketSpec /\ WF_socketVars(Realtime) /\ SF_socketVars(Accept) /\ WF_socketVars(Clear)

-----------------------------------------------------------------------------
(* Properties.                                                             *)

Fill == Len(buf)

(* Every variable has its type, and only a connected client has bytes in
   the buffer, which they fit.                                             *)
SocketTypeOK ==
  /\ newline \in [Clients -> Streams]
  /\ wrote \in [Clients -> 0 .. MaxBytes]
  /\ got \in [Clients -> 0 .. MaxBytes]
  /\ gone \subseteq arrived /\ reset \subseteq gone /\ arrived \subseteq Clients
  /\ backlog \in Seq(Clients)
  /\ client_fd \in Clients \cup {none}
  /\ buf \in Seq(Byte) /\ Fill <= BUFSIZE
  /\ client_fd = none => buf = << >>
  /\ handled \in Seq(Line)
  /\ pc \in {"poll", "accept", "read", "lines", "left", "cleared"}
  /\ finished \in BOOLEAN

(* The places that a handled line took up in the stream of its client.     *)
First(h) == h.line[1].at
Last(h)  == h.line[Len(h.line)].at

WholeLine(h) ==
  /\ h.line # << >>
  /\ \A i \in 1 .. Len(h.line) :
       /\ h.line[i] = ByteAt(h.fd, First(h) + i - 1)
       /\ IsNewline(h.line[i]) <=> i = Len(h.line)
  /\ First(h) > 1 => First(h) - 1 \in newline[h.fd]

(* A command line is executed exactly as one client has sent it: from the
   start of one of its lines to the newline, with nothing of another line
   or of the client that was connected before, however read() cuts the
   stream and whenever a client is replaced.                               *)
WholeLines == \A j \in 1 .. Len(handled) : WholeLine(handled[j])

(* The lines of a client are executed in the order they were sent, none of
   them twice and none left out before a later one.                        *)
InOrder ==
  \A j \in 1 .. Len(handled) :
    /\ \A i \in 1 .. j - 1 :
         handled[i].fd = handled[j].fd => Last(handled[i]) < First(handled[j])
    /\ First(handled[j]) > 1 =>
         \E i \in 1 .. j - 1 :
           handled[i].fd = handled[j].fd /\ Last(handled[i]) + 1 = First(handled[j])

(* read() is never asked for 0 bytes, of which the 0 it returns would be
   taken for the end of the stream.                                        *)
RoomToRead == pc = "read" => Fill < BUFSIZE /\ client_fd # none

HasHandled(c, k) ==
  \E j \in 1 .. Len(handled) : handled[j].fd = c /\ Last(handled[j]) = k

Connected(c) == c = client_fd \/ \E i \in 1 .. Len(backlog) : backlog[i] = c

(* A line that was sent is executed, on a silent deck too, unless its
   client is replaced or dropped for the length of a line, or the program
   ends.                                                                   *)
LinesServed ==
  \A c \in Clients : \A k \in 1 .. MaxBytes :
    (k <= wrote[c] /\ k \in newline[c] /\ Connected(c)) ~>
      (HasHandled(c, k) \/ ~Connected(c))

=============================================================================
