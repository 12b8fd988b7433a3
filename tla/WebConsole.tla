------------------------------ MODULE WebConsole ------------------------------
(***************************************************************************)
(* HTTP replies and the console of WebFailsafe (cmd/ursusweb.c): a reply is *)
(* queued in pieces as lwIP has room, from buffers all connections share,    *)
(* and a console command is put off from the receive callback to the main   *)
(* loop, where it may itself pump the network while it runs.                *)
(*                                                                         *)
(* A connection is the place (struct ursus_conn and PCB) it lives in; a     *)
(* place that is freed is given to the next connection, as malloc and       *)
(* lwIP's pool do.                                                          *)
(*                                                                         *)
(* Simplifications.  Requests are complete or not there at all (Uploads has *)
(* the bodies).  What every request rebuilds (status, reply, log) is one    *)
(* buffer.  The header of a reply counts as its first piece.  The loop is   *)
(* not followed beyond serving the console (WebLoop); commands that do not  *)
(* return are left out.                                                     *)
(***************************************************************************)
EXTENDS Naturals

CONSTANTS
    Places,         \* where connections can live
    Cmds,           \* console commands
    Lens,           \* how long a reply may be, in pieces of at most 1024 bytes
    SndBuf,         \* TCP_SND_BUF, in pieces
    None            \* no place, no command

ASSUME WebConsoleAssumption ==
    /\ Lens \subseteq Nat \ {0} /\ SndBuf \in Nat \ {0}
    /\ None \notin Places \cup Cmds

Bodies == {"static", "status", "console"}

VARIABLES
    conn,           \* the connections
    pend,           \* ursus_console_pending_conn and _pcb
    pcmd,           \* ursus_console_pending_cmd
    run             \* the command that runs and whom it is for (locals of
                    \* ursus_console_service_pending)

vars == <<conn, pend, pcmd, run>>

ConnTypes ==
    [st     : {"free", "open", "pending", "reply"},
     cmd    : Cmds \cup {None},     \* the command it asked for
     answer : Cmds \cup {None},     \* the command whose output it is sent
     body   : Bodies,
     len    : Lens \cup {0, 1},      \* pieces announced (Content-Length)
     queued : Nat,                  \* hdr_off and body_off
     acked  : Nat,
     stale  : BOOLEAN,              \* the body was rebuilt since the start
     split  : BOOLEAN,              \* pieces were queued by a later callback
     torn   : BOOLEAN,              \* pieces of two bodies were queued
     heir   : BOOLEAN]              \* got the place of one a command runs for

Free == [st |-> "free", cmd |-> None, answer |-> None, body |-> "static",
         len |-> 0, queued |-> 0, acked |-> 0,
         stale |-> FALSE, split |-> FALSE, torn |-> FALSE, heir |-> FALSE]

NotRunning == [conn |-> None, cmd |-> None]

TypeOK ==
    /\ conn \in [Places -> ConnTypes]
    /\ \A s \in Places :
          /\ conn[s].acked <= conn[s].queued /\ conn[s].queued <= conn[s].len
          /\ conn[s].queued - conn[s].acked <= SndBuf
    /\ pend \in Places \cup {None} /\ pcmd \in Cmds \cup {None}
    /\ run \in [conn : Places, cmd : Cmds] \cup {NotRunning}

-----------------------------------------------------------------------------
(* Replies.                                                                *)

\* What tcp_sndbuf and the rest of the reply allow ursus_http_pump to queue.
Room(c) ==
    LET left == c.len - c.queued
        snd  == SndBuf - (c.queued - c.acked)
    IN  IF left < snd THEN left ELSE snd

\* ursus_http_pump gets k more pieces into lwIP, which copies them.  tcp_write
\* may run out of memory after any of them.
Pumped(c, k) ==
    [c EXCEPT !.queued = @ + k,
              !.torn   = @ \/ (k > 0 /\ c.stale)]

\* ursus_http_start_response
Replies(c, body, len) ==
    LET r == [c EXCEPT !.st = "reply", !.body = body, !.len = len]
    IN  {Pumped(r, k) : k \in 0..Room(r)}

\* Bug: lwIP is given the buffer itself, without TCP_WRITE_FLAG_COPY.
RebuiltBug(b) ==
    [s \in Places |->
        IF conn[s].st = "reply" /\ conn[s].body = b
        THEN [conn[s] EXCEPT !.stale = TRUE,
                             !.torn  = @ \/ conn[s].acked < conn[s].queued]
        ELSE conn[s]]

\* A body is rebuilt while connections may be in the middle of sending it.
Rebuilt(b) ==
    [s \in Places |->
        IF conn[s].st = "reply" /\ conn[s].body = b
        THEN [conn[s] EXCEPT !.stale = TRUE]
        ELSE conn[s]]

\* Bug: a connection that ends leaves its command pending.
PendingClearedBug(s) == UNCHANGED <<pend, pcmd>>

\* ursus_console_pending_clear of ursus_conn_release and ursus_http_err
PendingCleared(s) ==
    IF pend = s THEN pend' = None /\ pcmd' = None ELSE UNCHANGED <<pend, pcmd>>

\* ursus_http_sent: m pieces are acknowledged, more are queued, and a reply
\* that is out is released.
Sent(s) ==
    /\ conn[s].st = "reply"
    /\ \E m \in 1..(conn[s].queued - conn[s].acked) :
          LET c == [conn[s] EXCEPT !.acked = @ + m]
          IN  IF c.acked = c.len
              THEN conn' = [conn EXCEPT ![s] = Free] /\ PendingCleared(s)
              ELSE /\ \E k \in 0..Room(c) :
                         conn' = [conn EXCEPT ![s] =
                                     Pumped([c EXCEPT !.split = @ \/ k > 0], k)]
                   /\ UNCHANGED <<pend, pcmd>>
    /\ UNCHANGED run

\* Bug: the timer is only used while an acknowledgement is expected.
RetriesBug(c) == c.st = "reply" /\ c.acked < c.queued

\* ursus_http_poll is armed with the reply.
Retries(c) == c.st = "reply"

\* ursus_http_poll: "Retry from lwIP's timer even when no further ACK
\* callback is pending."  (Without memory it does nothing.)
Poll(s) ==
    /\ Retries(conn[s])
    /\ \E k \in 1..Room(conn[s]) :
          conn' = [conn EXCEPT ![s] = Pumped([conn[s] EXCEPT !.split = TRUE], k)]
    /\ UNCHANGED <<pend, pcmd, run>>

\* ursus_http_err, or a write that fails and has the connection aborted.
Dies(s) ==
    /\ conn[s].st # "free"
    /\ conn' = [conn EXCEPT ![s] = Free]
    /\ PendingCleared(s)
    /\ UNCHANGED run

\* The client closes its side before there is a reply.  (Afterwards that is
\* only noted.)
Eof(s) ==
    /\ conn[s].st \in {"open", "pending"}
    /\ conn' = [conn EXCEPT ![s] = Free]
    /\ PendingCleared(s)
    /\ UNCHANGED run

-----------------------------------------------------------------------------
(* Requests.                                                               *)

Accept(s) ==
    /\ conn[s].st = "free"
    /\ conn' = [conn EXCEPT ![s] = [Free EXCEPT !.st = "open", !.heir = (run.conn = s)]]
    /\ UNCHANGED <<pend, pcmd, run>>

\* Every request rebuilds the status before it is told apart.
Get(s, body, len) ==
    /\ conn[s].st = "open"
    /\ \E r \in Replies(conn[s], body, len) : conn' = [Rebuilt("status") EXCEPT ![s] = r]
    /\ UNCHANGED <<pend, pcmd, run>>

\* ursus_console_pending_conn
Busy == pend # None

\* POST /api/console: 409 while one is pending, otherwise put off.
Console(s, cmd) ==
    /\ conn[s].st = "open"
    /\ IF Busy
       THEN /\ \E r \in Replies(conn[s], "static", 1) :
                  conn' = [Rebuilt("status") EXCEPT ![s] = r]
            /\ UNCHANGED <<pend, pcmd>>
       ELSE /\ conn' = [Rebuilt("status") EXCEPT ![s].st = "pending", ![s].cmd = cmd]
            /\ pend' = s /\ pcmd' = cmd
    /\ UNCHANGED run

-----------------------------------------------------------------------------
(* The main loop serves the console.                                        *)

\* ursus_console_capture begins: the body is emptied, the command runs.
ServiceBegins ==
    /\ run = NotRunning /\ pend # None
    /\ run' = [conn |-> pend, cmd |-> pcmd]
    /\ conn' = Rebuilt("console")
    /\ UNCHANGED <<pend, pcmd>>

\* The connection that was pending when the command began.
Addressee == run.conn

\* Bug: not looked at again after the command.
RevalidatedBug == TRUE

\* ursus_console_pending_conn (and _pcb) are the same as before the command.
Revalidated == pend = Addressee

\* The command is done and its output put into the body.
ServiceEnds ==
    /\ run # NotRunning
    /\ run' = NotRunning
    /\ IF Revalidated /\ Addressee # None
       THEN /\ \E len \in Lens :
                 \E r \in Replies(conn[Addressee], "console", len) :
                    conn' = [Rebuilt("console") EXCEPT
                                ![Addressee] = [r EXCEPT !.answer = run.cmd]]
            /\ pend' = None /\ pcmd' = None
       ELSE /\ conn' = Rebuilt("console")
            /\ UNCHANGED <<pend, pcmd>>

\* The loop ends: removing the interface frees every connection.
SessionEnds ==
    /\ run = NotRunning
    /\ conn # [s \in Places |-> Free]
    /\ conn' = [s \in Places |-> Free]
    /\ pend' = None /\ pcmd' = None
    /\ UNCHANGED run

-----------------------------------------------------------------------------
Init ==
    /\ conn = [s \in Places |-> Free]
    /\ pend = None /\ pcmd = None
    /\ run = NotRunning

Serves == ServiceBegins \/ ServiceEnds

Next ==
    \/ \E s \in Places :
          \/ Accept(s) \/ Sent(s) \/ Poll(s) \/ Dies(s) \/ Eof(s)
          \/ \E body \in {"static", "status"}, len \in Lens : Get(s, body, len)
          \/ \E cmd \in Cmds : Console(s, cmd)
    \/ Serves \/ SessionEnds

Spec == Init /\ [][Next]_vars

\* The loop goes round and commands end; lwIP's timer runs and finds memory
\* again; what is in flight is acknowledged or lwIP gives the connection up.
\* Clients need not send anything.
Fairness ==
    /\ WF_vars(Serves)
    /\ \A s \in Places :
          /\ WF_vars(Poll(s))
          /\ WF_vars(conn[s].queued > conn[s].acked /\ (Sent(s) \/ Dies(s)))

-----------------------------------------------------------------------------
(* Properties.                                                             *)

\* The pending connection is one that exists and waits, and nobody else
\* waits: whichever way connections end, while a command runs too, no pointer
\* to a freed one stays behind and no request is forgotten.
PendingExact == \A s \in Places : pend = s <=> conn[s].st = "pending"

\* The connections are of their types, nothing beyond the send buffer or the
\* announced length is queued, and the pending pointer is right.
Consistent == TypeOK /\ PendingExact

\* CHANGELOG: "Web-console commands are deferred out of the TCP receive
\* callback and the connection/PCB is revalidated after execution."  The
\* output of a command is never written to a connection that has gone or that
\* waits for something else, and the one it is written to had asked for this
\* very command, unless it took the place of the one that had while the
\* command was running, which comparing pointers cannot tell.
AnswersReachOwner ==
    [][\A s \in Places :
          conn'[s].answer \notin {None, conn[s].answer} =>
              /\ conn[s].st = "pending"
              /\ conn[s].heir \/ conn'[s].answer = conn[s].cmd]_vars

\* A reply that was queued in one go is whole, whatever is rebuilt before it
\* is acknowledged; the ones that can be torn are those of a shared body that
\* a later callback had to go on with.
TornOnlyIfSplit ==
    \A s \in Places : conn[s].torn => conn[s].split /\ conn[s].body # "static"

\* A command that was accepted gets its connection answered, or the
\* connection ends: the console is not blocked for good.
CommandAnswered ==
    \A s \in Places : conn[s].st = "pending" ~> conn[s].st # "pending"

\* A reply that was started is sent to its end or given up, even if tcp_write
\* found no memory for any of it and no acknowledgement will come.
ReplyEnds ==
    \A s \in Places : conn[s].st = "reply" ~> conn[s].st # "reply"

\* No client is kept waiting for good, for a command or for its reply.
ConnectionsServed == CommandAnswered /\ ReplyEnds

=============================================================================
