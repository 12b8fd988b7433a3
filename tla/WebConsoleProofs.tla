-------------------------- MODULE WebConsoleProofs --------------------------
(***************************************************************************)
(* Proofs about the HTTP replies and the console of WebFailsafe: what is    *)
(* queued, which replies can be torn, the pending pointer and whom a        *)
(* command's output reaches, for any number of connections, any commands,   *)
(* any lengths of replies and any size of the send buffer.                  *)
(***************************************************************************)
EXTENDS WebConsole, TLAPS

\* A connection by itself: nothing is queued beyond the announced length or
\* the send buffer.
Bounded(c) ==
    /\ c.acked <= c.queued /\ c.queued <= c.len
    /\ c.queued - c.acked <= SndBuf

\* Before there is a reply nothing has been queued, rebuilt or answered.
Quiet(c) ==
    c.st # "reply" =>
        /\ c.queued = 0 /\ c.acked = 0
        /\ ~c.stale /\ ~c.split /\ ~c.torn
        /\ c.answer = None

\* Only a shared body is rebuilt under a reply, and only a reply that a later
\* callback went on with can have pieces of two.
Tearing(c) ==
    /\ c.stale => c.body # "static"
    /\ c.torn => c.split /\ c.body # "static"

ConnOk(c) == c \in ConnTypes /\ Bounded(c) /\ Quiet(c) /\ Tearing(c)

InvConns == \A s \in Places : ConnOk(conn[s])

\* The pending command is the one the pending connection asked for.
InvPending ==
    /\ pend = None => pcmd = None
    /\ pend # None => pcmd \in Cmds /\ conn[pend].cmd = pcmd

\* While a command runs, the place it runs for holds who asked for it,
\* nobody, or someone who came later and is known as such.
InvRun ==
    run # NotRunning =>
        LET c == conn[run.conn]
        IN  c.st = "free" \/ c.heir \/ (c.st = "pending" /\ c.cmd = run.cmd)

IInv ==
    /\ TypeOK
    /\ InvConns
    /\ PendingExact
    /\ InvPending
    /\ InvRun

-----------------------------------------------------------------------------
(* One connection.                                                         *)

\* What the pending pointer and the running command depend on.
Same(a, b) == a.st = b.st /\ a.cmd = b.cmd /\ a.answer = b.answer /\ a.heir = b.heir

\* A place that was freed.
LEMMA FreeOk == ConnOk(Free)
  <1>1. Free \in ConnTypes
    BY DEF ConnTypes, Free, Bodies
  <1>2. Bounded(Free)
    BY WebConsoleAssumption DEF Bounded, Free
  <1>3. /\ Free.queued = 0 /\ Free.acked = 0 /\ Free.answer = None
        /\ Free.stale = FALSE /\ Free.split = FALSE /\ Free.torn = FALSE
    BY DEF Free
  <1> QED BY <1>1, <1>2, <1>3 DEF ConnOk, Quiet, Tearing

\* The fields of a connection.
LEMMA Fields ==
    ASSUME NEW c \in ConnTypes
    PROVE  /\ c.len \in Nat /\ c.queued \in Nat /\ c.acked \in Nat /\ SndBuf \in Nat
           /\ c.stale \in BOOLEAN /\ c.split \in BOOLEAN /\ c.torn \in BOOLEAN
           /\ c.heir \in BOOLEAN
  <1>1. c.len \in Nat /\ c.queued \in Nat /\ c.acked \in Nat /\ SndBuf \in Nat
    <2>1. c.len \in Lens \cup {0, 1} /\ c.queued \in Nat /\ c.acked \in Nat
      BY DEF ConnTypes
    <2>2. Lens \cup {0, 1} \subseteq Nat /\ SndBuf \in Nat
      BY WebConsoleAssumption
    <2> QED BY <2>1, <2>2
  <1>2. /\ c.stale \in BOOLEAN /\ c.split \in BOOLEAN /\ c.torn \in BOOLEAN
        /\ c.heir \in BOOLEAN
    BY DEF ConnTypes
  <1> QED BY <1>1, <1>2

\* What tcp_sndbuf admits stays within the send buffer and the reply.
LEMMA RoomAt ==
    ASSUME NEW c \in ConnTypes, Bounded(c)
    PROVE  \A k \in 0..Room(c) :
             /\ k \in Nat
             /\ c.queued + k \in Nat
             /\ c.acked <= c.queued + k /\ c.queued + k <= c.len
             /\ (c.queued + k) - c.acked <= SndBuf
  BY Fields DEF Bounded, Room

\* ursus_http_pump goes on with a reply: what it queues of a body that was
\* rebuilt tears it, so that is for a later callback only.
LEMMA PumpedOk ==
    ASSUME NEW c, ConnOk(c), c.st = "reply", NEW k \in 0..Room(c),
           k > 0 /\ c.stale => c.split
    PROVE  ConnOk(Pumped(c, k)) /\ Same(Pumped(c, k), c)
  <1> DEFINE p == Pumped(c, k)
  <1>1. /\ c \in ConnTypes /\ Bounded(c) /\ Tearing(c)
    BY DEF ConnOk
  <1>2. /\ c.queued + k \in Nat
        /\ c.acked <= c.queued + k /\ c.queued + k <= c.len
        /\ (c.queued + k) - c.acked <= SndBuf
    BY <1>1, RoomAt
  <1>3. /\ p \in ConnTypes /\ p.st = c.st /\ p.cmd = c.cmd /\ p.answer = c.answer
        /\ p.heir = c.heir /\ p.body = c.body /\ p.len = c.len /\ p.acked = c.acked
        /\ p.stale = c.stale /\ p.split = c.split /\ p.queued = c.queued + k
        /\ p.torn = (c.torn \/ (k > 0 /\ c.stale))
    BY <1>1, <1>2 DEF ConnTypes, Pumped
  <1> HIDE DEF p
  <1>4. Bounded(p)
    BY <1>2, <1>3 DEF Bounded
  <1>5. Tearing(p) /\ Quiet(p)
    BY <1>1, <1>3 DEF Tearing, Quiet
  <1> QED BY <1>3, <1>4, <1>5 DEF ConnOk, Same, p

\* ursus_http_start_response: the first pieces are of one body.
LEMMA RepliesOk ==
    ASSUME NEW c, ConnOk(c), c.st # "reply", NEW body \in Bodies, NEW len \in Lens \cup {1},
           NEW r \in Replies(c, body, len)
    PROVE  /\ ConnOk(r) /\ r.st = "reply" /\ r.cmd = c.cmd /\ r.answer = None
           /\ r.heir = c.heir
  <1> DEFINE b == [c EXCEPT !.st = "reply", !.body = body, !.len = len]
  <1>1. c \in ConnTypes /\ Quiet(c) /\ len \in Nat
    BY WebConsoleAssumption DEF ConnOk
  <1>2. /\ b \in ConnTypes /\ b.st = "reply" /\ b.cmd = c.cmd /\ b.answer = None
        /\ b.heir = c.heir /\ b.queued = 0 /\ b.acked = 0 /\ b.len = len
        /\ ~b.stale /\ ~b.torn
    BY <1>1 DEF ConnTypes, Quiet
  <1>3. PICK k \in 0..Room(b) : r = Pumped(b, k)
    BY DEF Replies
  <1> HIDE DEF b
  <1>4. Bounded(b)
    BY <1>1, <1>2, WebConsoleAssumption DEF Bounded
  <1>5. ConnOk(b)
    BY <1>2, <1>4 DEF ConnOk, Quiet, Tearing
  <1> QED BY <1>2, <1>3, <1>5, PumpedOk DEF Same

\* A shared body is rebuilt under the replies that send it.
LEMMA RebuiltOk ==
    ASSUME conn \in [Places -> ConnTypes], InvConns, NEW b \in {"status", "console"}
    PROVE  /\ Rebuilt(b) \in [Places -> ConnTypes]
           /\ \A s \in Places : ConnOk(Rebuilt(b)[s]) /\ Same(Rebuilt(b)[s], conn[s])
  <1> SUFFICES ASSUME NEW s \in Places
               PROVE  ConnOk(Rebuilt(b)[s]) /\ Same(Rebuilt(b)[s], conn[s])
    BY DEF Rebuilt, ConnOk
  <1> DEFINE c == conn[s]
             d == [c EXCEPT !.stale = TRUE]
  <1>1. ConnOk(c) /\ c \in ConnTypes
    BY DEF InvConns
  <1>2. Rebuilt(b)[s] = IF c.st = "reply" /\ c.body = b THEN d ELSE c
    BY DEF Rebuilt
  <1>3. /\ d \in ConnTypes /\ d.st = c.st /\ d.cmd = c.cmd /\ d.answer = c.answer
        /\ d.heir = c.heir /\ d.body = c.body /\ d.len = c.len /\ d.acked = c.acked
        /\ d.split = c.split /\ d.queued = c.queued /\ d.torn = c.torn
    BY <1>1 DEF ConnTypes
  <1> HIDE DEF c, d
  <1>4. c.st = "reply" /\ c.body = b => ConnOk(d)
    BY <1>1, <1>3 DEF ConnOk, Bounded, Quiet, Tearing
  <1>5. ConnOk(Rebuilt(b)[s]) /\ Same(Rebuilt(b)[s], c)
    BY <1>1, <1>2, <1>3, <1>4 DEF Same
  <1> QED BY <1>5 DEF c

\* One place of a table of connections is given a new value.
LEMMA PutOk ==
    ASSUME NEW t \in [Places -> ConnTypes], \A s \in Places : ConnOk(t[s]),
           NEW p \in Places, NEW r, ConnOk(r)
    PROVE  LET u == [t EXCEPT ![p] = r]
           IN  /\ u \in [Places -> ConnTypes]
               /\ \A s \in Places : ConnOk(u[s])
               /\ u[p] = r
               /\ \A s \in Places : s # p => u[s] = t[s]
  <1>1. r \in ConnTypes
    BY DEF ConnOk
  <1> QED BY <1>1

\* ursus_http_sent: an acknowledgement, and what is queued after it.
LEMMA SentOk ==
    ASSUME NEW c, ConnOk(c), c.st = "reply",
           NEW m \in 1..(c.queued - c.acked),
           NEW k \in 0..Room([c EXCEPT !.acked = @ + m])
    PROVE  LET d == [c EXCEPT !.acked = @ + m]
               r == Pumped([d EXCEPT !.split = @ \/ k > 0], k)
           IN  ConnOk(r) /\ Same(r, c)
  <1> DEFINE d == [c EXCEPT !.acked = @ + m]
             e == [d EXCEPT !.split = @ \/ k > 0]
  <1>1. c \in ConnTypes /\ Bounded(c) /\ Tearing(c)
    BY DEF ConnOk
  <1>2. /\ c.acked + m \in Nat /\ c.acked + m <= c.queued /\ m \in Nat
        /\ c.queued - (c.acked + m) <= SndBuf
    BY <1>1, Fields DEF Bounded
  <1>3. /\ e \in ConnTypes /\ e.st = c.st /\ e.cmd = c.cmd /\ e.answer = c.answer
        /\ e.heir = c.heir /\ e.body = c.body /\ e.len = c.len /\ e.acked = c.acked + m
        /\ e.stale = c.stale /\ e.queued = c.queued /\ e.torn = c.torn
        /\ e.split = (c.split \/ k > 0)
    BY <1>1, <1>2 DEF ConnTypes
  <1>4. Room(e) = Room(d)
    BY <1>1 DEF Room, ConnTypes
  <1> HIDE DEF e, d
  <1>5. Bounded(e)
    BY <1>1, <1>2, <1>3 DEF Bounded
  <1>6. ConnOk(e)
    BY <1>1, <1>3, <1>5 DEF ConnOk, Quiet, Tearing
  <1>7. ConnOk(Pumped(e, k)) /\ Same(Pumped(e, k), e)
    <2>1. k \in 0..Room(e)
      BY <1>4 DEF d
    <2>2. k > 0 /\ e.stale => e.split
      BY <1>3
    <2> QED BY <1>3, <1>6, <2>1, <2>2, PumpedOk
  <1> QED BY <1>3, <1>7 DEF Same, d, e

\* ursus_http_poll goes on with a reply later.
LEMMA PollOk ==
    ASSUME NEW c, ConnOk(c), c.st = "reply", NEW k \in 1..Room(c)
    PROVE  LET r == Pumped([c EXCEPT !.split = TRUE], k)
           IN  ConnOk(r) /\ Same(r, c)
  <1> DEFINE e == [c EXCEPT !.split = TRUE]
  <1>1. c \in ConnTypes /\ Bounded(c) /\ Tearing(c)
    BY DEF ConnOk
  <1>3. /\ e \in ConnTypes /\ e.st = c.st /\ e.cmd = c.cmd /\ e.answer = c.answer
        /\ e.heir = c.heir /\ e.body = c.body /\ e.len = c.len /\ e.acked = c.acked
        /\ e.stale = c.stale /\ e.queued = c.queued /\ e.torn = c.torn /\ e.split
    BY <1>1 DEF ConnTypes
  <1>4. Room(e) = Room(c)
    BY <1>1 DEF Room, ConnTypes
  <1> HIDE DEF e
  <1>6. ConnOk(e)
    BY <1>1, <1>3 DEF ConnOk, Bounded, Quiet, Tearing
  <1>7. ConnOk(Pumped(e, k)) /\ Same(Pumped(e, k), e)
    <2>1. k \in 0..Room(e)
      BY <1>1, <1>4, Fields DEF Room
    <2> QED BY <1>3, <1>6, <2>1, PumpedOk
  <1> QED BY <1>3, <1>7 DEF Same, e

\* A connection that is put off, and one that is answered.
LEMMA ChangedOk ==
    ASSUME NEW c, ConnOk(c), NEW cmd \in Cmds
    PROVE  /\ c.st = "open" => ConnOk([c EXCEPT !.st = "pending", !.cmd = cmd])
           /\ c.st = "reply" => ConnOk([c EXCEPT !.answer = cmd])
  <1>1. ASSUME c.st = "open" PROVE ConnOk([c EXCEPT !.st = "pending", !.cmd = cmd])
    <2> DEFINE f == [c EXCEPT !.st = "pending", !.cmd = cmd]
    <2>1. /\ c \in ConnTypes /\ f \in ConnTypes /\ f.queued = c.queued /\ f.acked = c.acked
          /\ f.len = c.len /\ f.stale = c.stale /\ f.split = c.split /\ f.torn = c.torn
          /\ f.answer = c.answer /\ f.body = c.body
      BY DEF ConnOk, ConnTypes
    <2> HIDE DEF f
    <2>2. ConnOk(f)
      BY <1>1, <2>1 DEF ConnOk, Bounded, Quiet, Tearing
    <2> QED BY <2>2 DEF f
  <1>2. ASSUME c.st = "reply" PROVE ConnOk([c EXCEPT !.answer = cmd])
    <2> DEFINE f == [c EXCEPT !.answer = cmd]
    <2>1. /\ c \in ConnTypes /\ f \in ConnTypes /\ f.queued = c.queued /\ f.acked = c.acked
          /\ f.len = c.len /\ f.stale = c.stale /\ f.split = c.split /\ f.torn = c.torn
          /\ f.st = c.st /\ f.body = c.body
      BY DEF ConnOk, ConnTypes
    <2> HIDE DEF f
    <2>2. ConnOk(f)
      BY <1>2, <2>1 DEF ConnOk, Bounded, Quiet, Tearing
    <2> QED BY <2>2 DEF f
  <1> QED BY <1>1, <1>2

-----------------------------------------------------------------------------
(* The inductive invariant.                                                *)

\* No connection, nothing pending.
LEMMA InvInit == Init => IInv
  <1> SUFFICES ASSUME Init PROVE IInv
    OBVIOUS
  <1>1. conn \in [Places -> ConnTypes] /\ \A s \in Places : conn[s] = Free /\ ConnOk(conn[s])
    BY FreeOk DEF Init, ConnOk
  <1>2. \A s \in Places : s # None /\ conn[s].st # "pending"
    <2>1. Free.st = "free"
      BY DEF Free
    <2> QED BY <1>1, <2>1, WebConsoleAssumption
  <1>3. TypeOK
    BY <1>1 DEF Init, TypeOK, ConnOk, Bounded
  <1> QED BY <1>1, <1>2, <1>3 DEF Init, IInv, InvConns, PendingExact, InvPending, InvRun

\* What follows from IInv after a step, connection by connection.
LEMMA Assemble ==
    ASSUME conn' \in [Places -> ConnTypes], \A s \in Places : ConnOk(conn'[s]),
           pend' \in Places \cup {None}, pcmd' \in Cmds \cup {None},
           run' \in [conn : Places, cmd : Cmds] \cup {NotRunning},
           PendingExact', InvPending', InvRun'
    PROVE  IInv'
  <1>1. InvConns'
    BY DEF InvConns, ConnOk, Bounded, Quiet, Tearing, ConnTypes
  <1>2. TypeOK'
    BY DEF TypeOK, ConnOk, Bounded, NotRunning, ConnTypes
  <1> QED BY <1>1, <1>2 DEF IInv

\* The connection at s changes, the others stay as they are or have a body
\* rebuilt.
Changes(s, r) ==
    /\ conn' \in [Places -> ConnTypes]
    /\ \A p \in Places : ConnOk(conn'[p])
    /\ conn'[s] = r
    /\ \A p \in Places : p # s => Same(conn'[p], conn[p])

\* A step of a single connection, from either table.
LEMMA ChangeAt ==
    ASSUME IInv, NEW s \in Places, NEW r, ConnOk(r),
           \/ conn' = [conn EXCEPT ![s] = r]
           \/ \E b \in {"status", "console"} : conn' = [Rebuilt(b) EXCEPT ![s] = r]
    PROVE  Changes(s, r)
  <1>1. conn \in [Places -> ConnTypes] /\ InvConns /\ \A p \in Places : ConnOk(conn[p])
    BY DEF IInv, TypeOK, InvConns
  <1>2. CASE conn' = [conn EXCEPT ![s] = r]
    BY <1>1, <1>2, PutOk DEF Changes, Same
  <1>3. ASSUME NEW b \in {"status", "console"}, conn' = [Rebuilt(b) EXCEPT ![s] = r]
        PROVE  Changes(s, r)
    BY <1>1, <1>3, RebuiltOk, PutOk DEF Changes
  <1> QED BY <1>2, <1>3

\* Output goes to a connection that waits, which asked for it or took the
\* place of the one that did.
Delivered ==
    \A p \in Places :
        conn'[p].answer \notin {None, conn[p].answer} =>
            /\ conn[p].st = "pending"
            /\ conn[p].heir \/ conn'[p].answer = conn[p].cmd

\* A connection that ends takes what was pending for it along; one that goes
\* on sending does not concern it.
LEMMA EndsOrSends ==
    ASSUME IInv, NEW s \in Places, NEW r, Changes(s, r), UNCHANGED run,
           \/ r = Free /\ PendingCleared(s)
           \/ Same(r, conn[s]) /\ UNCHANGED <<pend, pcmd>>
           \/ /\ conn[s].st = "open" /\ r.st = "reply" /\ r.heir = conn[s].heir
              /\ r.answer = None /\ UNCHANGED <<pend, pcmd>>
    PROVE  IInv' /\ Delivered
  <1>k. /\ pend \in Places \cup {None} /\ pcmd \in Cmds \cup {None}
        /\ run \in [conn : Places, cmd : Cmds] \cup {NotRunning}
        /\ PendingExact /\ InvPending /\ InvRun /\ None \notin Places
    BY WebConsoleAssumption DEF IInv, TypeOK
  <1>f. Free.st = "free" /\ Free.answer = None
    BY DEF Free
  <1>1. pend' \in Places \cup {None} /\ pcmd' \in Cmds \cup {None}
    BY <1>k DEF PendingCleared
  <1>2. PendingExact'
    BY <1>k, <1>f DEF PendingExact, Changes, PendingCleared, Same
  <1>3. InvPending'
    BY <1>k, <1>f DEF InvPending, PendingExact, Changes, PendingCleared, Same
  <1>4. InvRun'
    <2>1. run # NotRunning => run.conn \in Places
      BY <1>k
    <2> QED BY <1>k, <1>f, <2>1 DEF InvRun, Changes, PendingCleared, Same
  <1>5. Delivered
    BY <1>f DEF Delivered, Changes, Same
  <1> QED BY <1>k, <1>1, <1>2, <1>3, <1>4, <1>5, Assemble DEF Changes

\* What the connections and the console know of each other.
LEMMA Known ==
    ASSUME IInv
    PROVE  /\ conn \in [Places -> ConnTypes] /\ InvConns
           /\ \A s \in Places : ConnOk(conn[s]) /\ s # None
           /\ pend \in Places \cup {None} /\ pcmd \in Cmds \cup {None}
           /\ run \in [conn : Places, cmd : Cmds] \cup {NotRunning}
           /\ PendingExact /\ InvPending /\ InvRun
  BY WebConsoleAssumption DEF IInv, TypeOK, InvConns

\* The steps of one connection: accepted, served, acknowledged, gone.
LEMMA PlaceStep ==
    ASSUME IInv, NEW s \in Places,
           \/ Accept(s) \/ Sent(s) \/ Poll(s) \/ Dies(s) \/ Eof(s)
           \/ \E body \in {"static", "status"}, len \in Lens : Get(s, body, len)
           \/ \E cmd \in Cmds : Console(s, cmd)
    PROVE  IInv' /\ Delivered
  <1>k. /\ conn \in [Places -> ConnTypes] /\ InvConns
        /\ \A p \in Places : ConnOk(conn[p]) /\ p # None
        /\ pend \in Places \cup {None} /\ pcmd \in Cmds \cup {None}
        /\ run \in [conn : Places, cmd : Cmds] \cup {NotRunning}
        /\ PendingExact /\ InvPending /\ InvRun
    BY Known
  <1>1. CASE Accept(s)
    <2> DEFINE r == [Free EXCEPT !.st = "open", !.heir = (run.conn = s)]
    <2>1. ConnOk(r) /\ r.st = "open" /\ r.heir = (run.conn = s) /\ r.answer = None
      <3>1. r.st = "open" /\ r.heir = (run.conn = s) /\ r.answer = None
        BY DEF Free
      <3>2. ConnOk(r)
        <4>1. r \in ConnTypes
          BY FreeOk DEF ConnTypes, ConnOk
        <4>2. /\ r.queued = 0 /\ r.acked = 0 /\ r.len = 0 /\ r.answer = None
              /\ r.stale = FALSE /\ r.split = FALSE /\ r.torn = FALSE
          BY DEF Free
        <4> HIDE DEF r
        <4>3. Bounded(r)
          BY <4>2, WebConsoleAssumption DEF Bounded
        <4> QED BY <4>1, <4>2, <4>3 DEF ConnOk, Quiet, Tearing
      <3> QED BY <3>1, <3>2
    <2>2. conn' = [conn EXCEPT ![s] = r] /\ UNCHANGED <<pend, pcmd, run>> /\ conn[s].st = "free"
      BY <1>1 DEF Accept
    <2> HIDE DEF r
    <2>3. Changes(s, r)
      BY <2>1, <2>2, ChangeAt
    <2>4. PendingExact' /\ InvPending'
      BY <1>k, <2>1, <2>2, <2>3 DEF PendingExact, InvPending, Changes, Same
    <2>5. InvRun'
      <3>1. run # NotRunning => run.conn \in Places
        BY <1>k
      <3> QED BY <1>k, <2>1, <2>2, <2>3, <3>1 DEF InvRun, Changes, Same
    <2>6. Delivered
      BY <2>1, <2>3 DEF Delivered, Changes, Same
    <2> QED BY <1>k, <2>2, <2>3, <2>4, <2>5, <2>6, Assemble DEF Changes
  <1>2. CASE Sent(s)
    <2>1. PICK m \in 1..(conn[s].queued - conn[s].acked) :
            LET c == [conn[s] EXCEPT !.acked = @ + m]
            IN  IF c.acked = c.len
                THEN conn' = [conn EXCEPT ![s] = Free] /\ PendingCleared(s)
                ELSE /\ \E k \in 0..Room(c) :
                           conn' = [conn EXCEPT ![s] =
                                       Pumped([c EXCEPT !.split = @ \/ k > 0], k)]
                     /\ UNCHANGED <<pend, pcmd>>
      BY <1>2 DEF Sent
    <2> DEFINE c == [conn[s] EXCEPT !.acked = @ + m]
    <2>2. conn[s].st = "reply" /\ UNCHANGED run
      BY <1>2 DEF Sent
    <2>3. CASE conn' = [conn EXCEPT ![s] = Free] /\ PendingCleared(s)
      BY <2>2, <2>3, FreeOk, ChangeAt, EndsOrSends
    <2>4. ASSUME NEW k \in 0..Room(c),
                 conn' = [conn EXCEPT ![s] = Pumped([c EXCEPT !.split = @ \/ k > 0], k)],
                 UNCHANGED <<pend, pcmd>>
          PROVE  IInv' /\ Delivered
      <3> DEFINE r == Pumped([c EXCEPT !.split = @ \/ k > 0], k)
      <3>1. ConnOk(r) /\ Same(r, conn[s])
        BY <1>k, <2>2, SentOk
      <3> HIDE DEF r
      <3>2. conn' = [conn EXCEPT ![s] = r]
        BY <2>4 DEF r
      <3>3. Changes(s, r)
        BY <3>1, <3>2, ChangeAt
      <3> QED BY <2>2, <2>4, <3>1, <3>3, EndsOrSends
    <2> QED BY <2>1, <2>3, <2>4
  <1>3. CASE Poll(s)
    <2>1. PICK k \in 1..Room(conn[s]) :
            conn' = [conn EXCEPT ![s] = Pumped([conn[s] EXCEPT !.split = TRUE], k)]
      BY <1>3 DEF Poll
    <2> DEFINE r == Pumped([conn[s] EXCEPT !.split = TRUE], k)
    <2>2. conn[s].st = "reply" /\ UNCHANGED <<pend, pcmd, run>>
      BY <1>3 DEF Poll, Retries
    <2>3. ConnOk(r) /\ Same(r, conn[s])
      BY <1>k, <2>2, PollOk
    <2>4. conn' = [conn EXCEPT ![s] = r]
      BY <2>1
    <2> HIDE DEF r
    <2>5. Changes(s, r)
      BY <2>3, <2>4, ChangeAt
    <2> QED BY <2>2, <2>3, <2>5, EndsOrSends
  <1>4. CASE Dies(s) \/ Eof(s)
    <2>1. conn' = [conn EXCEPT ![s] = Free] /\ PendingCleared(s) /\ UNCHANGED run
      BY <1>4 DEF Dies, Eof
    <2> QED BY <2>1, FreeOk, ChangeAt, EndsOrSends
  <1>5. ASSUME NEW body \in {"static", "status"}, NEW len \in Lens, Get(s, body, len)
        PROVE  IInv' /\ Delivered
    <2>1. PICK r \in Replies(conn[s], body, len) : conn' = [Rebuilt("status") EXCEPT ![s] = r]
      BY <1>5 DEF Get
    <2>2. conn[s].st = "open" /\ UNCHANGED <<pend, pcmd, run>>
      BY <1>5 DEF Get
    <2>3. ConnOk(r) /\ r.st = "reply" /\ r.heir = conn[s].heir /\ r.answer = None
      BY <1>k, <2>1, <2>2, RepliesOk DEF Bodies
    <2>4. Changes(s, r)
      BY <2>1, <2>3, ChangeAt
    <2> QED BY <2>2, <2>3, <2>4, EndsOrSends
  <1>6. ASSUME NEW cmd \in Cmds, Console(s, cmd) PROVE IInv' /\ Delivered
    <2>1. conn[s].st = "open" /\ UNCHANGED run
      BY <1>6 DEF Console
    <2>2. CASE Busy
      <3>1. PICK r \in Replies(conn[s], "static", 1) :
              conn' = [Rebuilt("status") EXCEPT ![s] = r]
        BY <1>6, <2>2 DEF Console
      <3>2. UNCHANGED <<pend, pcmd>>
        BY <1>6, <2>2 DEF Console
      <3>3. ConnOk(r) /\ r.st = "reply" /\ r.heir = conn[s].heir /\ r.answer = None
        BY <1>k, <2>1, <3>1, RepliesOk DEF Bodies
      <3>4. Changes(s, r)
        BY <3>1, <3>3, ChangeAt
      <3> QED BY <2>1, <3>2, <3>3, <3>4, EndsOrSends
    <2>3. CASE ~Busy
      <3> DEFINE u == Rebuilt("status")
                 r == [u[s] EXCEPT !.st = "pending", !.cmd = cmd]
      <3>1. /\ u \in [Places -> ConnTypes] /\ ConnOk(u[s]) /\ Same(u[s], conn[s])
        BY <1>k, RebuiltOk
      <3> HIDE DEF u
      <3>2. conn' = [u EXCEPT ![s].st = "pending", ![s].cmd = cmd] /\ pend' = s /\ pcmd' = cmd
        BY <1>6, <2>3 DEF Console, u
      <3>3. conn' = [u EXCEPT ![s] = r]
        BY <3>1, <3>2
      <3>4. /\ ConnOk(r)
        BY <2>1, <3>1, ChangedOk DEF Same
      <3>5. r.st = "pending" /\ r.cmd = cmd /\ r.heir = conn[s].heir
            /\ r.answer = conn[s].answer
        BY <3>1 DEF Same, ConnTypes
      <3> HIDE DEF r
      <3>6. Changes(s, r)
        BY <3>3, <3>4, ChangeAt DEF u
      <3>7. PendingExact' /\ InvPending'
        BY <1>k, <2>3, <3>2, <3>5, <3>6 DEF Busy, PendingExact, InvPending, Changes, Same
      <3>8. InvRun'
        <4>1. run # NotRunning => run.conn \in Places
          BY <1>k
        <4> QED BY <1>k, <2>1, <3>5, <3>6, <4>1 DEF InvRun, Changes, Same
      <3>9. Delivered
        BY <3>5, <3>6 DEF Delivered, Changes, Same
      <3> QED BY <1>k, <2>1, <3>2, <3>6, <3>7, <3>8, <3>9, Assemble DEF Changes
    <2> QED BY <2>2, <2>3
  <1> QED BY <1>1, <1>2, <1>3, <1>4, <1>5, <1>6

\* The main loop takes the pending command up, runs it, and answers if its
\* connection is still the pending one.
LEMMA ServeStep ==
    ASSUME IInv, Serves \/ SessionEnds \/ UNCHANGED vars
    PROVE  IInv' /\ Delivered
  <1>k. /\ conn \in [Places -> ConnTypes] /\ InvConns
        /\ \A p \in Places : ConnOk(conn[p]) /\ p # None
        /\ pend \in Places \cup {None} /\ pcmd \in Cmds \cup {None}
        /\ run \in [conn : Places, cmd : Cmds] \cup {NotRunning}
        /\ PendingExact /\ InvPending /\ InvRun
    BY Known
  <1>n. NotRunning.conn = None
    BY DEF NotRunning
  <1>1. CASE ServiceBegins
    <2>1. /\ run' = [conn |-> pend, cmd |-> pcmd] /\ conn' = Rebuilt("console")
          /\ UNCHANGED <<pend, pcmd>> /\ pend \in Places /\ pcmd \in Cmds
          /\ conn[pend].cmd = pcmd /\ conn[pend].st = "pending"
      BY <1>1, <1>k DEF ServiceBegins, InvPending, PendingExact
    <2>2. /\ conn' \in [Places -> ConnTypes]
          /\ \A p \in Places : ConnOk(conn'[p]) /\ Same(conn'[p], conn[p])
      BY <1>k, <2>1, RebuiltOk
    <2>3. run'.conn = pend /\ run'.cmd = pcmd /\ run' \in [conn : Places, cmd : Cmds]
      BY <2>1
    <2>4. PendingExact' /\ InvPending'
      BY <1>k, <2>1, <2>2 DEF PendingExact, InvPending, Same
    <2>5. InvRun'
      BY <2>1, <2>2, <2>3 DEF InvRun, Same
    <2>6. Delivered
      BY <2>2 DEF Delivered, Same
    <2> QED BY <1>k, <2>1, <2>2, <2>3, <2>4, <2>5, <2>6, Assemble
  <1>2. CASE ServiceEnds
    <2>1. run' = NotRunning /\ run.conn \in Places /\ run.cmd \in Cmds
      BY <1>2, <1>k DEF ServiceEnds
    <2>2. InvRun'
      BY <2>1 DEF InvRun, NotRunning
    <2>3. CASE Revalidated /\ Addressee # None
      <3>1. PICK len \in Lens : \E r \in Replies(conn[Addressee], "console", len) :
              conn' = [Rebuilt("console") EXCEPT ![Addressee] = [r EXCEPT !.answer = run.cmd]]
        BY <1>2, <2>3 DEF ServiceEnds
      <3>2. PICK r \in Replies(conn[Addressee], "console", len) :
              conn' = [Rebuilt("console") EXCEPT ![Addressee] = [r EXCEPT !.answer = run.cmd]]
        BY <3>1
      <3>3. pend = Addressee /\ Addressee \in Places /\ conn[Addressee].st = "pending"
            /\ pend' = None /\ pcmd' = None
        BY <1>2, <1>k, <2>1, <2>3 DEF ServiceEnds, Revalidated, Addressee, PendingExact
      <3> DEFINE q == [r EXCEPT !.answer = run.cmd]
      <3>4. ConnOk(r) /\ r.st = "reply"
        BY <1>k, <3>2, <3>3, RepliesOk DEF Bodies
      <3>5. ConnOk(q)
        BY <2>1, <3>4, ChangedOk
      <3>6. q.st = "reply" /\ q.answer = run.cmd
        BY <3>4 DEF ConnOk, ConnTypes
      <3> HIDE DEF q
      <3>7. Changes(Addressee, q)
        BY <3>2, <3>3, <3>5, ChangeAt DEF q
      <3>8. PendingExact' /\ InvPending'
        BY <1>k, <3>3, <3>6, <3>7 DEF PendingExact, InvPending, Changes, Same
      <3>9. Delivered
        <4>1. conn[Addressee].heir \/ conn[Addressee].cmd = run.cmd
          BY <1>2, <1>k, <3>3 DEF ServiceEnds, InvRun, Addressee
        <4> QED BY <3>3, <3>6, <3>7, <4>1 DEF Delivered, Changes, Same
      <3> QED BY <2>1, <2>2, <3>3, <3>7, <3>8, <3>9, Assemble DEF Changes
    <2>4. CASE ~(Revalidated /\ Addressee # None)
      <3>1. conn' = Rebuilt("console") /\ UNCHANGED <<pend, pcmd>>
        BY <1>2, <2>4 DEF ServiceEnds
      <3>2. /\ conn' \in [Places -> ConnTypes]
            /\ \A p \in Places : ConnOk(conn'[p]) /\ Same(conn'[p], conn[p])
        BY <1>k, <3>1, RebuiltOk
      <3>3. PendingExact' /\ InvPending'
        BY <1>k, <3>1, <3>2 DEF PendingExact, InvPending, Same
      <3>4. Delivered
        BY <3>2 DEF Delivered, Same
      <3> QED BY <1>k, <2>1, <2>2, <3>1, <3>2, <3>3, <3>4, Assemble
    <2> QED BY <2>3, <2>4
  <1>3. CASE SessionEnds
    <2>1. /\ conn' = [s \in Places |-> Free] /\ pend' = None /\ pcmd' = None
          /\ run' = NotRunning
      BY <1>3 DEF SessionEnds
    <2>2. /\ conn' \in [Places -> ConnTypes]
          /\ \A p \in Places : conn'[p] = Free /\ ConnOk(conn'[p])
      BY <2>1, FreeOk DEF ConnOk
    <2>3. Free.st = "free" /\ Free.answer = None
      BY DEF Free
    <2>4. PendingExact' /\ InvPending' /\ InvRun'
      BY <1>k, <2>1, <2>2, <2>3 DEF PendingExact, InvPending, InvRun, NotRunning
    <2>5. Delivered
      BY <2>2, <2>3 DEF Delivered
    <2> QED BY <2>1, <2>2, <2>4, <2>5, Assemble
  <1>4. CASE UNCHANGED vars
    BY <1>4 DEF vars, IInv, TypeOK, InvConns, ConnOk, Bounded, Quiet, Tearing, PendingExact,
                InvPending, InvRun, Delivered
  <1> QED BY <1>1, <1>2, <1>3, <1>4 DEF Serves

\* IInv is inductive: it is what every result below rests on.
THEOREM Inductive == Spec => []IInv
  <1>1. IInv /\ [Next]_vars => IInv'
    BY PlaceStep, ServeStep DEF Next
  <1> QED BY InvInit, <1>1, PTL DEF Spec

-----------------------------------------------------------------------------
(* What the replies and the console promise.                               *)

\* Nothing is queued beyond the send buffer or the announced length, and
\* through every order of requests, deaths and commands the pending pointer
\* is to the one connection that waits.
THEOREM ConsistentHolds == Spec => []Consistent
  <1>1. IInv => Consistent
    BY DEF IInv, Consistent
  <1> QED BY Inductive, <1>1, PTL

\* Only a reply of a shared body that a later callback went on with can be
\* torn: one that was queued in one go is whole.
THEOREM WholeUnlessSplit == Spec => []TornOnlyIfSplit
  <1>1. IInv => TornOnlyIfSplit
    BY DEF IInv, InvConns, ConnOk, Tearing, TornOnlyIfSplit
  <1> QED BY Inductive, <1>1, PTL

\* The output of a command reaches a connection that waits, and that is the
\* one that asked for it unless it took the other's place during the command.
THEOREM AnswersReach == Spec => AnswersReachOwner
  <1>1. IInv /\ [Next]_vars =>
          [\A s \in Places :
              conn'[s].answer \notin {None, conn[s].answer} =>
                  /\ conn[s].st = "pending"
                  /\ conn[s].heir \/ conn'[s].answer = conn[s].cmd]_vars
    BY PlaceStep, ServeStep DEF Next, Delivered
  <1> QED BY Inductive, <1>1, PTL DEF Spec, AnswersReachOwner

=============================================================================
