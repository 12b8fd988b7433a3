------------------------------ MODULE Uploads ------------------------------
(***************************************************************************)
(* File uploads into RAM by the WebFailsafe server (cmd/ursusweb.c).  A     *)
(* client declares a file (ursus_begin_upload), then posts it in chunks,    *)
(* each on a connection of its own (ursus_prepare_chunk looks at the        *)
(* headers, ursus_feed_bytes copies the body as segments arrive).  When the *)
(* last byte is in, the validator of the kind runs over the staging window  *)
(* and raises the flag that the flash operations and "boot once" ask for.   *)
(*                                                                         *)
(* The five kinds share three staging windows.  Connections are             *)
(* interleaved by lwIP: a client that gave up on a connection may have      *)
(* begun again while bytes of the old one are still arriving.               *)
(*                                                                         *)
(* A file is known by its generation, which the page draws at random for    *)
(* every upload, so no two uploads share one.  A cell of a window holds the *)
(* generation whose byte it is.  Requests that are refused change nothing   *)
(* and are left out.                                                        *)
(***************************************************************************)
EXTENDS Naturals, FiniteSets

CONSTANTS
    Kinds,          \* the upload kinds in use
    Gens,           \* the uploads of a session; it bounds their number
    Size,           \* the declared size of each, in cells
    MaxSize,        \* cells of a staging window
    Good,           \* the uploads that are files the validator accepts
    Conns           \* connections that may carry chunks at one time

AllKinds == {"FIRMWARE", "INITRAMFS", "UBI_PRELOADER", "URSUS_FIP", "VANILLA_FIP"}

NoGen == "none"

ASSUME UploadConstants ==
    /\ Kinds \subseteq AllKinds
    /\ NoGen \notin Gens
    /\ MaxSize \in Nat
    /\ Size \in [Gens -> 1..MaxSize]
    /\ Good \subseteq Gens

\* The staging window of a kind (u->addr in ursus_begin_upload).
Window(k) ==
    CASE k \in {"FIRMWARE", "INITRAMFS"} -> "image"
      [] k = "UBI_PRELOADER" -> "preloader"
      [] OTHER -> "fip"
Windows == {"image", "preloader", "fip"}

\* The kinds whose staged bytes the upload of k will overwrite.
Sharing(k) == {j \in Kinds : Window(j) = Window(k)}

\* Every byte is covered by a hash the validator checks; of an UrsusBoot FIP
\* only the table and the BL33 are looked at.
Hashed(k) == k # "URSUS_FIP"

Cells == 1..MaxSize
Staged == [Cells -> Gens \cup {NoGen}]

VARIABLES
    sess,           \* struct ursus_upload_session of each kind
    valid,          \* ursus_img, ursus_expert_img.bootable_fit, ursus_*_valid
    win,            \* the staging windows
    conn,           \* struct ursus_conn while it carries a chunk
    bootArmed,      \* ursus_pending_expert_boot
    booted,         \* "no" while the server runs; else what was booted
    \* Bookkeeping of the model.
    used,           \* generations begun so far
    wrote,          \* cells the current upload of a kind has filled
    seen            \* the window as the validator saw it

vars == <<sess, valid, win, conn, bootArmed, booted, used, wrote, seen>>

NoSession == [gen |-> NoGen, received |-> 0, active |-> FALSE]
Idle == [kind |-> NoGen, gen |-> NoGen, off |-> 0, len |-> 0, got |-> 0]
Blank == [i \in Cells |-> NoGen]

TypeOK ==
    /\ sess \in [Kinds -> [gen : Gens \cup {NoGen}, received : 0..MaxSize, active : BOOLEAN]]
    /\ valid \in [Kinds -> BOOLEAN]
    /\ win \in [Windows -> Staged]
    /\ conn \in [Conns -> {Idle} \cup [kind : Kinds, gen : Gens, off : 0..MaxSize,
                                       len : 1..MaxSize, got : 0..MaxSize]]
    /\ bootArmed \in BOOLEAN
    /\ booted \in {"no", "validated", "other"}
    /\ used \subseteq Gens
    /\ wrote \in [Kinds -> SUBSET Cells]
    /\ seen \in [Kinds -> Staged]

Running == booted = "no"

-----------------------------------------------------------------------------
(* Requests.                                                               *)

\* Bug: the session of the kind that shares the window stays.
BeginBug(k, g) ==
    /\ Running
    /\ g \notin used
    /\ sess' = [sess EXCEPT ![k] = [gen |-> g, received |-> 0, active |-> TRUE]]
    /\ valid' = [j \in Kinds |-> IF j \in Sharing(k) THEN FALSE ELSE valid[j]]
    /\ used' = used \cup {g}
    /\ wrote' = [wrote EXCEPT ![k] = {}]
    /\ UNCHANGED <<win, conn, bootArmed, booted, seen>>

\* ursus_begin_upload: the flags of all kinds that share the window fall, the
\* session of the other one is cleared.
Begin(k, g) ==
    /\ Running
    /\ g \notin used
    /\ sess' = [j \in Kinds |->
                  IF j = k THEN [gen |-> g, received |-> 0, active |-> TRUE]
                  ELSE IF j \in Sharing(k) THEN NoSession ELSE sess[j]]
    /\ valid' = [j \in Kinds |-> IF j \in Sharing(k) THEN FALSE ELSE valid[j]]
    /\ used' = used \cup {g}
    /\ wrote' = [wrote EXCEPT ![k] = {}]
    /\ UNCHANGED <<win, conn, bootArmed, booted, seen>>

\* Bug: a chunk may leave a gap after what was received.
PrepareChunkGapBug(c, k, g, n) ==
    /\ Running
    /\ conn[c] = Idle
    /\ sess[k].active
    /\ sess[k].gen = g
    /\ \E off \in sess[k].received..MaxSize :
          /\ off + n <= Size[g]
          /\ conn' = [conn EXCEPT ![c] =
                         [kind |-> k, gen |-> g, off |-> off, len |-> n, got |-> 0]]
    /\ UNCHANGED <<sess, valid, win, bootArmed, booted, used, wrote, seen>>

\* ursus_prepare_chunk, all checks passed: the session is active, the
\* generation is its own, the offset is what it has received.
PrepareChunk(c, k, g, n) ==
    /\ Running
    /\ conn[c] = Idle
    /\ sess[k].active
    /\ sess[k].gen = g
    /\ sess[k].received + n <= Size[g]
    /\ conn' = [conn EXCEPT ![c] = [kind |-> k, gen |-> g, off |-> sess[k].received,
                                    len |-> n, got |-> 0]]
    /\ UNCHANGED <<sess, valid, win, bootArmed, booted, used, wrote, seen>>

\* Bug: the session is dropped, the flag stays.
DiscardBug(k) ==
    /\ Running
    /\ sess' = [sess EXCEPT ![k] = NoSession]
    /\ wrote' = [wrote EXCEPT ![k] = {}]
    /\ UNCHANGED <<valid, win, conn, bootArmed, booted, used, seen>>

\* POST /api/discard and its four siblings.
Discard(k) ==
    /\ Running
    /\ sess' = [sess EXCEPT ![k] = NoSession]
    /\ valid' = [valid EXCEPT ![k] = FALSE]
    /\ wrote' = [wrote EXCEPT ![k] = {}]
    /\ UNCHANGED <<win, conn, bootArmed, booted, used, seen>>

-----------------------------------------------------------------------------
(* The body of a chunk: ursus_feed_bytes.                                   *)

\* What the validator of kind k can say of the first n cells of w: they are
\* one whole file, or a mixture that no hash can match.
Verdicts(k, n, w) ==
    LET whole == {h \in Gens : Size[h] = n /\ \A i \in 1..n : w[i] = h}
    IN IF whole # {} THEN {whole \subseteq Good}
       ELSE IF Hashed(k) THEN {FALSE} ELSE BOOLEAN

\* The session was cleared or completed since: the connection is aborted.
FeedRefused(c) ==
    /\ Running
    /\ conn[c] # Idle
    /\ ~sess[conn[c].kind].active
    /\ conn' = [conn EXCEPT ![c] = Idle]
    /\ UNCHANGED <<sess, valid, win, bootArmed, booted, used, wrote, seen>>

\* Bug: bytes are stored whether or not the session is still active.
FeedBug(c) ==
    /\ Running
    /\ conn[c] # Idle
    /\ LET x == conn[c]
       IN /\ x.got + 1 < x.len
          /\ win' = [win EXCEPT ![Window(x.kind)][x.off + x.got + 1] = x.gen]
          /\ conn' = [conn EXCEPT ![c].got = x.got + 1]
    /\ UNCHANGED <<sess, valid, bootArmed, booted, used, wrote, seen>>

\* The cell a connection is about to fill, and the windows once it has.
Cell(x) == x.off + x.got + 1
Filled(x) == [win EXCEPT ![Window(x.kind)][Cell(x)] = x.gen]
WroteBy(x) ==
    IF x.gen = sess[x.kind].gen THEN [wrote EXCEPT ![x.kind] = @ \cup {Cell(x)}] ELSE wrote

\* The next byte of a chunk that is not its last one.
Feed(c) ==
    /\ Running
    /\ conn[c] # Idle
    /\ LET x == conn[c]
       IN /\ sess[x.kind].active
          /\ x.got + 1 < x.len
          /\ win' = Filled(x)
          /\ wrote' = WroteBy(x)
          /\ conn' = [conn EXCEPT ![c].got = x.got + 1]
    /\ UNCHANGED <<sess, valid, bootArmed, booted, used, seen>>

\* The last byte of a chunk.  It is stored first; then the generation is
\* compared, and the session moves on or the chunk is rejected.
FeedLast(c) ==
    /\ Running
    /\ conn[c] # Idle
    /\ LET x == conn[c]
           k == x.kind
           done == x.off + x.len
           own == x.gen = sess[k].gen
           complete == own /\ done = Size[x.gen]
       IN /\ sess[k].active
          /\ x.got + 1 = x.len
          /\ win' = Filled(x)
          /\ wrote' = WroteBy(x)
          /\ conn' = [conn EXCEPT ![c] = Idle]
          /\ sess' = IF own
                     THEN [sess EXCEPT ![k] = [gen |-> x.gen, received |-> done,
                                               active |-> ~complete]]
                     ELSE sess
          /\ IF complete
             THEN /\ \E v \in Verdicts(k, Size[x.gen], win'[Window(k)]) :
                        valid' = [valid EXCEPT ![k] = v]
                  /\ seen' = [seen EXCEPT ![k] = win'[Window(k)]]
             ELSE UNCHANGED <<valid, seen>>
    /\ UNCHANGED <<bootArmed, booted, used>>

\* The client closes the connection, or TCP gives it up.
Drop(c) ==
    /\ Running
    /\ conn[c] # Idle
    /\ conn' = [conn EXCEPT ![c] = Idle]
    /\ UNCHANGED <<sess, valid, win, bootArmed, booted, used, wrote, seen>>

-----------------------------------------------------------------------------
(* Boot once, and the life of the server.                                  *)

\* POST /api/expert/boot-once.
BootOnce ==
    /\ Running
    /\ "INITRAMFS" \in Kinds
    /\ valid["INITRAMFS"]
    /\ bootArmed' = TRUE
    /\ UNCHANGED <<sess, valid, win, conn, booted, used, wrote, seen>>

\* The reply is acknowledged: the loop ends, and bootm is called for
\* ursus_expert_img.addr, whatever became of it in between.
StopAndBoot ==
    /\ Running
    /\ bootArmed
    /\ booted' = IF valid["INITRAMFS"] THEN "validated" ELSE "other"
    /\ conn' = [c \in Conns |-> Idle]
    /\ UNCHANGED <<sess, valid, win, bootArmed, used, wrote, seen>>

\* do_ursusweb from its start, after it was stopped or has returned.
Restart ==
    /\ sess' = [k \in Kinds |-> NoSession]
    /\ valid' = [k \in Kinds |-> FALSE]
    /\ conn' = [c \in Conns |-> Idle]
    /\ bootArmed' = FALSE
    /\ booted' = "no"
    /\ wrote' = [k \in Kinds |-> {}]
    /\ UNCHANGED <<win, used, seen>>

-----------------------------------------------------------------------------
Init ==
    /\ sess = [k \in Kinds |-> NoSession]
    /\ valid = [k \in Kinds |-> FALSE]
    /\ win = [w \in Windows |-> Blank]
    /\ conn = [c \in Conns |-> Idle]
    /\ bootArmed = FALSE
    /\ booted = "no"
    /\ used = {}
    /\ wrote = [k \in Kinds |-> {}]
    /\ seen = [k \in Kinds |-> Blank]

Next ==
    \/ \E k \in Kinds, g \in Gens : Begin(k, g)
    \/ \E c \in Conns, k \in Kinds, g \in Gens, n \in Cells : PrepareChunk(c, k, g, n)
    \/ \E k \in Kinds : Discard(k)
    \/ \E c \in Conns : FeedRefused(c) \/ Feed(c) \/ FeedLast(c) \/ Drop(c)
    \/ BootOnce
    \/ StopAndBoot
    \/ Restart

Spec == Init /\ [][Next]_vars

-----------------------------------------------------------------------------
(* Properties.                                                             *)

\* A flag that is up speaks of what is in RAM now: between the run of the
\* validator and the operation that relies on it no late byte of any
\* connection, of the same or of the sharing kind, has reached the window
\* (ursus_begin_upload clears the sharing session, ursus_feed_bytes asks
\* for an active one).
ValidatedIsStaged ==
    \A k \in Kinds : valid[k] => win[Window(k)] = seen[k]

\* Two kinds that share a window are never both in use, receiving or
\* validated: the later upload has taken the window over.
WindowHasOneOwner ==
    \A j, k \in Kinds : j # k /\ Window(j) = Window(k) =>
        sess[j] = NoSession \/ sess[k] = NoSession

\* A session counts no cell as received that this very upload did not send:
\* a validator never runs over bytes an earlier file left in a gap, though
\* a late duplicate of a chunk may set the count back.
ReceivedWasSent ==
    \A k \in Kinds : 1..sess[k].received \subseteq wrote[k]

\* A flag that is up belongs to a complete upload, of a declared size that
\* was received to the last cell: what the flash operations take for the
\* length of the file (ursus_fip_upload.total) is the length validated.
ValidMeansComplete ==
    \A k \in Kinds : valid[k] =>
        /\ sess[k].gen # NoGen
        /\ ~sess[k].active
        /\ sess[k].received = Size[sess[k].gen]

-----------------------------------------------------------------------------
(* What the repository says of uploads and the code does not keep.          *)

\* README, HTTP API: "A generation mismatch invalidates the session rather
\* than silently mixing two uploads": a file that was accepted is the file
\* of one upload.
NoMixing ==
    \A k \in Kinds : valid[k] =>
        \A i \in 1..Size[sess[k].gen] : seen[k][i] = sess[k].gen

\* README, "Boot once": "A validated bootable FIT ... Boots the staged FIT
\* from RAM": bootm is called for a FIT that is validated.
BootsOnlyValidated == booted # "other"

=============================================================================
