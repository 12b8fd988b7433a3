--------------------------- MODULE UploadsProofs ---------------------------
(***************************************************************************)
(* Proofs about Uploads: a validated flag speaks of the bytes in RAM and a  *)
(* received count of bytes that were sent, for any number of uploads,       *)
(* connections and cells.                                                   *)
(***************************************************************************)
EXTENDS Uploads, TLAPS

\* A chunk on its way stays within the file it was declared for and, while
\* its upload is still the current one, all of that file up to where the
\* chunk has come to has been stored by this upload.
ChunksFit ==
    \A c \in Conns : conn[c] # Idle =>
        LET x == conn[c]
        IN /\ x.gen \in used
           /\ x.got < x.len
           /\ x.off + x.len <= Size[x.gen]
           /\ x.gen = sess[x.kind].gen => 1..(x.off + x.got) \subseteq wrote[x.kind]

\* Sessions belong to uploads that were begun.
SessionsUsed == \A k \in Kinds : sess[k].gen \in used \cup {NoGen}

\* What makes the claims inductive: a flag belongs to a finished session, and
\* of the kinds that share a window only one has a session at all, so no
\* connection has an active session through which to reach the window.
IInv ==
    /\ TypeOK
    /\ ChunksFit
    /\ SessionsUsed
    /\ WindowHasOneOwner
    /\ ReceivedWasSent
    /\ ValidMeansComplete
    /\ ValidatedIsStaged

-----------------------------------------------------------------------------
\* Every kind has one of the three windows.
LEMMA WindowType ==
  ASSUME NEW k
  PROVE  Window(k) \in Windows
  BY DEF Window, Windows

\* The size of an upload is that of a file that fits a window.
LEMMA SizeFits ==
  ASSUME NEW g \in Gens
  PROVE  Size[g] \in Nat /\ 1 <= Size[g] /\ Size[g] <= MaxSize /\ MaxSize \in Nat
  BY UploadConstants

\* What a connection that carries a chunk holds.
LEMMA ConnType ==
  ASSUME TypeOK, NEW c \in Conns, conn[c] # Idle
  PROVE  conn[c] \in [kind : Kinds, gen : Gens, off : 0..MaxSize, len : 1..MaxSize,
                      got : 0..MaxSize]
  BY DEF TypeOK

\* The heart of the argument (ursus_feed_bytes asks for an active session):
\* the window an active session writes to is no window a flag speaks of.
LEMMA ActiveIsNotValidated ==
  ASSUME TypeOK, WindowHasOneOwner, ValidMeansComplete,
         NEW k \in Kinds, sess[k].active, NEW j \in Kinds, valid[j]
  PROVE  Window(j) # Window(k)
  <1>1. sess[j].gen # NoGen /\ ~sess[j].active
    BY DEF ValidMeansComplete
  <1>2. sess[j] # NoSession /\ sess[k] # NoSession /\ j # k
    BY <1>1 DEF NoSession
  <1> QED
    BY <1>2 DEF WindowHasOneOwner

-----------------------------------------------------------------------------
\* The server starts with cleared sessions and flags (do_ursusweb).
LEMMA IInvInit == Init => IInv
  <1> SUFFICES ASSUME Init PROVE IInv
    OBVIOUS
  <1> USE DEF Init
  <1>1. TypeOK
    <2>1. Blank \in Staged
      BY DEF Blank, Staged
    <2>2. NoSession \in [gen : Gens \cup {NoGen}, received : 0..MaxSize, active : BOOLEAN]
      BY UploadConstants DEF NoSession
    <2> QED
      BY <2>1, <2>2 DEF TypeOK
  <1>2. ChunksFit /\ SessionsUsed
    BY DEF ChunksFit, SessionsUsed, NoSession
  <1>3. WindowHasOneOwner
    BY DEF WindowHasOneOwner
  <1>4. ReceivedWasSent
    BY DEF ReceivedWasSent, NoSession
  <1>5. ValidMeansComplete /\ ValidatedIsStaged
    BY DEF ValidMeansComplete, ValidatedIsStaged
  <1> QED
    BY <1>1, <1>2, <1>3, <1>4, <1>5 DEF IInv

\* ursus_begin_upload clears everything that speaks of the window.
LEMMA BeginStep ==
  ASSUME IInv, NEW k \in Kinds, NEW g \in Gens, Begin(k, g)
  PROVE  IInv'
  <1> USE DEF Begin, IInv
  <1>0. NoSession \in [gen : Gens \cup {NoGen}, received : 0..MaxSize, active : BOOLEAN]
    BY UploadConstants DEF NoSession
  <1>1. TypeOK'
    <2>1. [gen |-> g, received |-> 0, active |-> TRUE]
             \in [gen : Gens \cup {NoGen}, received : 0..MaxSize, active : BOOLEAN]
      BY UploadConstants
    <2> QED
      BY <1>0, <2>1 DEF TypeOK
  <1>2. ChunksFit'
    <2> SUFFICES ASSUME NEW c \in Conns, conn[c] # Idle
                 PROVE  LET x == conn[c]
                        IN /\ x.gen \in used'
                           /\ x.got < x.len
                           /\ x.off + x.len <= Size[x.gen]
                           /\ x.gen = sess'[x.kind].gen =>
                                1..(x.off + x.got) \subseteq wrote'[x.kind]
      BY DEF ChunksFit
    <2>1. conn[c].kind \in Kinds /\ conn[c].gen \in Gens
      BY ConnType
    <2>2. conn[c].gen # g /\ conn[c].gen # NoGen
      BY <2>1, UploadConstants DEF ChunksFit
    <2>3. CASE conn[c].kind = k
      BY <2>1, <2>2, <2>3 DEF ChunksFit
    <2>4. CASE conn[c].kind # k
      BY <2>1, <2>2, <2>4 DEF ChunksFit, NoSession, TypeOK
    <2> QED
      BY <2>3, <2>4
  <1>3. WindowHasOneOwner'
    BY DEF WindowHasOneOwner, Sharing
  <1>4. ReceivedWasSent'
    BY DEF ReceivedWasSent, NoSession, TypeOK
  <1>5. ValidMeansComplete' /\ ValidatedIsStaged'
    BY DEF ValidMeansComplete, ValidatedIsStaged, Sharing
  <1>6. SessionsUsed'
    BY DEF SessionsUsed, NoSession
  <1> QED
    BY <1>1, <1>2, <1>3, <1>4, <1>5, <1>6

\* ursus_prepare_chunk: the chunk begins where the session is.
LEMMA PrepareChunkStep ==
  ASSUME IInv, NEW c \in Conns, NEW k \in Kinds, NEW g \in Gens, NEW n \in Cells,
         PrepareChunk(c, k, g, n)
  PROVE  IInv'
  <1> DEFINE x == [kind |-> k, gen |-> g, off |-> sess[k].received, len |-> n, got |-> 0]
  <1> USE DEF PrepareChunk, IInv
  <1>0. sess[k].received \in 0..MaxSize
    BY DEF TypeOK
  <1>1. TypeOK'
    <2>1. x \in [kind : Kinds, gen : Gens, off : 0..MaxSize, len : 1..MaxSize,
                 got : 0..MaxSize]
      BY <1>0, UploadConstants DEF Cells
    <2> QED
      BY <2>1 DEF TypeOK
  <1>2. ChunksFit'
    <2> SUFFICES ASSUME NEW d \in Conns, conn'[d] # Idle
                 PROVE  LET y == conn'[d]
                        IN /\ y.gen \in used
                           /\ y.got < y.len
                           /\ y.off + y.len <= Size[y.gen]
                           /\ y.gen = sess[y.kind].gen =>
                                1..(y.off + y.got) \subseteq wrote[y.kind]
      BY DEF ChunksFit
    <2>1. CASE d = c
      <3>1. conn'[d] = x
        BY <2>1 DEF TypeOK
      <3>2. 0 < n /\ 1..(sess[k].received + 0) \subseteq wrote[k]
        BY <1>0 DEF Cells, ReceivedWasSent
      <3>3. g \in used
        BY UploadConstants DEF SessionsUsed
      <3> QED
        BY <3>1, <3>2, <3>3
    <2>2. CASE d # c
      BY <2>2 DEF ChunksFit, TypeOK
    <2> QED
      BY <2>1, <2>2
  <1>3. /\ SessionsUsed' /\ WindowHasOneOwner' /\ ReceivedWasSent'
        /\ ValidMeansComplete' /\ ValidatedIsStaged'
    BY DEF SessionsUsed, WindowHasOneOwner, ReceivedWasSent, ValidMeansComplete,
           ValidatedIsStaged
  <1> QED
    BY <1>1, <1>2, <1>3

\* The discards take the flag down with the session.
LEMMA DiscardStep ==
  ASSUME IInv, NEW k \in Kinds, Discard(k)
  PROVE  IInv'
  <1> USE DEF Discard, IInv
  <1>1. TypeOK'
    <2>1. NoSession \in [gen : Gens \cup {NoGen}, received : 0..MaxSize, active : BOOLEAN]
      BY UploadConstants DEF NoSession
    <2> QED
      BY <2>1 DEF TypeOK
  <1>2. ChunksFit'
    <2> SUFFICES ASSUME NEW c \in Conns, conn[c] # Idle
                 PROVE  LET x == conn[c]
                        IN /\ x.gen \in used
                           /\ x.got < x.len
                           /\ x.off + x.len <= Size[x.gen]
                           /\ x.gen = sess'[x.kind].gen =>
                                1..(x.off + x.got) \subseteq wrote'[x.kind]
      BY DEF ChunksFit
    <2>1. conn[c].kind \in Kinds /\ conn[c].gen # NoGen
      BY ConnType, UploadConstants
    <2> QED
      BY <2>1 DEF ChunksFit, NoSession, TypeOK
  <1>3. SessionsUsed' /\ WindowHasOneOwner'
    <2>1. \A j \in Kinds : sess'[j] = IF j = k THEN NoSession ELSE sess[j]
      BY DEF TypeOK
    <2>2. SessionsUsed'
      BY <2>1 DEF SessionsUsed, NoSession
    <2>3. WindowHasOneOwner'
      BY <2>1 DEF WindowHasOneOwner
    <2> QED
      BY <2>2, <2>3
  <1>5. ReceivedWasSent'
    BY DEF ReceivedWasSent, NoSession, TypeOK
  <1>4. ValidMeansComplete' /\ ValidatedIsStaged'
    BY DEF ValidMeansComplete, ValidatedIsStaged, TypeOK
  <1> QED
    BY <1>1, <1>2, <1>3, <1>4, <1>5

\* A connection that ends, aborted or closed, changes nothing else.
LEMMA ReleaseStep ==
  ASSUME IInv, NEW c \in Conns, FeedRefused(c) \/ Drop(c)
  PROVE  IInv'
  <1> USE DEF FeedRefused, Drop, IInv
  <1>1. TypeOK'
    BY DEF TypeOK
  <1>2. ChunksFit'
    BY DEF ChunksFit, TypeOK
  <1>3. /\ SessionsUsed' /\ WindowHasOneOwner' /\ ReceivedWasSent'
        /\ ValidMeansComplete' /\ ValidatedIsStaged'
    BY DEF SessionsUsed, WindowHasOneOwner, ReceivedWasSent, ValidMeansComplete,
           ValidatedIsStaged
  <1> QED
    BY <1>1, <1>2, <1>3

\* What a byte stored by ursus_feed_bytes changes: one cell of one window,
\* and the cells that count as sent grow.
LEMMA FilledFacts ==
  ASSUME TypeOK, ChunksFit, NEW c \in Conns, conn[c] # Idle
  PROVE  /\ Filled(conn[c]) \in [Windows -> Staged]
         /\ \A w \in Windows : w # Window(conn[c].kind) => Filled(conn[c])[w] = win[w]
         /\ WroteBy(conn[c]) \in [Kinds -> SUBSET Cells]
         /\ \A k \in Kinds : wrote[k] \subseteq WroteBy(conn[c])[k]
         /\ conn[c].gen = sess[conn[c].kind].gen =>
              1..(conn[c].off + conn[c].got + 1) \subseteq WroteBy(conn[c])[conn[c].kind]
  <1> DEFINE x == conn[c]
  <1>1. /\ x.kind \in Kinds /\ x.gen \in Gens /\ x.off \in Nat /\ x.len \in Nat
        /\ x.got \in Nat
    BY ConnType, UploadConstants
  <1>2. Cell(x) \in Cells
    BY <1>1, SizeFits DEF ChunksFit, Cell, Cells
  <1>3. Window(x.kind) \in Windows
    BY WindowType
  <1>4. Filled(x) \in [Windows -> Staged]
    BY <1>1, <1>3 DEF Filled, TypeOK, Staged
  <1>5. \A w \in Windows : w # Window(x.kind) => Filled(x)[w] = win[w]
    BY DEF Filled, TypeOK
  <1>6. /\ WroteBy(x) \in [Kinds -> SUBSET Cells]
        /\ \A k \in Kinds : wrote[k] \subseteq WroteBy(x)[k]
    BY <1>1, <1>2 DEF WroteBy, TypeOK
  <1>7. ASSUME x.gen = sess[x.kind].gen
        PROVE  1..(x.off + x.got + 1) \subseteq WroteBy(x)[x.kind]
    <2>1. 1..(x.off + x.got) \subseteq wrote[x.kind]
      BY <1>7 DEF ChunksFit
    <2>2. WroteBy(x)[x.kind] = wrote[x.kind] \cup {x.off + x.got + 1}
      BY <1>1, <1>7 DEF WroteBy, Cell, TypeOK
    <2> QED
      BY <1>1, <2>1, <2>2
  <1> QED
    BY <1>4, <1>5, <1>6, <1>7

\* A byte inside a chunk.
LEMMA FeedStep ==
  ASSUME IInv, NEW c \in Conns, Feed(c)
  PROVE  IInv'
  <1> DEFINE x == conn[c]
  <1> USE DEF IInv
  <1>1. /\ conn[c] # Idle /\ sess[x.kind].active /\ x.got + 1 < x.len
        /\ win' = Filled(x) /\ wrote' = WroteBy(x)
        /\ conn' = [conn EXCEPT ![c].got = x.got + 1]
        /\ UNCHANGED <<sess, valid, bootArmed, booted, used, seen>>
    BY DEF Feed
  <1>2. x \in [kind : Kinds, gen : Gens, off : 0..MaxSize, len : 1..MaxSize,
               got : 0..MaxSize]
    BY <1>1, ConnType
  <1>3. MaxSize \in Nat
    BY UploadConstants
  <1>4. /\ conn'[c] = [x EXCEPT !.got = x.got + 1]
        /\ conn'[c] \in [kind : Kinds, gen : Gens, off : 0..MaxSize, len : 1..MaxSize,
                         got : 0..MaxSize]
        /\ \A d \in Conns : d # c => conn'[d] = conn[d]
    BY <1>1, <1>2, <1>3 DEF TypeOK
  <1>5. TypeOK'
    BY <1>1, <1>4, FilledFacts DEF TypeOK
  <1>6. ChunksFit'
    <2> SUFFICES ASSUME NEW d \in Conns, conn'[d] # Idle
                 PROVE  LET y == conn'[d]
                        IN /\ y.gen \in used
                           /\ y.got < y.len
                           /\ y.off + y.len <= Size[y.gen]
                           /\ y.gen = sess[y.kind].gen =>
                                1..(y.off + y.got) \subseteq wrote'[y.kind]
      BY <1>1 DEF ChunksFit
    <2>1. CASE d = c
      <3>1. /\ conn'[d].gen = x.gen /\ conn'[d].kind = x.kind /\ conn'[d].off = x.off
            /\ conn'[d].len = x.len /\ conn'[d].got = x.got + 1
        BY <1>2, <1>4, <2>1
      <3>2. x.off + (x.got + 1) = x.off + x.got + 1
        BY <1>2, <1>3
      <3>3. x.gen = sess[x.kind].gen => 1..(x.off + x.got + 1) \subseteq wrote'[x.kind]
        BY <1>1, FilledFacts
      <3> QED
        BY <1>1, <3>1, <3>2, <3>3 DEF ChunksFit
    <2>2. CASE d # c
      <3>1. conn'[d] = conn[d] /\ conn[d].kind \in Kinds
        BY <1>4, <2>2, ConnType
      <3> QED
        BY <1>1, <3>1, FilledFacts DEF ChunksFit
    <2> QED
      BY <2>1, <2>2
  <1>7. SessionsUsed' /\ WindowHasOneOwner' /\ ValidMeansComplete'
    BY <1>1 DEF SessionsUsed, WindowHasOneOwner, ValidMeansComplete
  <1>8. ReceivedWasSent'
    BY <1>1, FilledFacts DEF ReceivedWasSent
  <1>9. ValidatedIsStaged'
    <2> SUFFICES ASSUME NEW j \in Kinds, valid[j]
                 PROVE  win'[Window(j)] = seen[j]
      BY <1>1 DEF ValidatedIsStaged
    <2>1. Window(j) # Window(x.kind)
      BY <1>1, <1>2, ActiveIsNotValidated
    <2> QED
      BY <1>1, <2>1, WindowType, FilledFacts DEF ValidatedIsStaged
  <1> QED
    BY <1>5, <1>6, <1>7, <1>8, <1>9

\* The last byte of a chunk: the session moves on, the validator may run.
LEMMA FeedLastStep ==
  ASSUME IInv, NEW c \in Conns, FeedLast(c)
  PROVE  IInv'
  <1> DEFINE x == conn[c]
             k == x.kind
             done == x.off + x.len
             own == x.gen = sess[k].gen
             complete == own /\ done = Size[x.gen]
  <1> USE DEF IInv
  <1>1. /\ conn[c] # Idle /\ sess[k].active /\ x.got + 1 = x.len
        /\ win' = Filled(x) /\ wrote' = WroteBy(x)
        /\ conn' = [conn EXCEPT ![c] = Idle]
        /\ UNCHANGED <<bootArmed, booted, used>>
    BY DEF FeedLast
  <1>2. sess' = IF own
                THEN [sess EXCEPT ![k] = [gen |-> x.gen, received |-> done,
                                          active |-> ~complete]]
                ELSE sess
    BY DEF FeedLast
  <1>3. IF complete
        THEN /\ \E v \in BOOLEAN : valid' = [valid EXCEPT ![k] = v]
             /\ seen' = [seen EXCEPT ![k] = win'[Window(k)]]
        ELSE UNCHANGED <<valid, seen>>
    BY DEF FeedLast, Verdicts
  <1>4. /\ k \in Kinds /\ x.gen \in Gens /\ x.off \in Nat /\ x.len \in Nat /\ x.got \in Nat
        /\ x.off + x.got + 1 = done /\ done <= Size[x.gen] /\ done \in 0..MaxSize
    <2>1. /\ k \in Kinds /\ x.gen \in Gens /\ x.off \in Nat /\ x.len \in Nat /\ x.got \in Nat
      BY <1>1, ConnType, UploadConstants
    <2>2. done <= Size[x.gen]
      BY <1>1 DEF ChunksFit
    <2> QED
      BY <1>1, <2>1, <2>2, SizeFits
  <1>5. \A j \in Kinds : j # k =>
          sess'[j] = sess[j] /\ valid'[j] = valid[j] /\ seen'[j] = seen[j]
    BY <1>2, <1>3, <1>4 DEF TypeOK
  <1>6. sess'[k].gen = sess[k].gen
    BY <1>2, <1>4 DEF TypeOK
  <1>7. TypeOK'
    <2>1. sess' \in [Kinds -> [gen : Gens \cup {NoGen}, received : 0..MaxSize,
                               active : BOOLEAN]]
      BY <1>2, <1>4 DEF TypeOK
    <2>2. win' \in [Windows -> Staged] /\ wrote' \in [Kinds -> SUBSET Cells]
      BY <1>1, FilledFacts
    <2>3. valid' \in [Kinds -> BOOLEAN] /\ seen' \in [Kinds -> Staged]
      BY <1>3, <1>4, <2>2, WindowType DEF TypeOK
    <2> QED
      BY <1>1, <2>1, <2>2, <2>3 DEF TypeOK
  <1>8. ChunksFit'
    <2> SUFFICES ASSUME NEW d \in Conns, conn'[d] # Idle
                 PROVE  LET y == conn'[d]
                        IN /\ y.gen \in used
                           /\ y.got < y.len
                           /\ y.off + y.len <= Size[y.gen]
                           /\ y.gen = sess'[y.kind].gen =>
                                1..(y.off + y.got) \subseteq wrote'[y.kind]
      BY <1>1 DEF ChunksFit
    <2>1. conn'[d] = conn[d]
      BY <1>1 DEF TypeOK
    <2>2. conn[d].kind \in Kinds
      BY <2>1, ConnType
    <2>3. sess'[conn[d].kind].gen = sess[conn[d].kind].gen
      BY <1>5, <1>6, <2>2
    <2> QED
      BY <1>1, <2>1, <2>2, <2>3, FilledFacts DEF ChunksFit
  <1>9. SessionsUsed'
    BY <1>1, <1>5, <1>6 DEF SessionsUsed
  <1>10. WindowHasOneOwner'
    <2>1. sess[k] # NoSession
      BY <1>1 DEF NoSession
    <2> QED
      BY <1>4, <1>5, <2>1 DEF WindowHasOneOwner
  <1>11. ReceivedWasSent'
    <2> SUFFICES ASSUME NEW j \in Kinds
                 PROVE  1..sess'[j].received \subseteq wrote'[j]
      BY DEF ReceivedWasSent
    <2>1. wrote[j] \subseteq wrote'[j]
      BY <1>1, FilledFacts
    <2>2. CASE j = k /\ own
      <3>1. sess'[j].received = done
        BY <1>2, <1>4, <2>2 DEF TypeOK
      <3> QED
        BY <1>1, <1>4, <2>2, <3>1, FilledFacts
    <2>3. CASE ~(j = k /\ own)
      <3>1. sess'[j] = sess[j]
        BY <1>2, <1>5, <2>3
      <3> QED
        BY <2>1, <3>1 DEF ReceivedWasSent
    <2> QED
      BY <2>2, <2>3
  <1>12. ValidMeansComplete'
    <2> SUFFICES ASSUME NEW j \in Kinds, valid'[j]
                 PROVE  /\ sess'[j].gen # NoGen
                        /\ ~sess'[j].active
                        /\ sess'[j].received = Size[sess'[j].gen]
      BY DEF ValidMeansComplete
    <2>1. CASE j = k /\ complete
      <3>1. sess'[k] = [gen |-> x.gen, received |-> done, active |-> FALSE]
        BY <1>2, <1>4, <2>1 DEF TypeOK
      <3> QED
        BY <1>4, <2>1, <3>1, UploadConstants
    <2>2. CASE j = k /\ ~complete
      BY <1>1, <1>3, <2>2 DEF ValidMeansComplete
    <2>3. CASE j # k
      BY <1>5, <2>3 DEF ValidMeansComplete
    <2> QED
      BY <2>1, <2>2, <2>3
  <1>13. ValidatedIsStaged'
    <2> SUFFICES ASSUME NEW j \in Kinds, valid'[j]
                 PROVE  win'[Window(j)] = seen'[j]
      BY DEF ValidatedIsStaged
    <2>1. CASE j = k /\ complete
      BY <1>3, <1>4, <2>1 DEF TypeOK
    <2>2. CASE ~(j = k /\ complete)
      <3>1. valid[j] /\ seen'[j] = seen[j]
        BY <1>3, <1>5, <2>2
      <3>2. Window(j) # Window(k)
        BY <1>1, <1>4, <3>1, ActiveIsNotValidated
      <3> QED
        BY <1>1, <3>1, <3>2, WindowType, FilledFacts DEF ValidatedIsStaged
    <2> QED
      BY <2>1, <2>2
  <1> QED
    BY <1>7, <1>8, <1>9, <1>10, <1>11, <1>12, <1>13

\* Boot once, the end of the server and its next start.
LEMMA LifeStep ==
  ASSUME IInv, BootOnce \/ StopAndBoot \/ Restart
  PROVE  IInv'
  <1> USE DEF IInv
  <1>1. CASE BootOnce
    BY <1>1 DEF BootOnce, TypeOK, ChunksFit, SessionsUsed, WindowHasOneOwner,
                ReceivedWasSent, ValidMeansComplete, ValidatedIsStaged
  <1>2. CASE StopAndBoot
    <2>1. TypeOK' /\ ChunksFit'
      BY <1>2 DEF StopAndBoot, TypeOK, ChunksFit
    <2>2. /\ SessionsUsed' /\ WindowHasOneOwner' /\ ReceivedWasSent'
          /\ ValidMeansComplete' /\ ValidatedIsStaged'
      BY <1>2 DEF StopAndBoot, SessionsUsed, WindowHasOneOwner, ReceivedWasSent,
                  ValidMeansComplete, ValidatedIsStaged
    <2> QED
      BY <2>1, <2>2
  <1>3. CASE Restart
    <2>1. NoSession \in [gen : Gens \cup {NoGen}, received : 0..MaxSize, active : BOOLEAN]
      BY UploadConstants DEF NoSession
    <2>2. TypeOK' /\ ChunksFit'
      BY <1>3, <2>1 DEF Restart, TypeOK, ChunksFit
    <2>3. SessionsUsed' /\ WindowHasOneOwner' /\ ReceivedWasSent'
      BY <1>3 DEF Restart, SessionsUsed, WindowHasOneOwner, ReceivedWasSent, NoSession
    <2>4. ValidMeansComplete' /\ ValidatedIsStaged'
      BY <1>3 DEF Restart, ValidMeansComplete, ValidatedIsStaged
    <2> QED
      BY <2>2, <2>3, <2>4
  <1> QED
    BY <1>1, <1>2, <1>3

\* Every step keeps the inductive invariant.
LEMMA IInvStep == IInv /\ [Next]_vars => IInv'
  <1> SUFFICES ASSUME IInv, [Next]_vars PROVE IInv'
    OBVIOUS
  <1>1. ASSUME NEW k \in Kinds, NEW g \in Gens, Begin(k, g) PROVE IInv'
    BY <1>1, BeginStep
  <1>2. ASSUME NEW c \in Conns, NEW k \in Kinds, NEW g \in Gens, NEW n \in Cells,
               PrepareChunk(c, k, g, n)
        PROVE  IInv'
    BY <1>2, PrepareChunkStep
  <1>3. ASSUME NEW k \in Kinds, Discard(k) PROVE IInv'
    BY <1>3, DiscardStep
  <1>4. ASSUME NEW c \in Conns, FeedRefused(c) \/ Feed(c) \/ FeedLast(c) \/ Drop(c)
        PROVE  IInv'
    BY <1>4, ReleaseStep, FeedStep, FeedLastStep
  <1>5. CASE BootOnce \/ StopAndBoot \/ Restart
    BY <1>5, LifeStep
  <1>6. CASE UNCHANGED vars
    BY <1>6 DEF vars, IInv, TypeOK, ChunksFit, SessionsUsed, WindowHasOneOwner,
                ReceivedWasSent, ValidMeansComplete, ValidatedIsStaged
  <1> QED
    BY <1>1, <1>2, <1>3, <1>4, <1>5, <1>6 DEF Next

-----------------------------------------------------------------------------
\* IInv is an invariant of the upload server, however many uploads and
\* connections are interleaved.
THEOREM Inductive == Spec => []IInv
  BY IInvInit, IInvStep, PTL DEF Spec

\* Sessions, chunks and windows keep their types: no chunk reaches beyond the
\* declared size of its file, nor beyond the window.
THEOREM TypeCorrect == Spec => []TypeOK
  <1>1. IInv => TypeOK
    BY DEF IInv
  <1> QED
    BY Inductive, <1>1, PTL

\* A flag the flash operations ask for speaks of the bytes in RAM now: after
\* its validator ran, ursus_feed_bytes has stored nothing into the window.
THEOREM FlagSpeaksOfRam == Spec => []ValidatedIsStaged
  <1>1. IInv => ValidatedIsStaged
    BY DEF IInv
  <1> QED
    BY Inductive, <1>1, PTL

\* The kinds that share a staging window never hold sessions at one time
\* (ursus_begin_upload clears the other one).
THEOREM OneOwner == Spec => []WindowHasOneOwner
  <1>1. IInv => WindowHasOneOwner
    BY DEF IInv
  <1> QED
    BY Inductive, <1>1, PTL

\* What a session counts as received this upload has stored, also when
\* ursus_feed_bytes sees duplicated chunks or chunks of an older upload.
THEOREM NoGaps == Spec => []ReceivedWasSent
  <1>1. IInv => ReceivedWasSent
    BY DEF IInv
  <1> QED
    BY Inductive, <1>1, PTL

\* A flag belongs to an upload of which every byte of the declared size was
\* received.
THEOREM FlagIsComplete == Spec => []ValidMeansComplete
  <1>1. IInv => ValidMeansComplete
    BY DEF IInv
  <1> QED
    BY Inductive, <1>1, PTL

=============================================================================
