------------------------- MODULE LocalJsonlWalProofs -------------------------
(***************************************************************************)
(* Theorems about LocalJsonlWal, for every value of its constants.         *)
(***************************************************************************)
EXTENDS LocalJsonlWal, SequenceTheorems, WellFoundedInduction, TLAPS

-----------------------------------------------------------------------------
(* Sequences and sets of segment numbers.                                  *)

(* A non-empty set of segment numbers has a largest member.                *)
LEMMA HasMaximum ==
  ASSUME NEW n \in Nat, NEW S \in SUBSET (1..n), S # {}
  PROVE  \E m \in S : \A k \in S : k <= m
<1> DEFINE Above == {u \in Nat : \A k \in S : k <= u}
           R == OpToRel(<, Nat)
<1>1. n \in Above
  OBVIOUS
<1>2. IsWellFoundedOn(R, Nat)
  BY NatLessThanWellFounded
<1>3. PICK u \in Above : \A y \in Above : ~(<<y, u>> \in R)
  <2> HIDE DEF R
  <2> QED
    BY <1>1, <1>2, WFMin
<1>4. \A y \in Above : ~(y < u)
  BY <1>3 DEF OpToRel
<1>5. CASE u \in S
  BY <1>5
<1>6. CASE u \notin S
  <2>1. PICK k \in S : TRUE
    OBVIOUS
  <2>2. u \in Nat /\ u # 0
    BY <2>1
  <2>3. \A j \in S : j <= u - 1
    BY <1>6, <2>2
  <2>4. u - 1 \in Above
    BY <2>2, <2>3
  <2> QED
    BY <2>2, <2>4, <1>4
<1> QED
  BY <1>5, <1>6

(* Replacing one element of a sequence, in its domain or not, keeps the    *)
(* sequence's type, its length and its other elements.                     *)
LEMMA ReplaceProperties ==
  ASSUME NEW S, NEW s \in Seq(S), NEW i, NEW x \in S
  PROVE  /\ [s EXCEPT ![i] = x] \in Seq(S)
         /\ Len([s EXCEPT ![i] = x]) = Len(s)
         /\ DOMAIN [s EXCEPT ![i] = x] = DOMAIN s
         /\ \A j \in DOMAIN s :
              [s EXCEPT ![i] = x][j] = IF j = i THEN x ELSE s[j]
<1>1. CASE i \in 1..Len(s)
  BY <1>1, ExceptSeq
<1>2. CASE i \notin 1..Len(s)
  <2>1. [s EXCEPT ![i] = x] = s
    BY <1>2
  <2> QED
    BY <1>2, <2>1
<1> QED
  BY <1>1, <1>2

(* Saving metadata keeps the metadata files well typed, whichever segment. *)
LEMMA SaveMetadataType ==
  ASSUME metas \in Seq(Metas), NEW i \in Nat, NEW m \in Metas, SaveMetadata(i, m)
  PROVE  metas' \in Seq(Metas)
<1>1. CASE i \in DOMAIN metas
  BY <1>1, ReplaceProperties DEF SaveMetadata
<1>2. CASE i \notin DOMAIN metas
  BY <1>2 DEF SaveMetadata
<1> QED
  BY <1>1, <1>2

(* Writing to the active segment keeps the JSONL files well typed.         *)
LEMMA WriteType ==
  ASSUME TypeOK, NEW e \in Events, NEW form \in Forms, WriteToActive(e, form)
  PROVE  files' \in Seq(Seq(Writes)) /\ written' \in Nat
<1> DEFINE w == [off |-> nextOff, ev |-> e, form |-> form]
           f == Append(files[cur], w)
<1>1. w \in Writes
  BY DEF TypeOK, Writes
<1>2. CASE cur \in DOMAIN files
  <2>1. f \in Seq(Writes)
    BY <1>1, <1>2 DEF TypeOK
  <2>2. files' = [files EXCEPT ![cur] = f]
    BY DEF WriteToActive
  <2>3. files' \in Seq(Seq(Writes))
    BY <2>1, <2>2, ReplaceProperties DEF TypeOK
  <2> QED
    BY <2>3 DEF WriteToActive, TypeOK
<1>3. CASE cur \notin DOMAIN files
  <2>1. files' = [files EXCEPT ![cur] = f] /\ written' = written + 1
    BY DEF WriteToActive
  <2> HIDE DEF f
  <2>2. files \in Seq(Seq(Writes)) /\ written \in Nat
    BY DEF TypeOK
  <2>3. files' = files
    BY <1>3, <2>1, <2>2
  <2>4. files' \in Seq(Seq(Writes))
    BY <2>2, <2>3, Zenon
  <2>5. written' \in Nat
    BY <2>1, <2>2
  <2> QED
    BY <2>4, <2>5
<1> QED
  BY <1>2, <1>3

(* The elements of a JSONL file.                                           *)
LEMMA FileElements ==
  ASSUME files \in Seq(Seq(Writes)), NEW i \in DOMAIN files
  PROVE  /\ files[i] \in Seq(Writes)
         /\ Len(files[i]) \in Nat
         /\ DOMAIN files[i] = 1..Len(files[i])
         /\ files[i] # <<>> <=> Len(files[i]) > 0
         /\ \A j \in DOMAIN files[i] :
              files[i][j] \in Writes /\ files[i][j].off \in Nat
<1>1. files[i] \in Seq(Writes)
  BY ElementOfSeq, LenProperties
<1>2. ASSUME NEW j \in DOMAIN files[i]
      PROVE  files[i][j] \in Writes /\ files[i][j].off \in Nat
  <2>1. files[i][j] \in Writes
    BY <1>1, <1>2, ElementOfSeq, LenProperties
  <2> QED
    BY <2>1 DEF Writes
<1>3. files[i] # <<>> <=> Len(files[i]) > 0
  BY <1>1, EmptySeq
<1> QED
  BY <1>1, <1>2, <1>3, LenProperties

(* What open() reads from the disk has the types memory needs.             *)
LEMMA OpenReads ==
  ASSUME TypeOK
  PROVE  /\ SealedNextOffset \in Nat
         /\ \A i \in DOMAIN files :
              /\ Recovered(files[i]).first \in Nat
              /\ Recovered(files[i]).count \in Nat
              /\ files[i] # <<>> => files[i][Len(files[i])].off \in Nat
<1>1. SealedNextOffset \in Nat
  <2>1. CASE SealedSegments = {}
    BY <2>1 DEF SealedNextOffset
  <2>2. CASE SealedSegments # {}
    <3> DEFINE s == CHOOSE i \in SealedSegments : \A k \in SealedSegments : k <= i
    <3>1. SealedNextOffset =
            IF metas[s].count = 0 THEN 0 ELSE metas[s].first + metas[s].count
      BY <2>2 DEF SealedNextOffset
    <3>2. \E i \in SealedSegments : \A k \in SealedSegments : k <= i
      <4>1. Len(metas) \in Nat /\ SealedSegments \in SUBSET (1..Len(metas))
        BY DEF SealedSegments, TypeOK
      <4> QED
        BY <4>1, <2>2, HasMaximum
    <3>3. s \in DOMAIN metas
      BY <3>2 DEF SealedSegments
    <3>4. metas[s] \in Metas
      BY <3>3 DEF TypeOK
    <3> QED
      BY <3>1, <3>4 DEF Metas
  <2> QED
    BY <2>1, <2>2
<1>2. ASSUME NEW i \in DOMAIN files
      PROVE  /\ Recovered(files[i]).first \in Nat
             /\ Recovered(files[i]).count \in Nat
             /\ files[i] # <<>> => files[i][Len(files[i])].off \in Nat
  <2>4. Len(files[i]) \in Nat
    BY FileElements DEF TypeOK
  <2>5. files[i] # <<>> => files[i][1].off \in Nat /\ files[i][Len(files[i])].off \in Nat
    BY FileElements DEF TypeOK
  <2>6. Recovered(files[i]).first \in Nat
    <3>1. Recovered(files[i]).first = IF files[i] = <<>> THEN 0 ELSE files[i][1].off
      BY DEF Recovered
    <3> QED
      BY <3>1, <2>5
  <2>7. Recovered(files[i]).count \in Nat
    BY <2>4 DEF Recovered
  <2> QED
    BY <2>5, <2>6, <2>7
<1> QED
  BY <1>1, <1>2

(* Metadata rebuilt from memory is well typed.                             *)
LEMMA MemoryMetas ==
  ASSUME TypeOK
  PROVE  CurrentMeta \in Metas /\ SealedMeta \in Metas
  BY DEF TypeOK, CurrentMeta, SealedMeta, Metas

(* A record append() is about to return, or has returned, is well typed.   *)
LEMMA RecordType ==
  ASSUME TypeOK, NEW e \in Events
  PROVE  {[off |-> nextOff, ev |-> e]} \in SUBSET Records
  BY DEF TypeOK, Records

-----------------------------------------------------------------------------
(* Type correctness.                                                       *)

LEMMA InitType == Init => TypeOK
<1> SUFFICES ASSUME Init PROVE TypeOK
  OBVIOUS
<1>1. <<>> \in Seq(Seq(Writes)) /\ <<>> \in Seq(Metas)
  BY EmptySeq
<1>2. files \in Seq(Seq(Writes)) /\ metas \in Seq(Metas)
  BY <1>1 DEF Init
<1> QED
  BY <1>2 DEF Init, TypeOK

LEMMA NextType == TypeOK /\ [Next]_vars => TypeOK'
<1> SUFFICES ASSUME TypeOK, [Next]_vars PROVE TypeOK'
  OBVIOUS
<1>1. CASE OpenResume
  <2>1. PICK i \in OpenSegments :
          /\ cur' = i
          /\ first' = Recovered(files[i]).first
          /\ count' = Recovered(files[i]).count
          /\ nextOff' = IF files[i] = <<>>
                        THEN SealedNextOffset
                        ELSE files[i][Len(files[i])].off + 1
    BY <1>1 DEF OpenResume
  <2>2. i \in DOMAIN files /\ i \in Nat
    BY <1>1 DEF OpenResume, DiskValid, OpenSegments, TypeOK
  <2>3. cur' \in Nat /\ first' \in Nat /\ count' \in Nat
    BY <2>1, <2>2, OpenReads
  <2>4. nextOff' \in Nat
    <3>1. CASE files[i] = <<>>
      BY <3>1, <2>1, OpenReads
    <3>2. CASE files[i] # <<>>
      <4>1. files[i][Len(files[i])].off \in Nat
        BY <3>2, <2>2, OpenReads
      <4> QED
        BY <3>2, <4>1, <2>1
    <3> QED
      BY <3>1, <3>2
  <2> QED
    BY <1>1, <2>3, <2>4 DEF OpenResume, TypeOK
<1>2. CASE OpenNew
  <2>1. files' \in Seq(Seq(Writes))
    BY <1>2 DEF OpenNew, TypeOK
  <2>2. nextOff' \in Nat
    BY <1>2, OpenReads DEF OpenNew
  <2> QED
    BY <1>2, <2>1, <2>2 DEF OpenNew, TypeOK
<1>3. CASE OpenRefused
  BY <1>3 DEF OpenRefused, TypeOK, memory
<1>4. CASE BootMeta
  <2>1. metas' \in Seq(Metas)
    BY <1>4, SaveMetadataType, MemoryMetas DEF BootMeta, TypeOK
  <2> QED
    BY <1>4, <2>1 DEF BootMeta, TypeOK, memory
<1>5. CASE BootMetaFails
  <2>1. metas' \in Seq(Metas)
    BY <1>5, SaveMetadataType, MemoryMetas DEF BootMetaFails, SaveMetadataFails, TypeOK
  <2> QED
    BY <1>5, <2>1 DEF BootMetaFails, TypeOK
<1>6. CASE Close
  BY <1>6 DEF Close, TypeOK
<1>7. CASE Crash
  BY <1>7 DEF Crash, TypeOK
<1>8. ASSUME NEW e \in Events, AppendLine(e) PROVE TypeOK'
  <2>1. files' \in Seq(Seq(Writes)) /\ written' \in Nat
    BY <1>8, WriteType DEF AppendLine, Forms
  <2>2. pending' \in SUBSET Records
    BY <1>8, RecordType DEF AppendLine
  <2>3. nextOff' \in Nat /\ count' \in Nat /\ first' \in Nat
    BY <1>8 DEF AppendLine, TypeOK
  <2> QED
    BY <1>8, <2>1, <2>2, <2>3 DEF AppendLine, TypeOK
<1>9. ASSUME NEW e \in Events, AppendLineFails(e) PROVE TypeOK'
  <2>1. files' \in Seq(Seq(Writes)) /\ written' \in Nat
    BY <1>9, WriteType DEF AppendLineFails, Forms
  <2> QED
    BY <1>9, <2>1 DEF AppendLineFails, TypeOK, memory
<1>10. ASSUME NEW e \in Events, NEW form \in {"cut", "partial"}, CrashInAppend(e, form)
       PROVE  TypeOK'
  <2>1. files' \in Seq(Seq(Writes)) /\ written' \in Nat
    BY <1>10, WriteType DEF CrashInAppend, Forms
  <2> QED
    BY <1>10, <2>1 DEF CrashInAppend, TypeOK
<1>11. CASE SaveAppendMeta
  <2>1. metas' \in Seq(Metas)
    BY <1>11, SaveMetadataType, MemoryMetas DEF SaveAppendMeta, TypeOK
  <2> QED
    BY <1>11, <2>1 DEF SaveAppendMeta, Return, TypeOK, memory
<1>12. CASE SaveAppendMetaFails
  <2>1. metas' \in Seq(Metas)
    BY <1>12, SaveMetadataType, MemoryMetas
       DEF SaveAppendMetaFails, SaveMetadataFails, TypeOK
  <2> QED
    BY <1>12, <2>1 DEF SaveAppendMetaFails, Raise, TypeOK, memory
<1>13. CASE DoSeal
  <2>1. metas' \in Seq(Metas)
    BY <1>13, SaveMetadataType, MemoryMetas DEF DoSeal, TypeOK
  <2> QED
    BY <1>13, <2>1 DEF DoSeal, TypeOK
<1>14. CASE SealFlushFails
  BY <1>14 DEF SealFlushFails, Raise, TypeOK
<1>15. CASE SealMetaFails
  <2>1. metas' \in Seq(Metas)
    BY <1>15, SaveMetadataType, MemoryMetas
       DEF SealMetaFails, SaveMetadataFails, TypeOK
  <2> QED
    BY <1>15, <2>1 DEF SealMetaFails, Raise, TypeOK
<1>16. CASE NewFile
  <2>1. files' \in Seq(Seq(Writes)) /\ cur' \in Nat
    BY <1>16 DEF NewFile, TypeOK
  <2> QED
    BY <1>16, <2>1 DEF NewFile, TypeOK
<1>17. CASE NewFileFails
  BY <1>17 DEF NewFileFails, Raise, TypeOK
<1>18. CASE NewMeta
  <2>1. metas' \in Seq(Metas)
    BY <1>18, SaveMetadataType, MemoryMetas DEF NewMeta, TypeOK
  <2> QED
    BY <1>18, <2>1 DEF NewMeta, Return, TypeOK, memory
<1>19. CASE NewMetaFails
  <2>1. metas' \in Seq(Metas)
    BY <1>19, SaveMetadataType, MemoryMetas
       DEF NewMetaFails, SaveMetadataFails, TypeOK
  <2> QED
    BY <1>19, <2>1 DEF NewMetaFails, Raise, TypeOK, memory
<1>20. CASE UNCHANGED vars
  BY <1>20 DEF vars, TypeOK
<1> QED
  BY <1>1, <1>2, <1>3, <1>4, <1>5, <1>6, <1>7, <1>8, <1>9, <1>10, <1>11, <1>12,
     <1>13, <1>14, <1>15, <1>16, <1>17, <1>18, <1>19, <1>20
     DEF Next, SealCurrentSegment, RolloverSeal

(* Every reachable state of the WAL, whatever faults the environment has   *)
(* and however the caller seals, is well typed: recovery always rebuilds   *)
(* offsets, counts and metadata that are natural numbers.                  *)
THEOREM TypeCorrect == Spec => []TypeOK
  BY InitType, NextType, PTL DEF Spec

-----------------------------------------------------------------------------
(* What the three disk effects do to the sequences of files and metadata.  *)

LEMMA DiskShape ==
  ASSUME TypeOK
  PROVE  /\ Len(files) \in Nat /\ DOMAIN files = 1..Len(files)
         /\ files = <<>> <=> Len(files) = 0
         /\ Len(metas) \in Nat /\ DOMAIN metas = 1..Len(metas)
         /\ \A i \in DOMAIN metas :
              /\ metas[i].first \in Nat /\ metas[i].count \in Nat
              /\ metas[i].status \in {"OPEN", "SEALED"}
<1>1. files \in Seq(Seq(Writes)) /\ metas \in Seq(Metas)
  BY DEF TypeOK
<1>2. ASSUME NEW i \in DOMAIN metas PROVE metas[i] \in Metas
  BY <1>1, <1>2, ElementOfSeq, LenProperties
<1>3. ASSUME NEW i \in DOMAIN metas
      PROVE  /\ metas[i].first \in Nat /\ metas[i].count \in Nat
             /\ metas[i].status \in {"OPEN", "SEALED"}
  BY <1>2, <1>3 DEF Metas
<1>4. files = <<>> <=> Len(files) = 0
  BY <1>1, EmptySeq
<1> QED
  BY <1>1, <1>3, <1>4, LenProperties

(* A write extends the active file and leaves the others alone.            *)
LEMMA WriteEffect ==
  ASSUME TypeOK, NEW w \in Writes, cur \in DOMAIN files,
         files' = [files EXCEPT ![cur] = Append(@, w)]
  PROVE  /\ Len(files') = Len(files) /\ DOMAIN files' = DOMAIN files
         /\ \A i \in DOMAIN files : i # cur => files'[i] = files[i]
         /\ Len(files'[cur]) = Len(files[cur]) + 1
         /\ DOMAIN files'[cur] = 1..(Len(files[cur]) + 1)
         /\ \A j \in 1..Len(files[cur]) : files'[cur][j] = files[cur][j]
         /\ files'[cur][Len(files[cur]) + 1] = w
         /\ files'[cur] # <<>>
<1> DEFINE S == Seq(Writes)
           f == files[cur]
           g == Append(f, w)
<1>1. f \in Seq(Writes) /\ Len(f) \in Nat
  BY FileElements DEF TypeOK
<1>2. /\ g \in Seq(Writes) /\ Len(g) = Len(f) + 1 /\ g # <<>>
      /\ DOMAIN g = 1..(Len(f) + 1)
      /\ \A j \in 1..Len(f) : g[j] = f[j]
      /\ g[Len(f) + 1] = w
  <2> HIDE DEF f
  <2> QED
    BY <1>1
<1>3. files \in Seq(S) /\ g \in S
  BY <1>2 DEF TypeOK
<1>4. files' = [files EXCEPT ![cur] = g]
  OBVIOUS
<1> HIDE DEF S, g
<1>5. /\ Len(files') = Len(files) /\ DOMAIN files' = DOMAIN files
      /\ \A i \in DOMAIN files : files'[i] = IF i = cur THEN g ELSE files[i]
  <2> DEFINE h == [files EXCEPT ![cur] = g]
  <2>1. /\ Len(h) = Len(files) /\ DOMAIN h = DOMAIN files
        /\ \A i \in DOMAIN files : h[i] = IF i = cur THEN g ELSE files[i]
    BY ONLY <1>3, ReplaceProperties
  <2> HIDE DEF h
  <2>2. files' = h
    BY <1>4 DEF h
  <2> QED
    BY <2>1, <2>2, Zenon
<1> QED
  BY <1>2, <1>5

(* Creating a JSONL file adds an empty one at the end.                     *)
LEMMA NewFileEffect ==
  ASSUME TypeOK, files' = Append(files, <<>>)
  PROVE  /\ Len(files') = Len(files) + 1 /\ DOMAIN files' = 1..(Len(files) + 1)
         /\ \A i \in DOMAIN files : files'[i] = files[i]
         /\ files'[Len(files) + 1] = <<>>
<1> DEFINE S == Seq(Writes)
           e == <<>>
<1>1. files \in Seq(S) /\ e \in S
  BY EmptySeq DEF TypeOK
<1>2. files' = Append(files, e)
  OBVIOUS
<1> HIDE DEF S, e
<1>3. /\ files' \in Seq(S) /\ Len(files') = Len(files) + 1
      /\ \A i \in 1..Len(files) : files'[i] = files[i]
      /\ files'[Len(files) + 1] = e
  BY <1>1, <1>2, AppendProperties
<1>4. DOMAIN files = 1..Len(files) /\ DOMAIN files' = 1..Len(files')
  BY <1>1, <1>3, LenProperties
<1> QED
  BY <1>3, <1>4 DEF e

(* Saving the last segment's metadata changes no other segment's.          *)
LEMMA SaveEffect ==
  ASSUME TypeOK, cur = Len(files), cur > 0, NEW m \in Metas,
         Len(metas) <= Len(files), Len(files) <= Len(metas) + 1,
         SaveMetadata(cur, m)
  PROVE  /\ Len(metas') = Len(files) /\ DOMAIN metas' = DOMAIN files
         /\ metas'[cur] = m
         /\ \A i \in DOMAIN metas' : i # cur =>
              i \in DOMAIN metas /\ metas'[i] = metas[i]
<1>1. metas \in Seq(Metas)
  BY DEF TypeOK
<1>2. CASE cur \in DOMAIN metas
  <2>1. metas' = [metas EXCEPT ![cur] = m]
    BY <1>2 DEF SaveMetadata
  <2>2. Len(metas) = Len(files)
    BY <1>2, DiskShape
  <2> QED
    BY <1>1, <1>2, <2>1, <2>2, ReplaceProperties, DiskShape
<1>3. CASE cur \notin DOMAIN metas
  <2>1. metas' = Append(metas, m)
    BY <1>3 DEF SaveMetadata
  <2>2. Len(files) = Len(metas) + 1
    BY <1>3, DiskShape
  <2> QED
    BY <1>1, <2>1, <2>2, AppendProperties, LenProperties, DiskShape
<1> QED
  BY <1>2, <1>3

-----------------------------------------------------------------------------
(* Offsets and records under the disk effects.                             *)

(* Offsets stay in order when the next one is written to the last file.    *)
LEMMA OrderAfterWrite ==
  ASSUME TypeOK, OffsetsInOrder, cur = Len(files), cur > 0, nextOff = DiskEnd,
         NEW w \in Writes, w.off = nextOff,
         files' = [files EXCEPT ![cur] = Append(@, w)]
  PROVE  /\ OffsetsInOrder'
         /\ DiskEnd' = nextOff + 1
         /\ files'[cur][1].off =
              IF files[cur] = <<>> THEN nextOff ELSE files[cur][1].off
<1> DEFINE n == Len(files[cur])
           top == Len(files)
<1>1. /\ cur \in DOMAIN files /\ top \in Nat /\ DOMAIN files = 1..top
      /\ files # <<>> /\ nextOff \in Nat
  BY DiskShape DEF TypeOK
<1>2. /\ Len(files') = top /\ DOMAIN files' = DOMAIN files
      /\ \A i \in DOMAIN files : i # cur => files'[i] = files[i]
      /\ Len(files'[cur]) = n + 1
      /\ DOMAIN files'[cur] = 1..(n + 1)
      /\ \A j \in 1..n : files'[cur][j] = files[cur][j]
      /\ files'[cur][n + 1] = w
      /\ files'[cur] # <<>>
  BY <1>1, WriteEffect
<1>3. \A i \in DOMAIN files :
        /\ Len(files[i]) \in Nat /\ DOMAIN files[i] = 1..Len(files[i])
        /\ files[i] # <<>> <=> Len(files[i]) > 0
        /\ \A j \in DOMAIN files[i] : files[i][j].off \in Nat
  BY FileElements DEF TypeOK
<1>4. n \in Nat /\ (files[cur] = <<>> <=> n = 0)
  BY <1>1, <1>3
<1>5. files'[cur][1].off =
        IF files[cur] = <<>> THEN nextOff ELSE files[cur][1].off
  BY <1>2, <1>4
<1>6. files[cur] # <<>> => nextOff = files[cur][1].off + n
  BY <1>1 DEF DiskEnd, End
<1>7. files[cur] = <<>> => nextOff = IF cur = 1 THEN 0 ELSE End(cur - 1)
  BY <1>1 DEF DiskEnd
<1>8. nextOff = files'[cur][1].off + n
  BY <1>1, <1>4, <1>5, <1>6
<1>9. files'[cur][1].off \in Nat
  BY <1>1, <1>3, <1>4, <1>5
<1>10. DiskEnd' = nextOff + 1
  <2>1. DiskEnd' = files'[cur][1].off + Len(files'[cur])
    <3>1. files' # <<>>
      BY <1>1, <1>2
    <3> QED
      BY <1>2, <3>1 DEF DiskEnd, End
  <2> DEFINE a == files'[cur][1].off
  <2>2. DiskEnd' = a + (n + 1) /\ nextOff = a + n /\ a \in Nat /\ n \in Nat
    BY <1>2, <1>4, <1>8, <1>9, <2>1
  <2> HIDE DEF a, n
  <2> QED
    BY <2>2
<1> HIDE DEF n, top
<1>11. ASSUME NEW i \in DOMAIN files', NEW j \in DOMAIN files'[i]
       PROVE  files'[i][j].off = files'[i][1].off + j - 1
  <2>1. CASE i # cur
    BY <1>2, <1>11, <2>1 DEF OffsetsInOrder
  <2>2. CASE i = cur /\ j \in 1..n
    <3>1. 1 \in 1..n /\ files[cur] # <<>>
      BY <1>4, <2>2
    <3>2. files'[i][j] = files[i][j] /\ files'[i][1] = files[i][1]
      BY <1>2, <2>2, <3>1
    <3>3. j \in DOMAIN files[i]
      BY <1>1, <1>3, <2>2 DEF n
    <3> QED
      BY <1>1, <2>2, <3>2, <3>3 DEF OffsetsInOrder
  <2>3. CASE i = cur /\ j = n + 1
    BY <1>2, <1>4, <1>8, <1>9, <2>3
  <2> QED
    BY <1>2, <1>4, <1>11, <2>1, <2>2, <2>3
<1>12. \A i \in DOMAIN files' : i < Len(files') => files'[i] # <<>>
  BY <1>1, <1>2 DEF OffsetsInOrder, top
<1>13. files'[1][1].off = 0
  <2>1. CASE cur = 1
    <3>1. files[1] # <<>> => files[1][1].off = 0
      BY <1>1 DEF OffsetsInOrder
    <3> QED
      BY <1>5, <1>7, <2>1, <3>1
  <2>2. CASE cur # 1
    <3>1. 1 \in DOMAIN files /\ 1 < Len(files) /\ 1 # cur
      BY <1>1, <2>2
    <3>2. files[1] # <<>> /\ files'[1] = files[1]
      BY <1>2, <3>1 DEF OffsetsInOrder
    <3> QED
      BY <1>1, <3>2 DEF OffsetsInOrder
  <2> QED
    BY <2>1, <2>2
<1>14. ASSUME NEW i \in DOMAIN files', i > 1, files'[i] # <<>>
       PROVE  files'[i][1].off = End(i - 1)'
  <2>1. i \in DOMAIN files /\ i - 1 \in DOMAIN files /\ i - 1 # cur
    BY <1>1, <1>2, <1>14
  <2>2. End(i - 1)' = End(i - 1)
    BY <1>2, <2>1 DEF End
  <2>3. CASE i = cur
    <3>1. CASE files[cur] = <<>>
      BY <1>5, <1>7, <1>14, <2>2, <2>3, <3>1
    <3>2. CASE files[cur] # <<>>
      BY <1>5, <1>14, <2>1, <2>2, <2>3, <3>2 DEF OffsetsInOrder
    <3> QED
      BY <3>1, <3>2
  <2>4. CASE i # cur
    <3>1. files'[i] = files[i]
      BY <1>2, <2>1, <2>4
    <3> QED
      BY <1>14, <2>1, <2>2, <3>1 DEF OffsetsInOrder
  <2> QED
    BY <2>3, <2>4
<1>15. ASSUME NEW i \in DOMAIN files', NEW k \in DOMAIN files', i < k, files'[k] # <<>>
       PROVE  End(i)' <= files'[k][1].off
  <2>1. i \in DOMAIN files /\ k \in DOMAIN files /\ i # cur /\ i < Len(files)
    BY <1>1, <1>2, <1>15 DEF top
  <2>2. End(i)' = End(i) /\ files[i] # <<>> /\ End(i) \in Int
    BY <1>2, <1>3, <2>1 DEF End, OffsetsInOrder
  <2>3. CASE files[k] # <<>>
    <3>1. files'[k][1].off = files[k][1].off
      BY <1>2, <1>5, <2>1, <2>3
    <3> QED
      BY <1>15, <2>1, <2>2, <2>3, <3>1 DEF OffsetsInOrder
  <2>4. CASE files[k] = <<>>
    <3>1. k = cur
      BY <1>2, <1>15, <2>1, <2>4
    <3>2. files'[k][1].off = End(k - 1)
      BY <1>1, <1>5, <1>7, <1>15, <2>1, <2>4, <3>1
    <3>3. CASE i = k - 1
      BY <2>2, <3>2, <3>3
    <3>4. CASE i < k - 1
      <4>1. k - 1 \in DOMAIN files /\ k - 1 < Len(files)
        BY <1>1, <1>15, <2>1, <3>4
      <4>2. files[k - 1] # <<>>
        BY <4>1 DEF OffsetsInOrder
      <4>3. End(i) <= files[k - 1][1].off
        BY <2>1, <3>4, <4>1, <4>2 DEF OffsetsInOrder
      <4>4. files[k - 1][1].off <= End(k - 1) /\ End(k - 1) \in Int
            /\ files[k - 1][1].off \in Int
        BY <1>3, <4>1, <4>2 DEF End
      <4> QED
        BY SMTT(30), <2>2, <3>2, <4>3, <4>4
    <3> QED
      BY <1>1, <1>15, <2>1, <3>3, <3>4
  <2> QED
    BY <2>3, <2>4
<1>16. OffsetsInOrder'
  BY <1>11, <1>12, <1>13, <1>14, <1>15 DEF OffsetsInOrder
<1> QED
  BY <1>5, <1>10, <1>16

(* Offsets stay in order when an empty file follows a non-empty one.       *)
LEMMA OrderAfterNewFile ==
  ASSUME TypeOK, OffsetsInOrder, files # <<>> => files[Len(files)] # <<>>,
         files' = Append(files, <<>>)
  PROVE  OffsetsInOrder' /\ DiskEnd' = DiskEnd
<1> DEFINE top == Len(files)
<1>1. /\ top \in Nat /\ DOMAIN files = 1..top /\ (files = <<>> <=> top = 0)
      /\ Len(files') = top + 1 /\ DOMAIN files' = 1..(top + 1)
      /\ \A i \in DOMAIN files : files'[i] = files[i]
      /\ files'[top + 1] = <<>>
  BY DiskShape, NewFileEffect
<1>2. files' # <<>> /\ DOMAIN files'[top + 1] = {}
  BY <1>1
<1>3. \A i \in DOMAIN files : End(i)' = End(i)
  BY <1>1 DEF End
<1>4. DiskEnd' = DiskEnd
  <2>1. CASE top = 0
    BY <1>1, <1>2, <2>1 DEF DiskEnd
  <2>2. CASE top # 0
    <3>1. DiskEnd' = files'[top][1].off + Len(files'[top])
      <4>1. Len(files') - 1 = top /\ Len(files') # 1 /\ files'[Len(files')] = <<>>
        BY <1>1, <2>2
      <4> HIDE DEF top
      <4> QED
        BY <1>2, <4>1 DEF DiskEnd, End
    <3>2. DiskEnd = files[top][1].off + Len(files[top])
      BY <1>1, <2>2 DEF DiskEnd, End
    <3> QED
      <4>1. top \in DOMAIN files
        BY ONLY <1>1, <2>2
      <4>2. files'[top] = files[top]
        BY ONLY <1>1, <4>1
      <4> QED
        BY <3>1, <3>2, <4>2, Zenon
  <2> QED
    BY <2>1, <2>2
<1>5. ASSUME NEW i \in DOMAIN files', NEW j \in DOMAIN files'[i]
      PROVE  files'[i][j].off = files'[i][1].off + j - 1
  BY <1>1, <1>2, <1>5 DEF OffsetsInOrder
<1>6. \A i \in DOMAIN files' : i < Len(files') => files'[i] # <<>>
  BY <1>1 DEF OffsetsInOrder
<1>7. files'[1] # <<>> => files'[1][1].off = 0
  BY <1>1 DEF OffsetsInOrder
<1>8. \A i \in DOMAIN files' : i > 1 /\ files'[i] # <<>> =>
        files'[i][1].off = End(i - 1)'
  BY <1>1, <1>3 DEF OffsetsInOrder
<1>9. \A i, k \in DOMAIN files' : i < k /\ files'[k] # <<>> =>
        End(i)' <= files'[k][1].off
  BY <1>1, <1>3 DEF OffsetsInOrder
<1>10. OffsetsInOrder'
  BY <1>5, <1>6, <1>7, <1>8, <1>9 DEF OffsetsInOrder
<1> QED
  BY <1>4, <1>10

-----------------------------------------------------------------------------
(* The inductive invariant, conjunct by conjunct, under common steps.      *)

(* Steps that touch no JSONL file.                                         *)
LEMMA SameFiles ==
  ASSUME files' = files
  PROVE  /\ OffsetsInOrder => OffsetsInOrder'
         /\ DiskEnd' = DiskEnd
         /\ \A r : OnDisk(r) => OnDisk(r)'
  BY DEF OffsetsInOrder, DiskEnd, End, OnDisk

LEMMA RecordsKept ==
  ASSUME RecordsOnDisk, \A r : OnDisk(r) => OnDisk(r)',
         pending' \subseteq pending, acked' \subseteq acked \cup pending
  PROVE  RecordsOnDisk'
  BY DEF RecordsOnDisk

(* A live instance's lines are whole, and stay so while the disk does not  *)
(* change, whatever happens to the process or to the metadata.             *)
LEMMA LinesKept ==
  ASSUME LinesWhole, status = "up", files' = files
  PROVE  LinesWhole'
  BY DEF LinesWhole

(* Saving the active segment's metadata, as OPEN or as an exact SEALED.    *)
LEMMA SaveKeepsMetas ==
  ASSUME TypeOK, MetasAgree, cur = Len(files), cur > 0, files' = files,
         NEW m \in Metas, SaveMetadata(cur, m),
         \/ m.status = "OPEN"
         \/ /\ files[cur] # <<>> /\ m.count = Len(files[cur])
            /\ m.first = files[cur][1].off
  PROVE  /\ MetasAgree' /\ Len(metas') = Len(files)
         /\ DOMAIN metas' = DOMAIN files /\ metas'[cur] = m
<1>1. /\ Len(metas') = Len(files) /\ DOMAIN metas' = DOMAIN files
      /\ metas'[cur] = m
      /\ \A i \in DOMAIN metas' : i # cur =>
           i \in DOMAIN metas /\ metas'[i] = metas[i]
  BY SaveEffect DEF MetasAgree
<1>2. Len(files) \in Nat
  BY DiskShape
<1>3. ASSUME NEW i \in DOMAIN metas'
      PROVE  IF metas'[i].status = "OPEN"
             THEN i = Len(files)
             ELSE /\ files[i] # <<>>
                  /\ metas'[i].count = Len(files[i])
                  /\ metas'[i].first = files[i][1].off
  <2>1. CASE i = cur
    BY <1>1, <2>1
  <2>2. CASE i # cur
    BY <1>1, <1>3, <2>2 DEF MetasAgree
  <2> QED
    BY <2>1, <2>2
<1> QED
  BY <1>1, <1>2, <1>3 DEF MetasAgree

(* What WalInv says of a segment that is open for writing.                 *)
LEMMA ActiveSegment ==
  ASSUME WalInv, handle
  PROVE  /\ status = "up" /\ cur = Len(files) /\ cur > 0 /\ cur \in DOMAIN files
         /\ count = Len(files[cur]) /\ nextOff = DiskEnd
         /\ count > 0 <=> files[cur] # <<>>
         /\ count > 0 => first = files[cur][1].off
         /\ CurrentMeta.status = "OPEN"
         /\ CurrentMeta \in Metas /\ SealedMeta \in Metas
         /\ SealedMeta.count = count /\ SealedMeta.first = first
         /\ SealedMeta.status = "SEALED"
<1>1. /\ status = "up" /\ cur = Len(files) /\ cur > 0
      /\ count = Len(files[cur]) /\ nextOff = DiskEnd
      /\ count > 0 => first = files[cur][1].off
  BY DEF WalInv, MemoryAgrees
<1>2. cur \in DOMAIN files
  BY <1>1, DiskShape DEF WalInv
<1>3. count > 0 <=> files[cur] # <<>>
  BY <1>1, <1>2, FileElements DEF WalInv, TypeOK
<1>4. CurrentMeta \in Metas /\ SealedMeta \in Metas
  BY MemoryMetas DEF WalInv
<1> QED
  BY <1>1, <1>2, <1>3, <1>4 DEF CurrentMeta, SealedMeta

(* The offset open() takes from the sealed segments is the end of the last *)
(* one.                                                                    *)
LEMMA LastSealed ==
  ASSUME WalInv, NEW n \in Nat, SealedSegments = 1..n
  PROVE  SealedNextOffset = IF n = 0 THEN 0 ELSE End(n)
<1>1. CASE n = 0
  BY <1>1 DEF SealedNextOffset
<1>2. CASE n # 0
  <2> DEFINE s == CHOOSE i \in SealedSegments : \A k \in SealedSegments : k <= i
  <2>1. n \in SealedSegments /\ \A k \in SealedSegments : k <= n
    BY <1>2
  <2>2. s \in SealedSegments /\ \A k \in SealedSegments : k <= s
    BY <2>1
  <2>3. s = n
    BY <2>1, <2>2
  <2>4. SealedNextOffset =
          IF metas[s].count = 0 THEN 0 ELSE metas[s].first + metas[s].count
    BY <2>1 DEF SealedNextOffset
  <2>5. n \in DOMAIN metas /\ metas[n].status = "SEALED"
    BY <2>1 DEF SealedSegments
  <2>6. /\ files[n] # <<>> /\ metas[n].count = Len(files[n])
        /\ metas[n].first = files[n][1].off
    BY <2>5 DEF WalInv, MetasAgree
  <2>7. n \in DOMAIN files
    BY <2>5, DiskShape DEF WalInv, MetasAgree
  <2>8. Len(files[n]) # 0
    BY <2>6, <2>7, FileElements DEF WalInv, TypeOK
  <2> HIDE DEF s
  <2> QED
    BY <1>2, <2>3, <2>4, <2>6, <2>8 DEF End
<1> QED
  BY <1>1, <1>2

(* open() finds a disk on which every line is whole, all segments but the  *)
(* last are sealed, and the last sealed one ends where the log ends.       *)
LEMMA ValidDisk ==
  ASSUME WalInv, DiskValid
  PROVE  /\ Len(files) = Len(metas)
         /\ \A i \in DOMAIN files : \A j \in DOMAIN files[i] :
              files[i][j].form = "line"
         /\ \A i \in OpenSegments : i = Len(files)
         /\ OpenSegments = {} =>
              /\ files # <<>> => files[Len(files)] # <<>>
              /\ SealedNextOffset = DiskEnd
         /\ OpenSegments # {} /\ files[Len(files)] = <<>> =>
              SealedNextOffset = DiskEnd
<1> DEFINE top == Len(files)
<1>1. /\ Len(metas) = top /\ top \in Nat
      /\ DOMAIN files = 1..top /\ DOMAIN metas = 1..top
      /\ (files = <<>> <=> top = 0)
  BY DiskShape DEF DiskValid, WalInv
<1>2. \A i \in DOMAIN metas : i \in OpenSegments \/ i \in SealedSegments
  BY DiskShape DEF OpenSegments, SealedSegments, WalInv
<1>3. ASSUME NEW i \in DOMAIN files, NEW j \in DOMAIN files[i]
      PROVE  files[i][j].form = "line"
  <2>1. Parses(files[i])
    BY <1>1, <1>2 DEF DiskValid, Matches
  <2>2. files[i][j].form # "partial"
    BY <2>1 DEF Parses
  <2> QED
    BY <2>2 DEF WalInv, LinesWhole
<1>4. \A i \in OpenSegments : i = top
  BY DEF OpenSegments, WalInv, MetasAgree
<1>5. \A i \in SealedSegments : i \in DOMAIN metas /\ files[i] # <<>>
  BY DEF SealedSegments, WalInv, MetasAgree
<1>6. ASSUME OpenSegments = {}
      PROVE  /\ files # <<>> => files[top] # <<>>
             /\ SealedNextOffset = DiskEnd
  <2>1. SealedSegments = 1..top
    BY <1>1, <1>2, <1>5, <1>6
  <2>2. files # <<>> => files[top] # <<>>
    BY <1>1, <1>5, <2>1
  <2>3. SealedNextOffset = IF top = 0 THEN 0 ELSE End(top)
    BY <1>1, <2>1, LastSealed
  <2> QED
    BY <1>1, <2>2, <2>3 DEF DiskEnd, End
<1>7. ASSUME OpenSegments # {}, files[top] = <<>>
      PROVE  SealedNextOffset = DiskEnd
  <2>1. top \in OpenSegments /\ top \in DOMAIN metas
    BY <1>4, <1>7 DEF OpenSegments
  <2>2. top \notin SealedSegments
    BY <2>1 DEF OpenSegments, SealedSegments
  <2>3. SealedSegments = 1..(top - 1)
    <3>1. \A i \in SealedSegments : i \in 1..top /\ i # top
      BY SMTT(30), <1>1, <1>5, <2>2
    <3>2. \A i \in 1..top : i # top => i \in SealedSegments
      BY <1>1, <1>2, <1>4
    <3>3. top \in Nat
      BY <1>1
    <3> HIDE DEF top
    <3>4. SealedSegments \subseteq 1..(top - 1)
      BY ONLY <3>1, <3>3
    <3>5. 1..(top - 1) \subseteq SealedSegments
      BY ONLY <3>2, <3>3
    <3> QED
      BY <3>4, <3>5, Zenon
  <2> DEFINE n == top - 1
  <2>4. n \in Nat /\ files # <<>> /\ SealedSegments = 1..n
    <3>1. top \in 1..top /\ top \in Nat
      BY ONLY <1>1, <2>1
    <3>2. n \in Nat /\ top # 0
      BY ONLY <3>1
    <3> QED
      BY ONLY <1>1, <2>3, <3>2
  <2>5. SealedNextOffset = IF n = 0 THEN 0 ELSE End(n)
    <3> HIDE DEF n
    <3> QED
      BY <2>4, LastSealed
  <2>6. DiskEnd = IF top = 1 THEN 0 ELSE End(top - 1)
    BY <1>7, <2>4 DEF DiskEnd
  <2> QED
    BY <1>1, <2>5, <2>6
<1> QED
  BY <1>1, <1>3, <1>4, <1>6, <1>7

-----------------------------------------------------------------------------
(* The inductive invariant, action by action.                              *)

(* A line is written to the active segment.                                *)
LEMMA WriteInv ==
  ASSUME WalInv, CanAppend, NEW e \in Events, NEW form \in {"line", "partial"},
         WriteToActive(e, form), metas' = metas,
         form = "line" \/ status' # "up"
  PROVE  /\ OffsetsInOrder' /\ LinesWhole' /\ MetasAgree'
         /\ \A r : OnDisk(r) => OnDisk(r)'
         /\ form = "line" =>
              \A r : r.off = nextOff /\ r.ev = e => OnDisk(r)'
         /\ Len(files') = Len(files) /\ DiskEnd' = nextOff + 1
         /\ Len(files'[cur]) = count + 1
         /\ files'[cur][1].off = IF count = 0 THEN nextOff ELSE first
<1> DEFINE w == [off |-> nextOff, ev |-> e, form |-> form]
<1>1. /\ handle /\ status = "up"
  BY DEF CanAppend
<1>2. /\ cur = Len(files) /\ cur > 0 /\ cur \in DOMAIN files
      /\ count = Len(files[cur]) /\ nextOff = DiskEnd
      /\ count > 0 <=> files[cur] # <<>>
      /\ count > 0 => first = files[cur][1].off
  BY <1>1, ActiveSegment
<1>3. TypeOK /\ OffsetsInOrder /\ LinesWhole /\ MetasAgree /\ count \in Nat
  BY DEF WalInv, TypeOK
<1>4. w \in Writes /\ w.off = nextOff /\ w.form = form
  BY <1>3 DEF TypeOK, Writes, Forms
<1>5. files' = [files EXCEPT ![cur] = Append(@, w)]
  BY DEF WriteToActive
<1> HIDE DEF w
<1>6. /\ OffsetsInOrder' /\ DiskEnd' = nextOff + 1
      /\ files'[cur][1].off =
           IF files[cur] = <<>> THEN nextOff ELSE files[cur][1].off
  BY <1>2, <1>3, <1>4, <1>5, OrderAfterWrite
<1>7. /\ Len(files') = Len(files) /\ DOMAIN files' = DOMAIN files
      /\ \A i \in DOMAIN files : i # cur => files'[i] = files[i]
      /\ Len(files'[cur]) = count + 1
      /\ DOMAIN files'[cur] = 1..(count + 1)
      /\ \A j \in 1..count : files'[cur][j] = files[cur][j]
      /\ files'[cur][count + 1] = w
      /\ files'[cur] # <<>>
  BY <1>2, <1>3, <1>4, <1>5, WriteEffect
<1>8. DOMAIN files[cur] = 1..count
  BY <1>2, <1>3, FileElements DEF TypeOK
<1>9. cur \in DOMAIN metas => metas[cur].status = "OPEN"
  BY <1>1 DEF WalInv, MemoryAgrees
<1>10. \A r : OnDisk(r) => OnDisk(r)'
  <2> SUFFICES ASSUME NEW r, OnDisk(r) PROVE OnDisk(r)'
    OBVIOUS
  <2>1. PICK i \in DOMAIN files : \E j \in DOMAIN files[i] :
          files[i][j] = [off |-> r.off, ev |-> r.ev, form |-> "line"]
    BY DEF OnDisk
  <2>2. PICK j \in DOMAIN files[i] :
          files[i][j] = [off |-> r.off, ev |-> r.ev, form |-> "line"]
    BY <2>1
  <2>3. i \in DOMAIN files' /\ j \in DOMAIN files'[i] /\ files'[i][j] = files[i][j]
    BY <1>3, <1>7, <1>8
  <2> QED
    BY <2>2, <2>3 DEF OnDisk
<1>11. ASSUME form = "line", NEW r, r.off = nextOff, r.ev = e PROVE OnDisk(r)'
  <2>1. cur \in DOMAIN files' /\ count + 1 \in DOMAIN files'[cur]
    BY <1>2, <1>3, <1>7
  <2>2. files'[cur][count + 1] = [off |-> r.off, ev |-> r.ev, form |-> "line"]
    BY <1>7, <1>11 DEF w
  <2> QED
    BY <2>1, <2>2 DEF OnDisk
<1>12. LinesWhole'
  <2> SUFFICES ASSUME NEW i \in DOMAIN files', NEW j \in DOMAIN files'[i]
               PROVE  \/ files'[i][j].form = "line"
                      \/ /\ files'[i][j].form = "partial"
                         /\ i = Len(files') /\ j = Len(files'[i])
                         /\ i \in DOMAIN metas' => metas'[i].status = "OPEN"
                         /\ status' # "up"
    BY DEF LinesWhole
  <2>1. \A k \in DOMAIN files : \A l \in DOMAIN files[k] :
          files[k][l].form = "line"
    BY <1>1, <1>3 DEF LinesWhole
  <2>2. CASE i # cur
    BY <1>7, <2>1, <2>2
  <2>3. CASE i = cur /\ j \in 1..count
    BY <1>2, <1>7, <1>8, <2>1, <2>3
  <2>4. CASE i = cur /\ j = count + 1
    BY <1>2, <1>4, <1>7, <1>9, <2>4
  <2> QED
    BY <1>3, <1>7, <2>2, <2>3, <2>4
<1>13. MetasAgree'
  <2>1. \A i \in DOMAIN metas : metas[i].status # "OPEN" =>
          i # cur /\ i \in DOMAIN files
    BY <1>2, <1>3, <1>9, DiskShape DEF MetasAgree
  <2> QED
    BY <1>3, <1>7, <2>1 DEF MetasAgree
<1> QED
  BY <1>2, <1>3, <1>6, <1>7, <1>10, <1>11, <1>12, <1>13

(* The active segment's metadata is saved, as OPEN or, when it holds a     *)
(* record, as SEALED.                                                      *)
LEMMA SaveInv ==
  ASSUME WalInv, handle, files' = files,
         NEW m, m = CurrentMeta \/ (m = SealedMeta /\ count > 0),
         SaveMetadata(cur, m)
  PROVE  /\ OffsetsInOrder' /\ LinesWhole' /\ MetasAgree'
         /\ Len(metas') = Len(files') /\ DOMAIN metas' = DOMAIN files'
         /\ metas'[cur] = m
         /\ DiskEnd' = DiskEnd
         /\ \A r : OnDisk(r) => OnDisk(r)'
<1>1. /\ status = "up" /\ cur = Len(files) /\ cur > 0
      /\ count = Len(files[cur])
      /\ count > 0 <=> files[cur] # <<>>
      /\ count > 0 => first = files[cur][1].off
      /\ CurrentMeta.status = "OPEN"
      /\ CurrentMeta \in Metas /\ SealedMeta \in Metas
      /\ SealedMeta.count = count /\ SealedMeta.first = first
  BY ActiveSegment
<1>2. m \in Metas /\ ( \/ m.status = "OPEN"
                       \/ /\ files[cur] # <<>> /\ m.count = Len(files[cur])
                          /\ m.first = files[cur][1].off )
  BY <1>1
<1>3. /\ MetasAgree' /\ Len(metas') = Len(files) /\ DOMAIN metas' = DOMAIN files
      /\ metas'[cur] = m
  BY <1>1, <1>2, SaveKeepsMetas DEF WalInv
<1>4. LinesWhole'
  BY <1>1, LinesKept DEF WalInv
<1>5. /\ OffsetsInOrder' /\ DiskEnd' = DiskEnd
      /\ \A r : OnDisk(r) => OnDisk(r)'
  BY SameFiles DEF WalInv
<1> QED
  BY <1>3, <1>4, <1>5

LEMMA InitInv == Init => WalInv
<1> SUFFICES ASSUME Init PROVE WalInv
  OBVIOUS
<1>1. TypeOK
  BY InitType
<1>2. /\ DOMAIN files = {} /\ Len(files) = 0 /\ files = <<>>
      /\ DOMAIN metas = {} /\ Len(metas) = 0
  BY DEF Init
<1>3. OffsetsInOrder /\ LinesWhole /\ MetasAgree
  BY <1>2 DEF OffsetsInOrder, LinesWhole, MetasAgree
<1>4. MemoryAgrees /\ RecordsOnDisk
  BY DEF Init, MemoryAgrees, RecordsOnDisk
<1> QED
  BY <1>1, <1>3, <1>4 DEF WalInv

LEMMA OpenInv ==
  ASSUME WalInv, TypeOK', OpenResume \/ OpenNew
  PROVE  WalInv'
<1>1. DiskValid
  BY DEF OpenResume, OpenNew
<1> USE DEF WalInv
<1>2. /\ Len(files) = Len(metas)
      /\ \A i \in DOMAIN files : \A j \in DOMAIN files[i] :
           files[i][j].form = "line"
      /\ \A i \in OpenSegments : i = Len(files)
      /\ OpenSegments = {} =>
           /\ files # <<>> => files[Len(files)] # <<>>
           /\ SealedNextOffset = DiskEnd
      /\ OpenSegments # {} /\ files[Len(files)] = <<>> =>
           SealedNextOffset = DiskEnd
  BY <1>1, ValidDisk
<1>3. /\ Len(files) \in Nat /\ DOMAIN files = 1..Len(files)
      /\ (files = <<>> <=> Len(files) = 0)
      /\ DOMAIN metas = 1..Len(metas)
  BY DiskShape
<1>4. \A i \in DOMAIN files :
        /\ Len(files[i]) \in Nat /\ DOMAIN files[i] = 1..Len(files[i])
        /\ files[i] # <<>> <=> Len(files[i]) > 0
        /\ \A j \in DOMAIN files[i] : files[i][j].off \in Nat
  BY FileElements DEF TypeOK
<1>5. CASE OpenResume
  <2>1. PICK i \in OpenSegments :
          /\ cur' = i
          /\ first' = Recovered(files[i]).first
          /\ count' = Recovered(files[i]).count
          /\ nextOff' = IF files[i] = <<>>
                        THEN SealedNextOffset
                        ELSE files[i][Len(files[i])].off + 1
    BY <1>5 DEF OpenResume
  <2>2. /\ files' = files /\ metas' = metas /\ status' = "up"
        /\ pc' = "boot_meta" /\ handle' = TRUE
        /\ pending' = pending /\ acked' = acked
    BY <1>5 DEF OpenResume
  <2>3. i = Len(files) /\ i \in DOMAIN metas /\ metas[i].status = "OPEN"
    BY <1>2 DEF OpenSegments
  <2>4. i \in DOMAIN files /\ i > 0 /\ files # <<>>
    BY <1>2, <1>3, <2>3
  <2>5. count' = Len(files[i]) /\ (count' > 0 => first' = files[i][1].off)
    <3>1. count' = Len(files[i])
      BY <2>1 DEF Recovered
    <3>2. first' = IF files[i] = <<>> THEN 0 ELSE files[i][1].off
      BY <2>1 DEF Recovered
    <3> QED
      BY <1>4, <2>4, <3>1, <3>2
  <2>6. nextOff' = DiskEnd
    <3>1. CASE files[i] = <<>>
      BY <1>2, <2>1, <2>3, <3>1
    <3>2. CASE files[i] # <<>>
      <4>1. DiskEnd = files[i][1].off + Len(files[i])
        BY <2>3, <2>4, <3>2 DEF DiskEnd, End
      <4>2. Len(files[i]) \in DOMAIN files[i] /\ 1 \in DOMAIN files[i]
        BY <1>4, <2>4, <3>2
      <4>3. files[i][Len(files[i])].off = files[i][1].off + Len(files[i]) - 1
        BY <2>4, <4>2 DEF OffsetsInOrder
      <4>4. nextOff' = files[i][Len(files[i])].off + 1
        BY <2>1, <3>2
      <4>5. files[i][1].off \in Nat /\ Len(files[i]) \in Nat
        BY <1>4, <2>4, <4>2
      <4> DEFINE a == files[i][1].off
                 b == Len(files[i])
      <4>6. /\ DiskEnd = a + b /\ nextOff' = (a + b - 1) + 1
            /\ a \in Nat /\ b \in Nat
        BY <4>1, <4>3, <4>4, <4>5
      <4> HIDE DEF a, b
      <4> QED
        BY <4>6
    <3> QED
      BY <3>1, <3>2
  <2>7. OffsetsInOrder' /\ DiskEnd' = DiskEnd /\ RecordsOnDisk'
    BY <2>2, SameFiles, RecordsKept
  <2>8. LinesWhole'
    BY <1>2, <2>2 DEF LinesWhole
  <2>9. MetasAgree'
    BY <2>2 DEF MetasAgree
  <2>10. MemoryAgrees'
    BY <2>1, <2>2, <2>3, <2>4, <2>5, <2>6, <2>7 DEF MemoryAgrees
  <2> QED
    BY <2>7, <2>8, <2>9, <2>10
<1>6. CASE OpenNew
  <2>1. /\ OpenSegments = {} /\ files' = Append(files, <<>>) /\ metas' = metas
        /\ cur' = Len(metas) + 1 /\ count' = 0
        /\ nextOff' = SealedNextOffset /\ status' = "up" /\ pc' = "boot_meta"
        /\ handle' = TRUE /\ pending' = pending /\ acked' = acked
    BY <1>6 DEF OpenNew
  <2>2. /\ Len(files') = Len(files) + 1 /\ DOMAIN files' = 1..(Len(files) + 1)
        /\ \A i \in DOMAIN files : files'[i] = files[i]
        /\ files'[Len(files) + 1] = <<>>
    BY <2>1, NewFileEffect
  <2>3. OffsetsInOrder' /\ DiskEnd' = DiskEnd
    BY <1>2, <2>1, OrderAfterNewFile
  <2>4. \A r : OnDisk(r) => OnDisk(r)'
    BY ONLY <1>3, <2>2 DEF OnDisk
  <2>5. RecordsOnDisk'
    BY <2>1, <2>4, RecordsKept
  <2>6. LinesWhole'
    <3>1. DOMAIN files'[Len(files) + 1] = {}
      BY ONLY <2>2
    <3> QED
      BY ONLY <1>2, <1>3, <2>2, <3>1 DEF LinesWhole
  <2>7. MetasAgree'
    <3>1. \A i \in DOMAIN metas : metas[i].status # "OPEN" /\ i \in DOMAIN files
      BY <1>2, <1>3, <2>1 DEF OpenSegments
    <3> QED
      BY ONLY <1>2, <1>3, <2>1, <2>2, <3>1, MetasAgree DEF MetasAgree
  <2>8. MemoryAgrees'
    <3>1. cur' = Len(files') /\ cur' > 0 /\ cur' \notin DOMAIN metas'
          /\ Len(files'[cur']) = 0
      BY ONLY <1>2, <1>3, <2>1, <2>2
    <3>2. nextOff' = DiskEnd'
      BY <1>2, <2>1, <2>3
    <3> QED
      BY ONLY <2>1, <3>1, <3>2 DEF MemoryAgrees
  <2> QED
    BY <2>3, <2>5, <2>6, <2>7, <2>8
<1> QED
  BY <1>5, <1>6

(* The steps that save the active segment's metadata, or fail to.          *)
LEMMA SaveStepsInv ==
  ASSUME Healthy, WalInv, TypeOK',
         \/ BootMeta \/ BootMetaFails \/ SaveAppendMeta \/ SaveAppendMetaFails
         \/ SealCurrentSegment \/ RolloverSeal \/ SealMetaFails
         \/ NewMeta \/ NewMetaFails
  PROVE  WalInv'
<1> USE DEF WalInv
<1>1. /\ handle /\ status = "up" /\ files' = files
      /\ cur' = cur /\ nextOff' = nextOff /\ first' = first /\ count' = count
      /\ cur = Len(files) /\ cur > 0
      /\ count = Len(files[cur]) /\ (count > 0 => first = files[cur][1].off)
      /\ nextOff = DiskEnd
      /\ pending' \subseteq pending /\ acked' \subseteq acked \cup pending
  <2>1. /\ handle /\ files' = files
        /\ cur' = cur /\ nextOff' = nextOff /\ first' = first /\ count' = count
    BY DEF BootMeta, BootMetaFails, SaveAppendMeta, SaveAppendMetaFails,
           SealCurrentSegment, RolloverSeal, DoSeal, SealMetaFails, NewMeta,
           NewMetaFails, MemoryAgrees, memory
  <2>2. pending' \subseteq pending /\ acked' \subseteq acked \cup pending
    BY DEF BootMeta, BootMetaFails, SaveAppendMeta, SaveAppendMetaFails,
           SealCurrentSegment, RolloverSeal, DoSeal, SealMetaFails, NewMeta,
           NewMetaFails, Return, Raise
  <2> QED
    BY <2>1, <2>2, ActiveSegment
<1>2. CASE UNCHANGED metas
  <2>1. /\ OffsetsInOrder' /\ DiskEnd' = DiskEnd /\ RecordsOnDisk'
    BY <1>1, SameFiles, RecordsKept
  <2>2. LinesWhole'
    BY <1>1, LinesKept
  <2>3. MetasAgree'
    BY <1>1, <1>2 DEF MetasAgree
  <2>4. cur \in DOMAIN metas => metas[cur].status = "OPEN"
    BY <1>1 DEF MemoryAgrees
  <2>5. \/ pc' = "idle" /\ (handle' => status' = "up")
        \/ pc' = "seal" /\ count > 0 /\ handle' /\ status' = "up"
        \/ pc' = "new_file" /\ SaveMetadata(cur, SealedMeta) /\ count > 0
           /\ ~handle' /\ status' = "up"
    BY <1>1 DEF BootMeta, BootMetaFails, SaveAppendMeta, SaveAppendMetaFails,
           SealCurrentSegment, RolloverSeal, DoSeal, SealMetaFails, NewMeta,
           NewMetaFails, MemoryAgrees, memory, Return, Raise, Healthy
  <2>6. CASE pc' # "new_file"
    <3>1. MemoryAgrees'
      BY <1>1, <1>2, <2>1, <2>4, <2>5, <2>6 DEF MemoryAgrees
    <3> QED
      BY <2>1, <2>2, <2>3, <3>1
  <2>7. CASE pc' = "new_file"
    <3>1. SaveMetadata(cur, SealedMeta) /\ count > 0 /\ ~handle' /\ status' = "up"
      BY <2>5, <2>7
    <3>2. Len(metas') = Len(files') /\ metas'[cur] = SealedMeta
      BY <1>1, <3>1, SaveInv
    <3>3. MemoryAgrees'
      BY <1>1, <2>1, <2>7, <3>1, <3>2 DEF MemoryAgrees, SealedMeta
    <3> QED
      BY <2>1, <2>2, <2>3, <3>3
  <2> QED
    BY <2>6, <2>7
<1>3. CASE SaveMetadata(cur, CurrentMeta) /\ pc' # "new_file"
  <2>1. /\ OffsetsInOrder' /\ LinesWhole' /\ MetasAgree' /\ metas'[cur] = CurrentMeta
        /\ DiskEnd' = DiskEnd /\ \A r : OnDisk(r) => OnDisk(r)'
    BY <1>1, <1>3, SaveInv
  <2>2. RecordsOnDisk'
    BY <1>1, <2>1, RecordsKept
  <2>3. \/ pc' = "idle" /\ (handle' => status' = "up")
        \/ pc' = "seal" /\ count > 0 /\ handle' /\ status' = "up"
    BY <1>1, <1>3 DEF BootMeta, BootMetaFails, SaveAppendMeta, SaveAppendMetaFails,
           SealCurrentSegment, RolloverSeal, DoSeal, SealMetaFails, NewMeta,
           NewMetaFails, MemoryAgrees, memory, Return, Raise
  <2>4. metas'[cur].status = "OPEN"
    BY <2>1 DEF CurrentMeta
  <2>5. MemoryAgrees'
    BY <1>1, <2>1, <2>3, <2>4 DEF MemoryAgrees
  <2> QED
    BY <2>1, <2>2, <2>5
<1>4. CASE SaveMetadata(cur, SealedMeta) /\ count > 0 /\ ~handle' /\ status' = "up"
           /\ pc' \in {"idle", "new_file"}
  <2>1. /\ OffsetsInOrder' /\ LinesWhole' /\ MetasAgree' /\ metas'[cur] = SealedMeta
        /\ Len(metas') = Len(files')
        /\ DiskEnd' = DiskEnd /\ \A r : OnDisk(r) => OnDisk(r)'
    BY <1>1, <1>4, SaveInv
  <2>2. RecordsOnDisk'
    BY <1>1, <2>1, RecordsKept
  <2>3. metas'[cur].status = "SEALED"
    BY <2>1 DEF SealedMeta
  <2>4. MemoryAgrees'
    BY <1>1, <1>4, <2>1, <2>3 DEF MemoryAgrees
  <2> QED
    BY <2>1, <2>2, <2>4
<1>5. \/ UNCHANGED metas
      \/ SaveMetadata(cur, CurrentMeta) /\ pc' # "new_file"
      \/ /\ SaveMetadata(cur, SealedMeta) /\ count > 0 /\ ~handle' /\ status' = "up"
         /\ pc' \in {"idle", "new_file"}
  BY <1>1 DEF BootMeta, BootMetaFails, SaveAppendMeta, SaveAppendMetaFails,
         SealCurrentSegment, RolloverSeal, DoSeal, SealMetaFails, NewMeta,
         NewMetaFails, SaveMetadataFails, MemoryAgrees, Return, Raise, Healthy
<1> QED
  BY <1>2, <1>3, <1>4, <1>5

(* The remaining steps: nothing reaches the metadata files.                *)
LEMMA OtherStepsInv ==
  ASSUME Healthy, WalInv, TypeOK', Next,
         ~(OpenResume \/ OpenNew),
         ~( \/ BootMeta \/ BootMetaFails \/ SaveAppendMeta \/ SaveAppendMetaFails
            \/ SealCurrentSegment \/ RolloverSeal \/ SealMetaFails
            \/ NewMeta \/ NewMetaFails )
  PROVE  WalInv'
<1> USE DEF WalInv
<1>1. CASE OpenRefused \/ Close \/ Crash \/ SealFlushFails \/ NewFileFails
  <2>1. files' = files /\ metas' = metas
    BY <1>1 DEF OpenRefused, Close, Crash, SealFlushFails, NewFileFails
  <2>2. pending' \subseteq pending /\ acked' \subseteq acked \cup pending
    BY <1>1 DEF OpenRefused, Close, Crash, SealFlushFails, NewFileFails, Raise
  <2>3. OffsetsInOrder' /\ DiskEnd' = DiskEnd /\ RecordsOnDisk'
    BY <2>1, <2>2, SameFiles, RecordsKept
  <2>4. status # "up" => status' # "up"
    BY <1>1 DEF OpenRefused, Close, Crash, SealFlushFails, NewFileFails,
                MemoryAgrees, Raise
  <2>5. LinesWhole'
    BY <2>1, <2>4 DEF LinesWhole
  <2>6. MetasAgree'
    BY <2>1 DEF MetasAgree
  <2>7. MemoryAgrees'
    BY <1>1, <2>1, <2>3 DEF OpenRefused, Close, Crash, SealFlushFails, NewFileFails,
       Raise, MemoryAgrees, memory
  <2> QED
    BY <2>3, <2>5, <2>6, <2>7
<1>2. ASSUME NEW e \in Events, AppendLine(e) PROVE WalInv'
  <2>1. /\ CanAppend /\ WriteToActive(e, "line") /\ metas' = metas
        /\ nextOff' = nextOff + 1 /\ count' = count + 1
        /\ first' = IF count = 0 THEN nextOff ELSE first
        /\ pending' = {[off |-> nextOff, ev |-> e]} /\ pc' = "append_meta"
        /\ status' = status /\ handle' = handle /\ cur' = cur /\ acked' = acked
    BY <1>2 DEF AppendLine
  <2>2. /\ OffsetsInOrder' /\ LinesWhole' /\ MetasAgree'
        /\ \A r : OnDisk(r) => OnDisk(r)'
        /\ \A r : r.off = nextOff /\ r.ev = e => OnDisk(r)'
        /\ Len(files') = Len(files) /\ DiskEnd' = nextOff + 1
        /\ Len(files'[cur]) = count + 1
        /\ files'[cur][1].off = IF count = 0 THEN nextOff ELSE first
    BY <2>1, WriteInv
  <2>3. RecordsOnDisk'
    <3>1. \A r \in acked' : OnDisk(r)'
      BY <2>1, <2>2 DEF RecordsOnDisk
    <3>2. \A r \in pending' : OnDisk(r)'
      BY <2>1, <2>2
    <3> QED
      BY <3>1, <3>2 DEF RecordsOnDisk
  <2>4. MemoryAgrees'
    <3>1. /\ handle /\ status = "up" /\ cur = Len(files) /\ cur > 0
          /\ count \in Nat
          /\ (cur \in DOMAIN metas => metas[cur].status = "OPEN")
      BY <2>1 DEF CanAppend, MemoryAgrees, TypeOK
    <3> QED
      BY <2>1, <2>2, <3>1 DEF MemoryAgrees
  <2> QED
    BY <2>2, <2>3, <2>4
<1>3. ASSUME NEW e \in Events, AppendLineFails(e) PROVE WalInv'
  BY <1>3 DEF AppendLineFails, Healthy
<1>4. ASSUME NEW e \in Events, NEW form \in {"cut", "partial"}, CrashInAppend(e, form)
      PROVE  WalInv'
  <2>1. /\ CanAppend /\ WriteToActive(e, "partial") /\ metas' = metas
        /\ status' = "down" /\ handle' = FALSE /\ pc' = pc /\ pc = "idle"
        /\ pending' = pending /\ acked' = acked
    BY <1>4 DEF CrashInAppend, Healthy, CanAppend
  <2>2. /\ OffsetsInOrder' /\ LinesWhole' /\ MetasAgree'
        /\ \A r : OnDisk(r) => OnDisk(r)'
    BY <2>1, WriteInv
  <2>3. RecordsOnDisk'
    BY <2>1, <2>2, RecordsKept
  <2>4. MemoryAgrees'
    BY <2>1 DEF MemoryAgrees
  <2> QED
    BY <2>2, <2>3, <2>4
<1>5. CASE NewFile
  <2>1. /\ pc = "new_file" /\ cur' = cur + 1 /\ count' = 0
        /\ files' = Append(files, <<>>) /\ handle' = TRUE /\ pc' = "new_meta"
        /\ metas' = metas /\ status' = status /\ nextOff' = nextOff
        /\ pending' = pending /\ acked' = acked
    BY <1>5 DEF NewFile
  <2>2. /\ status = "up" /\ cur = Len(files) /\ Len(metas) = Len(files)
        /\ metas[cur].status = "SEALED" /\ nextOff = DiskEnd
    BY <2>1 DEF MemoryAgrees
  <2>3. /\ Len(files) \in Nat /\ DOMAIN files = 1..Len(files)
        /\ (files = <<>> <=> Len(files) = 0)
        /\ DOMAIN metas = 1..Len(metas)
    BY DiskShape
  <2>4. \A i \in DOMAIN metas : metas[i].status # "OPEN" /\ files[i] # <<>>
    BY <2>2 DEF MetasAgree
  <2>5. files # <<>> => files[Len(files)] # <<>>
    BY <2>2, <2>3, <2>4
  <2>6. /\ Len(files') = Len(files) + 1 /\ DOMAIN files' = 1..(Len(files) + 1)
        /\ \A i \in DOMAIN files : files'[i] = files[i]
        /\ files'[Len(files) + 1] = <<>>
    BY <2>1, NewFileEffect
  <2>7. OffsetsInOrder' /\ DiskEnd' = DiskEnd
    BY <2>1, <2>5, OrderAfterNewFile
  <2>8. \A r : OnDisk(r) => OnDisk(r)'
    BY ONLY <2>3, <2>6 DEF OnDisk
  <2>9. RecordsOnDisk'
    BY <2>1, <2>8, RecordsKept
  <2>10. LinesWhole'
    <3>1. DOMAIN files'[Len(files) + 1] = {}
      BY ONLY <2>6
    <3>2. \A i \in DOMAIN files : \A j \in DOMAIN files[i] : files[i][j].form = "line"
      BY <2>2 DEF LinesWhole
    <3> QED
      BY ONLY <2>3, <2>6, <3>1, <3>2 DEF LinesWhole
  <2>11. MetasAgree'
    BY ONLY <2>1, <2>2, <2>3, <2>4, <2>6, MetasAgree DEF MetasAgree
  <2>12. MemoryAgrees'
    <3>1. cur' = Len(files') /\ cur' > 0 /\ cur' \notin DOMAIN metas'
          /\ Len(files'[cur']) = 0
      BY ONLY <2>1, <2>2, <2>3, <2>6
    <3> QED
      BY ONLY <2>1, <2>2, <2>7, <3>1 DEF MemoryAgrees
  <2> QED
    BY <2>7, <2>9, <2>10, <2>11, <2>12
<1> QED
  BY <1>1, <1>2, <1>3, <1>4, <1>5 DEF Next

(* The inductive invariant holds for every number of segments, records and *)
(* crashes, in an environment without the faults append() does not handle. *)
THEOREM WalInductive == ASSUME Healthy PROVE Spec => []WalInv
<1>1. Init => WalInv
  BY InitInv
<1>2. WalInv /\ [Next]_vars => WalInv'
  <2> SUFFICES ASSUME WalInv, [Next]_vars PROVE WalInv'
    OBVIOUS
  <2>1. TypeOK'
    BY NextType DEF WalInv
  <2>2. CASE UNCHANGED vars
    BY <2>1, <2>2 DEF vars, WalInv, OffsetsInOrder, End, LinesWhole, MetasAgree,
                      MemoryAgrees, DiskEnd, RecordsOnDisk, OnDisk
  <2>3. CASE Next
    BY <2>1, <2>3, OpenInv, SaveStepsInv, OtherStepsInv
  <2> QED
    BY <2>2, <2>3
<1> QED
  BY <1>1, <1>2, PTL DEF Spec

-----------------------------------------------------------------------------
(* Consequences of the inductive invariant.                                *)

(* Every offset on the disk lies in its own segment's range, and below the *)
(* end of the log.                                                         *)
LEMMA OffsetRanges ==
  ASSUME WalInv, NEW i \in DOMAIN files, NEW j \in DOMAIN files[i]
  PROVE  /\ files[i][1].off \in Nat /\ files[i][j].off \in Nat
         /\ End(i) \in Nat /\ DiskEnd \in Nat
         /\ files[i][1].off <= files[i][j].off
         /\ files[i][j].off < End(i) /\ End(i) <= DiskEnd
<1> DEFINE top == Len(files)
<1>1. /\ top \in Nat /\ DOMAIN files = 1..top /\ (files = <<>> <=> top = 0)
  BY DiskShape DEF WalInv
<1>2. \A k \in DOMAIN files :
        /\ Len(files[k]) \in Nat /\ DOMAIN files[k] = 1..Len(files[k])
        /\ files[k] # <<>> <=> Len(files[k]) > 0
        /\ \A l \in DOMAIN files[k] : files[k][l].off \in Nat
  BY FileElements DEF WalInv, TypeOK
<1>3. \A k \in DOMAIN files : files[k] # <<>> =>
        files[k][1].off \in Nat /\ End(k) \in Nat /\ files[k][1].off < End(k)
  BY <1>2 DEF End
<1>4. files[i] # <<>> /\ 1 \in DOMAIN files[i]
  BY <1>2
<1>5. files[i][j].off = files[i][1].off + j - 1
  BY DEF WalInv, OffsetsInOrder
<1>6. files[i][1].off <= files[i][j].off /\ files[i][j].off < End(i)
  BY <1>2, <1>4, <1>5 DEF End
<1>7. files # <<>>
  BY <1>1
<1>8. End(i) <= DiskEnd /\ DiskEnd \in Nat
  <2>1. CASE files[top] # <<>>
    <3>1. DiskEnd = End(top) /\ top \in DOMAIN files
      BY <1>1, <1>7, <2>1 DEF DiskEnd
    <3>2. CASE i = top
      BY <1>3, <1>4, <3>1, <3>2
    <3>3. CASE i # top
      <4>1. End(i) <= files[top][1].off
        BY <1>1, <2>1, <3>1, <3>3 DEF WalInv, OffsetsInOrder
      <4> QED
        BY <1>3, <1>4, <2>1, <3>1, <4>1
    <3> QED
      BY <3>2, <3>3
  <2>2. CASE files[top] = <<>>
    <3>1. i # top /\ top # 1
      BY <1>1, <1>4, <2>2
    <3> DEFINE n == top - 1
    <3>2. DiskEnd = End(n)
      BY <1>7, <2>2, <3>1 DEF DiskEnd
    <3>3. n \in DOMAIN files /\ n < top
      BY <1>1, <3>1
    <3>4. files[n] # <<>>
      BY <3>3 DEF WalInv, OffsetsInOrder
    <3>5. CASE i = n
      BY <1>3, <1>4, <3>2, <3>5
    <3>6. CASE i # n
      <4>1. i < n
        BY <1>1, <3>1, <3>6
      <4>2. End(i) <= files[n][1].off
        BY <3>3, <3>4, <4>1 DEF WalInv, OffsetsInOrder
      <4> QED
        BY <1>3, <1>4, <3>2, <3>3, <3>4, <4>2
    <3> QED
      BY <3>5, <3>6
  <2> QED
    BY <2>1, <2>2
<1> QED
  BY <1>2, <1>3, <1>4, <1>6, <1>8

(* "Offsets are globally monotonic across segments and never reset on      *)
(* rollover", also across any number of restarts.                          *)
THEOREM OffsetsMonotonic == ASSUME Healthy PROVE Spec => []OffsetsNeverReset
<1>1. WalInv => OffsetsNeverReset
  <2> SUFFICES ASSUME WalInv, status = "up",
                      NEW i \in DOMAIN files, NEW j \in DOMAIN files[i]
               PROVE  files[i][j].off < nextOff
    BY DEF OffsetsNeverReset
  <2>1. nextOff = DiskEnd
    BY DEF WalInv, MemoryAgrees
  <2> QED
    BY <2>1, OffsetRanges
<1> QED
  BY <1>1, WalInductive, PTL

(* A later segment's offsets are above an earlier one's, so no two places  *)
(* on the disk have one offset.                                            *)
LEMMA LaterSegment ==
  ASSUME WalInv, NEW x \in DOMAIN files, NEW y \in DOMAIN files[x],
         NEW u \in DOMAIN files, NEW v \in DOMAIN files[u], x < u
  PROVE  files[x][y].off < files[u][v].off
<1>1. files[u] # <<>>
  BY FileElements DEF WalInv, TypeOK
<1>2. End(x) <= files[u][1].off
  BY <1>1 DEF WalInv, OffsetsInOrder
<1>3. files[x][y].off \in Nat /\ files[x][y].off < End(x) /\ End(x) \in Nat
  BY OffsetRanges
<1>4. /\ files[u][1].off <= files[u][v].off
      /\ files[u][1].off \in Nat /\ files[u][v].off \in Nat
  BY OffsetRanges
<1> QED
  BY <1>2, <1>3, <1>4

LEMMA WithinSegment ==
  ASSUME WalInv, NEW i \in DOMAIN files, NEW j \in DOMAIN files[i], NEW l \in DOMAIN files[i]
  PROVE  /\ files[i][j].off \in Nat /\ files[i][l].off \in Nat
         /\ j \in Nat /\ l \in Nat
         /\ files[i][l].off - files[i][j].off = l - j
<1>1. files[i][j].off = files[i][1].off + j - 1
      /\ files[i][l].off = files[i][1].off + l - 1
  BY DEF WalInv, OffsetsInOrder
<1>2. j \in Nat /\ l \in Nat
  BY FileElements DEF WalInv, TypeOK
<1>3. files[i][1].off \in Nat /\ files[i][j].off \in Nat /\ files[i][l].off \in Nat
  BY OffsetRanges
<1> QED
  BY <1>1, <1>2, <1>3

LEMMA OffsetsDistinct ==
  ASSUME WalInv, NEW i \in DOMAIN files, NEW j \in DOMAIN files[i],
         NEW k \in DOMAIN files, NEW l \in DOMAIN files[k],
         files[i][j].off = files[k][l].off
  PROVE  i = k /\ j = l
<1>1. DOMAIN files = 1..Len(files) /\ Len(files) \in Nat
  BY DiskShape DEF WalInv
<1>2. files[i][j].off \in Nat
  BY OffsetRanges
<1>3. i = k
  BY <1>1, <1>2, LaterSegment
<1>4. j = l
  BY <1>3, WithinSegment
<1> QED
  BY <1>3, <1>4

(* append() never returns the same offset for two different records, even  *)
(* when the process crashed between them.                                  *)
THEOREM OffsetsUnique == ASSUME Healthy PROVE Spec => []AckedOffsetsUnique
<1>1. WalInv => AckedOffsetsUnique
  <2> SUFFICES ASSUME WalInv, NEW a \in acked, NEW b \in acked, a.off = b.off
               PROVE  a = b
    BY DEF AckedOffsetsUnique
  <2>1. OnDisk(a) /\ OnDisk(b)
    BY DEF WalInv, RecordsOnDisk
  <2>2. PICK i \in DOMAIN files : \E j \in DOMAIN files[i] :
          files[i][j] = [off |-> a.off, ev |-> a.ev, form |-> "line"]
    BY <2>1 DEF OnDisk
  <2>3. PICK j \in DOMAIN files[i] :
          files[i][j] = [off |-> a.off, ev |-> a.ev, form |-> "line"]
    BY <2>2
  <2>4. PICK k \in DOMAIN files : \E l \in DOMAIN files[k] :
          files[k][l] = [off |-> b.off, ev |-> b.ev, form |-> "line"]
    BY <2>1 DEF OnDisk
  <2>5. PICK l \in DOMAIN files[k] :
          files[k][l] = [off |-> b.off, ev |-> b.ev, form |-> "line"]
    BY <2>4
  <2>6. files[i][j].off = files[k][l].off
    BY <2>3, <2>5
  <2>7. i = k /\ j = l
    BY <2>6, OffsetsDistinct
  <2>8. a \in Records /\ b \in Records /\ a.ev = b.ev
    BY <2>3, <2>5, <2>7 DEF WalInv, TypeOK
  <2> QED
    BY <2>6, <2>8 DEF Records
<1> QED
  BY <1>1, WalInductive, PTL

(* Metadata that describes the first n files exactly passes the global     *)
(* continuity check.                                                       *)
LEMMA ExactIsContinuous ==
  ASSUME WalInv, NEW n \in Nat, n <= Len(files), NEW ms, DOMAIN ms = 1..n,
         \A i \in 1..n : /\ ms[i].count = Len(files[i])
                         /\ files[i] # <<>> => ms[i].first = files[i][1].off
  PROVE  Continuous(ms)
<1>1. Len(files) \in Nat /\ DOMAIN files = 1..Len(files) /\ 1..n \subseteq DOMAIN files
  BY DiskShape DEF WalInv
<1>2. \A k \in DOMAIN files : (files[k] # <<>> <=> Len(files[k]) > 0)
  BY FileElements DEF WalInv, TypeOK
<1> SUFFICES ASSUME NEW i \in 1..n, ms[i].count > 0
             PROVE  LET before == {k \in 1..(i - 1) : ms[k].count > 0}
                    IN  IF before = {}
                        THEN ms[i].first = 0
                        ELSE \E k \in before :
                               /\ \A l \in before : l <= k
                               /\ ms[i].first = ms[k].first + ms[k].count
  BY DEF Continuous
<1> DEFINE before == {k \in 1..(i - 1) : ms[k].count > 0}
<1>3. i \in DOMAIN files /\ files[i] # <<>> /\ ms[i].first = files[i][1].off
  BY <1>1, <1>2
<1>4. CASE i = 1
  <2>1. before = {}
    BY <1>4
  <2>2. files # <<>> /\ files[1][1].off = 0
    BY <1>3, <1>4 DEF WalInv, OffsetsInOrder
  <2> QED
    BY <1>3, <1>4, <2>1, <2>2
<1>5. CASE i # 1
  <2> DEFINE k == i - 1
  <2>1. k \in 1..n /\ k \in DOMAIN files /\ k < Len(files) /\ k \in 1..(i - 1)
    BY <1>1, <1>5
  <2>2. files[k] # <<>>
    BY <2>1 DEF WalInv, OffsetsInOrder
  <2>3. ms[k].count > 0 /\ ms[k].count = Len(files[k]) /\ ms[k].first = files[k][1].off
    BY <1>2, <2>1, <2>2
  <2>4. k \in before /\ \A l \in before : l <= k
    BY <1>5, <2>1, <2>3
  <2>5. files[i][1].off = End(i - 1)
    <3>1. i > 1
      BY <1>5
    <3>2. OffsetsInOrder
      BY DEF WalInv
    <3> QED
      BY ONLY <1>3, <3>1, <3>2 DEF OffsetsInOrder
  <2>6. ms[i].first = ms[k].first + ms[k].count
    BY <1>3, <2>3, <2>5 DEF End
  <2> HIDE DEF before, k
  <2>7. before # {}
    BY <2>4
  <2>8. \E z \in before :
          /\ \A l \in before : l <= z
          /\ ms[i].first = ms[z].first + ms[z].count
    BY <2>4, <2>6
  <2> QED
    BY <2>7, <2>8 DEF before
<1> QED
  BY <1>4, <1>5

(* A file all of whose lines are whole parses.                             *)
LEMMA WholeParses ==
  ASSUME Healthy, WalInv, NEW i \in DOMAIN files,
         \A j \in DOMAIN files[i] : files[i][j].form = "line"
  PROVE  Parses(files[i])
<1>1. Len(files[i]) \in Nat /\ DOMAIN files[i] = 1..Len(files[i])
      /\ \A j \in DOMAIN files[i] : files[i][j].off \in Nat
  BY FileElements DEF WalInv, TypeOK
<1>2. ASSUME NEW j \in 2..Len(files[i])
      PROVE  files[i][j].off = files[i][j - 1].off + 1
  <2>1. j \in DOMAIN files[i] /\ j - 1 \in DOMAIN files[i] /\ 1 \in DOMAIN files[i]
    BY <1>1
  <2>2. /\ files[i][j].off = files[i][1].off + j - 1
        /\ files[i][j - 1].off = files[i][1].off + (j - 1) - 1
    BY <2>1 DEF WalInv, OffsetsInOrder
  <2> DEFINE a == files[i][1].off
  <2>3. a \in Nat /\ j \in Nat
    BY <1>1, <2>1
  <2>4. files[i][j].off = a + j - 1 /\ files[i][j - 1].off = a + (j - 1) - 1
    BY <2>2
  <2> HIDE DEF a
  <2> QED
    BY ONLY <2>3, <2>4
<1> QED
  BY <1>2 DEF Parses, Healthy

(* Recovery: open() accepts every disk a crash can leave, except the two   *)
(* it is documented to refuse, an orphan JSONL file and a torn line.       *)
THEOREM Recovery == ASSUME Healthy PROVE Spec => []Recoverable
<1>1. WalInv => Recoverable
  <2> SUFFICES ASSUME WalInv, ~Orphan, ~Torn PROVE DiskValid
    BY DEF Recoverable
  <2>1. /\ Len(files) \in Nat /\ DOMAIN files = 1..Len(files)
        /\ Len(metas) \in Nat /\ DOMAIN metas = 1..Len(metas)
        /\ \A i \in DOMAIN metas : metas[i].status \in {"OPEN", "SEALED"}
    BY DiskShape DEF WalInv
  <2>2. Len(files) = Len(metas)
    <3>1. ~(Len(files) > Len(metas))
      BY DEF Orphan
    <3>2. Len(metas) <= Len(files)
      BY <2>1 DEF WalInv, MetasAgree
    <3> DEFINE a == Len(files)
               b == Len(metas)
    <3>3. a \in Nat /\ b \in Nat /\ ~(a > b) /\ b <= a
      BY <2>1, <3>1, <3>2
    <3> HIDE DEF a, b
    <3>4. a = b
      BY ONLY <3>3
    <3> QED
      BY <3>4 DEF a, b
  <2>3. \A i \in DOMAIN files : Parses(files[i])
    <3> SUFFICES ASSUME NEW i \in DOMAIN files PROVE Parses(files[i])
      OBVIOUS
    <3>1. \A j \in DOMAIN files[i] : files[i][j].form = "line"
      BY DEF Torn, WalInv, LinesWhole
    <3> QED
      BY <3>1, WholeParses
  <2>4. \A i, k \in OpenSegments : i = k
    BY DEF OpenSegments, WalInv, MetasAgree
  <2>5. \A i \in SealedSegments :
          /\ i \in DOMAIN files /\ files[i] # <<>>
          /\ metas[i].count = Len(files[i]) /\ metas[i].first = files[i][1].off
    BY <2>1, <2>2 DEF SealedSegments, WalInv, MetasAgree
  <2>6. \A i \in SealedSegments : Matches(files[i], metas[i])
    BY <2>3, <2>5 DEF Matches
  <2> DEFINE ms == [i \in DOMAIN metas |->
                      IF i \in OpenSegments THEN Recovered(files[i]) ELSE metas[i]]
  <2>7. Continuous(ms)
    <3>1. DOMAIN ms = 1..Len(files)
      BY <2>1, <2>2
    <3>2. ASSUME NEW i \in 1..Len(files)
          PROVE  /\ ms[i].count = Len(files[i])
                 /\ files[i] # <<>> => ms[i].first = files[i][1].off
      <4>1. CASE i \in OpenSegments
        <5>1. ms[i] = Recovered(files[i])
          BY <2>1, <2>2, <4>1
        <5> QED
          BY <5>1 DEF Recovered
      <4>2. CASE i \notin OpenSegments
        <5>1. ms[i] = metas[i] /\ i \in SealedSegments
          BY <2>1, <2>2, <4>2 DEF OpenSegments, SealedSegments
        <5> QED
          BY <2>5, <5>1
      <4> QED
        BY <4>1, <4>2
    <3> HIDE DEF ms
    <3> QED
      BY SMTT(30), <2>1, <3>1, <3>2, ExactIsContinuous
  <2> QED
    BY <2>1, <2>2, <2>3, <2>4, <2>6, <2>7 DEF DiskValid, OpenSegments
<1> QED
  BY <1>1, WalInductive, PTL

(* A live instance can always read its whole log back.                     *)
THEOREM ReadBack == ASSUME Healthy PROVE Spec => []ReadsBack
<1>1. WalInv => ReadsBack
  <2> SUFFICES ASSUME WalInv, status = "up", handle
               PROVE  /\ \A i \in 1..cur : Matches(files[i], SegmentMeta(i))
                      /\ Continuous([i \in 1..cur |-> SegmentMeta(i)])
    BY DEF ReadsBack
  <2>1. /\ cur = Len(files) /\ count = Len(files[cur]) /\ cur \in DOMAIN files
        /\ (count > 0 <=> files[cur] # <<>>)
        /\ (count > 0 => first = files[cur][1].off)
    BY ActiveSegment
  <2>2. /\ Len(files) \in Nat /\ DOMAIN files = 1..Len(files)
        /\ Len(metas) \in Nat /\ DOMAIN metas = 1..Len(metas)
    BY DiskShape DEF WalInv
  <2>3. ASSUME NEW i \in 1..cur
        PROVE  /\ SegmentMeta(i).count = Len(files[i])
               /\ files[i] # <<>> => SegmentMeta(i).first = files[i][1].off
    <3>1. CASE i = cur
      BY <2>1, <3>1 DEF SegmentMeta, CurrentMeta
    <3>2. CASE i # cur
      <4>1. i \in DOMAIN metas
        BY <2>1, <2>2, <3>2 DEF WalInv, MetasAgree
      <4>2. metas[i].count = Len(files[i]) /\ metas[i].first = files[i][1].off
        BY <2>1, <3>2, <4>1 DEF WalInv, MetasAgree
      <4> QED
        BY <3>2, <4>2 DEF SegmentMeta
    <3> QED
      BY <3>1, <3>2
  <2>4. \A i \in DOMAIN files : Parses(files[i])
    <3> SUFFICES ASSUME NEW i \in DOMAIN files PROVE Parses(files[i])
      OBVIOUS
    <3>1. \A j \in DOMAIN files[i] : files[i][j].form = "line"
      BY DEF WalInv, LinesWhole
    <3> QED
      BY <3>1, WholeParses
  <2>5. \A i \in 1..cur : Matches(files[i], SegmentMeta(i))
    BY <2>1, <2>2, <2>3, <2>4 DEF Matches
  <2> DEFINE ms == [i \in 1..cur |-> SegmentMeta(i)]
  <2>6. DOMAIN ms = 1..Len(files) /\ \A i \in 1..Len(files) : ms[i] = SegmentMeta(i)
    BY <2>1
  <2>7. \A i \in 1..Len(files) :
          /\ ms[i].count = Len(files[i])
          /\ files[i] # <<>> => ms[i].first = files[i][1].off
    BY <2>1, <2>3, <2>6
  <2> HIDE DEF ms
  <2>8. Continuous(ms)
    BY SMTT(30), <2>2, <2>6, <2>7, ExactIsContinuous
  <2> QED
    BY <2>5, <2>8 DEF ms
<1> QED
  BY <1>1, WalInductive, PTL

-----------------------------------------------------------------------------
(* What holds under every fault and with empty seals: segments are created *)
(* and sealed in order, and nothing acknowledged leaves the disk.          *)

(* Metadata lags at most one file behind, only the last segment is OPEN,   *)
(* and only an OPEN or unnamed last segment is open for writing.           *)
SegmentShape ==
  /\ Len(metas) <= Len(files) /\ Len(files) <= Len(metas) + 1
  /\ \A i \in DOMAIN metas : metas[i].status = "OPEN" => i = Len(files)
  /\ pc # "idle" => status = "up"
  /\ handle => status = "up"
  /\ pc \in {"boot_meta", "append_meta", "seal", "new_meta"} => handle
  /\ pc = "new_file" =>
       /\ ~handle /\ cur = Len(files) /\ Len(metas) = Len(files)
       /\ \A i \in DOMAIN metas : metas[i].status = "SEALED"
  /\ handle =>
       /\ cur = Len(files) /\ cur > 0
       /\ cur \in DOMAIN metas => metas[cur].status = "OPEN"

FaultInv == TypeOK /\ SegmentShape /\ RecordsOnDisk

(* Writing a line, whole or torn, to the active segment.                   *)
LEMMA WriteKeepsRecords ==
  ASSUME FaultInv, CanAppend, NEW e \in Events, NEW form \in Forms,
         WriteToActive(e, form)
  PROVE  /\ Len(files') = Len(files)
         /\ \A r : OnDisk(r) => OnDisk(r)'
         /\ form = "line" => \A r : r.off = nextOff /\ r.ev = e => OnDisk(r)'
         /\ \A i \in DOMAIN files : i # cur => files'[i] = files[i]
<1> DEFINE w == [off |-> nextOff, ev |-> e, form |-> form]
<1>1. TypeOK /\ cur = Len(files) /\ cur > 0
  BY DEF FaultInv, SegmentShape, CanAppend
<1>2. cur \in DOMAIN files
  BY <1>1, DiskShape
<1>3. w \in Writes /\ files' = [files EXCEPT ![cur] = Append(@, w)]
  BY <1>1 DEF TypeOK, Writes, WriteToActive
<1> HIDE DEF w
<1>4. /\ Len(files') = Len(files) /\ DOMAIN files' = DOMAIN files
      /\ \A i \in DOMAIN files : i # cur => files'[i] = files[i]
      /\ DOMAIN files'[cur] = 1..(Len(files[cur]) + 1)
      /\ \A j \in 1..Len(files[cur]) : files'[cur][j] = files[cur][j]
      /\ files'[cur][Len(files[cur]) + 1] = w
  BY <1>1, <1>2, <1>3, WriteEffect
<1>5. Len(files[cur]) \in Nat /\ DOMAIN files[cur] = 1..Len(files[cur])
  BY <1>1, <1>2, FileElements DEF TypeOK
<1>6. ASSUME NEW r, OnDisk(r) PROVE OnDisk(r)'
  <2>1. PICK i \in DOMAIN files : \E j \in DOMAIN files[i] :
          files[i][j] = [off |-> r.off, ev |-> r.ev, form |-> "line"]
    BY <1>6 DEF OnDisk
  <2>2. PICK j \in DOMAIN files[i] :
          files[i][j] = [off |-> r.off, ev |-> r.ev, form |-> "line"]
    BY <2>1
  <2>3. i \in DOMAIN files' /\ j \in DOMAIN files'[i] /\ files'[i][j] = files[i][j]
    BY <1>4, <1>5
  <2> QED
    BY <2>2, <2>3 DEF OnDisk
<1>7. ASSUME form = "line", NEW r, r.off = nextOff, r.ev = e PROVE OnDisk(r)'
  <2>1. cur \in DOMAIN files' /\ Len(files[cur]) + 1 \in DOMAIN files'[cur]
    BY <1>2, <1>4, <1>5
  <2>2. files'[cur][Len(files[cur]) + 1] = [off |-> r.off, ev |-> r.ev, form |-> "line"]
    BY <1>4, <1>7 DEF w
  <2> QED
    BY <2>1, <2>2 DEF OnDisk
<1> QED
  BY <1>4, <1>6, <1>7

(* The steps that write a line.                                            *)
LEMMA WriteStepsFault ==
  ASSUME FaultInv, TypeOK', NEW e \in Events,
         \/ AppendLine(e) \/ AppendLineFails(e)
         \/ \E form \in {"cut", "partial"} : CrashInAppend(e, form)
  PROVE  FaultInv'
<1>1. PICK form \in Forms : CanAppend /\ WriteToActive(e, form) /\ (AppendLine(e) => form = "line")
  BY DEF AppendLine, AppendLineFails, CrashInAppend, Forms
<1>2. /\ Len(files') = Len(files)
      /\ \A r : OnDisk(r) => OnDisk(r)'
      /\ form = "line" => \A r : r.off = nextOff /\ r.ev = e => OnDisk(r)'
  BY <1>1, WriteKeepsRecords
<1>3. /\ metas' = metas /\ cur' = cur /\ pc = "idle" /\ acked' = acked
      /\ handle /\ status = "up"
      /\ \/ handle' = handle /\ status' = status /\ pc' \in {"idle", "append_meta"}
         \/ ~handle' /\ pc' = "idle"
  BY DEF AppendLine, AppendLineFails, CrashInAppend, CanAppend, memory
<1>4. SegmentShape'
  BY <1>2, <1>3 DEF FaultInv, SegmentShape
<1>5. RecordsOnDisk'
  <2>1. pending' = pending \/ (AppendLine(e) /\ pending' = {[off |-> nextOff, ev |-> e]})
    BY DEF AppendLine, AppendLineFails, CrashInAppend
  <2>2. \A r \in acked' \cup pending : OnDisk(r)'
    BY <1>2, <1>3 DEF FaultInv, RecordsOnDisk
  <2>3. CASE AppendLine(e) /\ pending' = {[off |-> nextOff, ev |-> e]}
    BY <1>1, <1>2, <2>2, <2>3 DEF RecordsOnDisk
  <2> QED
    BY <2>1, <2>2, <2>3 DEF RecordsOnDisk
<1> QED
  BY <1>4, <1>5 DEF FaultInv

(* The steps that create a JSONL file.                                     *)
LEMMA NewFileStepsFault ==
  ASSUME FaultInv, TypeOK', OpenNew \/ NewFile
  PROVE  FaultInv'
<1>1. /\ files' = Append(files, <<>>) /\ metas' = metas /\ handle' /\ status' = "up"
      /\ pc' \in {"boot_meta", "new_meta"}
      /\ cur' = Len(files) + 1 /\ Len(metas) = Len(files)
      /\ pending' = pending /\ acked' = acked
  BY DEF OpenNew, NewFile, DiskValid, FaultInv, SegmentShape
<1>2. \A i \in DOMAIN metas : metas[i].status # "OPEN"
  BY DEF OpenNew, NewFile, OpenSegments, FaultInv, SegmentShape
<1>3. /\ Len(files') = Len(files) + 1 /\ DOMAIN files' = 1..(Len(files) + 1)
      /\ \A i \in DOMAIN files : files'[i] = files[i]
  BY <1>1, NewFileEffect DEF FaultInv
<1>4. /\ Len(files) \in Nat /\ DOMAIN files = 1..Len(files)
      /\ Len(metas) \in Nat /\ DOMAIN metas = 1..Len(metas)
  BY DiskShape DEF FaultInv
<1>5. \A r : OnDisk(r) => OnDisk(r)'
  BY ONLY <1>3, <1>4 DEF OnDisk
<1>6. RecordsOnDisk'
  BY <1>1, <1>5, RecordsKept DEF FaultInv
<1>7. SegmentShape'
  BY ONLY <1>1, <1>2, <1>3, <1>4 DEF SegmentShape
<1> QED
  BY <1>6, <1>7 DEF FaultInv

(* The steps that save the active segment's metadata.                      *)
LEMMA SaveStepsFault ==
  ASSUME FaultInv, TypeOK', handle, files' = files, cur' = cur,
         pending' \subseteq pending, acked' \subseteq acked \cup pending,
         NEW m \in {CurrentMeta, SealedMeta}, SaveMetadata(cur, m),
         \/ m = CurrentMeta /\ pc' \in {"idle", "seal"}
            /\ (handle' => status' = "up") /\ (pc' = "seal" => handle')
         \/ m = SealedMeta /\ pc' \in {"idle", "new_file"} /\ ~handle' /\ status' = "up"
  PROVE  FaultInv'
<1>1. /\ TypeOK /\ cur = Len(files) /\ cur > 0
      /\ Len(metas) <= Len(files) /\ Len(files) <= Len(metas) + 1
  BY DEF FaultInv, SegmentShape
<1>2. m \in Metas /\ CurrentMeta.status = "OPEN" /\ SealedMeta.status = "SEALED"
  BY <1>1, MemoryMetas DEF CurrentMeta, SealedMeta
<1>3. /\ Len(metas') = Len(files) /\ DOMAIN metas' = DOMAIN files
      /\ metas'[cur] = m
      /\ \A i \in DOMAIN metas' : i # cur =>
           i \in DOMAIN metas /\ metas'[i] = metas[i]
  BY <1>1, <1>2, SaveEffect
<1>4. /\ Len(files) \in Nat
      /\ \A i \in DOMAIN metas : metas[i].status \in {"OPEN", "SEALED"}
      /\ \A i \in DOMAIN metas : metas[i].status = "OPEN" => i = cur
  BY <1>1, DiskShape DEF FaultInv, SegmentShape
<1>5. \A i \in DOMAIN metas' : i # cur => metas'[i].status = "SEALED"
  BY <1>3, <1>4
<1>6. SegmentShape'
  <2>1. CASE m = CurrentMeta
    BY <1>1, <1>2, <1>3, <1>4, <1>5, <2>1 DEF SegmentShape
  <2>2. CASE m = SealedMeta
    BY <1>1, <1>2, <1>3, <1>4, <1>5, <2>2 DEF SegmentShape
  <2> QED
    BY <2>1, <2>2
<1>7. RecordsOnDisk'
  BY SameFiles, RecordsKept DEF FaultInv
<1> QED
  BY <1>6, <1>7 DEF FaultInv

(* The steps after which the disk is what it was.                          *)
LEMMA QuietStepsFault ==
  ASSUME FaultInv, TypeOK', files' = files, metas' = metas,
         pending' \subseteq pending, acked' \subseteq acked \cup pending,
         handle' => /\ status' = "up" /\ cur' = Len(files) /\ cur' > 0
                    /\ cur' \in DOMAIN metas => metas[cur'].status = "OPEN",
         pc' = "idle" \/ (pc' \in {"boot_meta", "append_meta", "seal", "new_meta"} /\ handle')
  PROVE  FaultInv'
<1>1. SegmentShape'
  BY DEF FaultInv, SegmentShape
<1>2. RecordsOnDisk'
  BY SameFiles, RecordsKept DEF FaultInv
<1> QED
  BY <1>1, <1>2 DEF FaultInv

(* The steps that save, or fail to save, the metadata file.                *)
LEMMA MetaStepsFault ==
  ASSUME FaultInv, TypeOK',
         \/ BootMeta \/ BootMetaFails \/ SaveAppendMeta \/ SaveAppendMetaFails
         \/ SealCurrentSegment \/ RolloverSeal \/ SealMetaFails
         \/ NewMeta \/ NewMetaFails
  PROVE  FaultInv'
<1>1. /\ handle /\ status = "up" /\ cur = Len(files) /\ cur > 0
      /\ cur \in DOMAIN metas => metas[cur].status = "OPEN"
  BY DEF FaultInv, SegmentShape, BootMeta, BootMetaFails, SaveAppendMeta,
     SaveAppendMetaFails, SealCurrentSegment, RolloverSeal, DoSeal, SealMetaFails,
     NewMeta, NewMetaFails
<1>2. /\ files' = files /\ cur' = cur
      /\ pending' \subseteq pending /\ acked' \subseteq acked \cup pending
  BY DEF BootMeta, BootMetaFails, SaveAppendMeta, SaveAppendMetaFails,
     SealCurrentSegment, RolloverSeal, DoSeal, SealMetaFails, NewMeta,
     NewMetaFails, Return, Raise, memory
<1>3. CASE SealCurrentSegment \/ RolloverSeal \/ SealMetaFails
  <2>1. /\ ~handle' /\ status' = "up" /\ pc' \in {"idle", "new_file"}
        /\ \/ SaveMetadata(cur, SealedMeta)
           \/ metas' = metas /\ pc' = "idle"
    BY <1>1, <1>3 DEF SealCurrentSegment, RolloverSeal, DoSeal, SealMetaFails,
       SaveMetadataFails, Raise
  <2>2. CASE SaveMetadata(cur, SealedMeta)
    BY <1>1, <1>2, <2>1, <2>2, SaveStepsFault
  <2>3. CASE metas' = metas /\ pc' = "idle"
    BY <1>2, <2>1, <2>3, QuietStepsFault
  <2> QED
    BY <2>1, <2>2, <2>3
<1>4. CASE \/ BootMeta \/ BootMetaFails \/ SaveAppendMeta \/ SaveAppendMetaFails
           \/ NewMeta \/ NewMetaFails
  <2>1. /\ handle' => status' = "up"
        /\ pc' \in {"idle", "seal"} /\ (pc' = "seal" => handle')
        /\ \/ SaveMetadata(cur, CurrentMeta)
           \/ metas' = metas /\ pc' = "idle"
    BY <1>1, <1>4 DEF BootMeta, BootMetaFails, SaveAppendMeta, SaveAppendMetaFails,
       NewMeta, NewMetaFails, SaveMetadataFails, Return, Raise, memory
  <2>2. CASE SaveMetadata(cur, CurrentMeta)
    BY <1>1, <1>2, <2>1, <2>2, SaveStepsFault
  <2>3. CASE metas' = metas /\ pc' = "idle"
    BY <1>1, <1>2, <2>1, <2>3, QuietStepsFault
  <2> QED
    BY <2>1, <2>2, <2>3
<1> QED
  BY <1>3, <1>4

(* The steps that leave the disk alone.                                    *)
LEMMA OtherStepsFault ==
  ASSUME FaultInv, TypeOK',
         \/ OpenResume \/ OpenRefused \/ Close \/ Crash
         \/ SealFlushFails \/ NewFileFails
  PROVE  FaultInv'
<1>1. /\ files' = files /\ metas' = metas
      /\ pending' \subseteq pending /\ acked' \subseteq acked \cup pending
  BY DEF OpenResume, OpenRefused, Close, Crash, SealFlushFails, NewFileFails, Raise
<1>2. CASE OpenResume
  <2>1. PICK i \in OpenSegments : cur' = i
    BY <1>2 DEF OpenResume
  <2>2. i \in DOMAIN metas /\ metas[i].status = "OPEN" /\ i = Len(files)
    BY DEF OpenSegments, FaultInv, SegmentShape
  <2>3. i > 0
    BY <2>2, DiskShape DEF FaultInv
  <2>4. status' = "up" /\ handle' /\ pc' = "boot_meta"
    BY <1>2 DEF OpenResume
  <2> QED
    BY <1>1, <2>1, <2>2, <2>3, <2>4, QuietStepsFault
<1>3. CASE OpenRefused \/ Close \/ Crash \/ SealFlushFails \/ NewFileFails
  <2>1. pc' = "idle" /\ ~handle'
    BY <1>3 DEF OpenRefused, Close, Crash, SealFlushFails, NewFileFails, Raise,
       memory, FaultInv, SegmentShape
  <2> QED
    BY <1>1, <2>1, QuietStepsFault
<1> QED
  BY <1>2, <1>3

(* At most one segment, the last, is open for writing, and no record that  *)
(* append() has returned leaves the disk: this much holds under every      *)
(* fault, for every caller and every payload.                              *)
THEOREM FaultInductive == Spec => []FaultInv
<1>1. Init => FaultInv
  <2> SUFFICES ASSUME Init PROVE FaultInv
    OBVIOUS
  <2>1. TypeOK
    BY InitType
  <2>2. SegmentShape
    BY DEF Init, SegmentShape
  <2>3. RecordsOnDisk
    BY DEF Init, RecordsOnDisk
  <2> QED
    BY <2>1, <2>2, <2>3 DEF FaultInv
<1>2. FaultInv /\ [Next]_vars => FaultInv'
  <2> SUFFICES ASSUME FaultInv, [Next]_vars PROVE FaultInv'
    OBVIOUS
  <2>1. TypeOK'
    BY NextType DEF FaultInv
  <2>2. CASE UNCHANGED vars
    <3>1. SegmentShape'
      BY <2>2 DEF vars, FaultInv, SegmentShape
    <3>2. RecordsOnDisk'
      BY <2>2 DEF vars, FaultInv, RecordsOnDisk, OnDisk
    <3> QED
      BY <2>1, <3>1, <3>2 DEF FaultInv
  <2>3. ASSUME NEW e \in Events,
               \/ AppendLine(e) \/ AppendLineFails(e)
               \/ \E form \in {"cut", "partial"} : CrashInAppend(e, form)
        PROVE  FaultInv'
    BY <2>1, <2>3, WriteStepsFault
  <2>4. CASE OpenNew \/ NewFile
    BY <2>1, <2>4, NewFileStepsFault
  <2>5. CASE \/ BootMeta \/ BootMetaFails \/ SaveAppendMeta \/ SaveAppendMetaFails
             \/ SealCurrentSegment \/ RolloverSeal \/ SealMetaFails
             \/ NewMeta \/ NewMetaFails
    BY <2>1, <2>5, MetaStepsFault
  <2>6. CASE \/ OpenResume \/ OpenRefused \/ Close \/ Crash
             \/ SealFlushFails \/ NewFileFails
    BY <2>1, <2>6, OtherStepsFault
  <2> QED
    BY <2>2, <2>3, <2>4, <2>5, <2>6 DEF Next
<1> QED
  BY <1>1, <1>2, PTL DEF Spec

(* Durability, under every fault: whatever fails, crashes or restarts, a   *)
(* record whose append() returned APPENDED is still on the disk as a whole *)
(* line at the offset it was given.                                        *)
THEOREM Durability == Spec => []AckedOnDisk
<1>1. FaultInv => AckedOnDisk
  BY DEF FaultInv, RecordsOnDisk, AckedOnDisk
<1> QED
  BY <1>1, FaultInductive, PTL

(* No step changes a sealed segment: the sealed prefix of the log is       *)
(* immutable, under every fault, which is what lets it be relayed.         *)
THEOREM SealedSegmentsImmutable == Spec => SealedImmutable
<1>1. FaultInv /\ [Next]_vars =>
        \A i \in SealedSegments : files'[i] = files[i] /\ metas'[i] = metas[i]
  <2> SUFFICES ASSUME FaultInv, [Next]_vars, NEW i \in SealedSegments
               PROVE  files'[i] = files[i] /\ metas'[i] = metas[i]
    OBVIOUS
  <2>1. /\ i \in DOMAIN metas /\ i \in DOMAIN files /\ metas[i].status = "SEALED"
    <3>1. /\ Len(files) \in Nat /\ DOMAIN files = 1..Len(files)
          /\ Len(metas) \in Nat /\ DOMAIN metas = 1..Len(metas)
      BY DiskShape DEF FaultInv
    <3>2. Len(metas) <= Len(files)
      BY <3>1 DEF FaultInv, SegmentShape
    <3>3. i \in DOMAIN metas /\ metas[i].status = "SEALED"
      BY DEF SealedSegments
    <3> QED
      BY ONLY <3>1, <3>2, <3>3
  <2>2. handle => i # cur /\ cur = Len(files) /\ cur > 0 /\ cur \in DOMAIN files
                  /\ CurrentMeta \in Metas /\ SealedMeta \in Metas
    BY <2>1, DiskShape, MemoryMetas DEF FaultInv, SegmentShape
  <2>3. metas' = metas
        \/ (handle /\ \E m \in {CurrentMeta, SealedMeta} : SaveMetadata(cur, m))
    BY DEF Next, vars, OpenResume, OpenNew, OpenRefused, BootMeta, BootMetaFails,
       Close, Crash, AppendLine, AppendLineFails, CrashInAppend, SaveAppendMeta,
       SaveAppendMetaFails, SealCurrentSegment, RolloverSeal, DoSeal,
       SealFlushFails, SealMetaFails, NewFile, NewFileFails, NewMeta,
       NewMetaFails, SaveMetadataFails, FaultInv, SegmentShape
  <2>4. metas'[i] = metas[i]
    <3>1. ASSUME handle, NEW m \in {CurrentMeta, SealedMeta}, SaveMetadata(cur, m)
          PROVE  metas'[i] = metas[i]
      <4>1. m \in Metas
        BY <2>2, <3>1
      <4>2. \A k \in DOMAIN metas' : k # cur => metas'[k] = metas[k]
        BY <2>2, <3>1, <4>1, SaveEffect DEF FaultInv, SegmentShape
      <4>3. DOMAIN metas' = DOMAIN files
        BY <2>2, <3>1, <4>1, SaveEffect DEF FaultInv, SegmentShape
      <4> QED
        BY <2>1, <2>2, <3>1, <4>2, <4>3
    <3> QED
      BY <2>3, <3>1
  <2>5. \/ files' = files
        \/ files' = Append(files, <<>>)
        \/ handle /\ \E e \in Events, form \in Forms : WriteToActive(e, form)
    BY DEF Next, vars, OpenResume, OpenNew, OpenRefused, BootMeta, BootMetaFails,
       Close, Crash, AppendLine, AppendLineFails, CrashInAppend, SaveAppendMeta,
       SaveAppendMetaFails, SealCurrentSegment, RolloverSeal, DoSeal,
       SealFlushFails, SealMetaFails, NewFile, NewFileFails, NewMeta,
       NewMetaFails, CanAppend, Forms
  <2>6. files'[i] = files[i]
    <3>1. CASE files' = Append(files, <<>>)
      BY <2>1, <3>1, NewFileEffect DEF FaultInv
    <3>2. ASSUME handle, NEW e \in Events, NEW form \in Forms, WriteToActive(e, form)
          PROVE  files'[i] = files[i]
      <4> DEFINE w == [off |-> nextOff, ev |-> e, form |-> form]
      <4>1. w \in Writes /\ files' = [files EXCEPT ![cur] = Append(@, w)]
        BY <3>2 DEF FaultInv, TypeOK, Writes, WriteToActive
      <4> HIDE DEF w
      <4> QED
        BY <2>1, <2>2, <3>2, <4>1, WriteEffect DEF FaultInv
    <3> QED
      BY <2>5, <3>1, <3>2
  <2> QED
    BY <2>4, <2>6
<1>2. FaultInv /\ [Next]_vars =>
        [\A i \in SealedSegments :
           /\ files'[i] = files[i]
           /\ metas'[i] = metas[i]]_vars
  BY <1>1
<1> QED
  BY <1>2, FaultInductive, PTL DEF Spec, SealedImmutable

-----------------------------------------------------------------------------
(* The journal's log.                                                      *)

(* A whole line at offset o holds event e.                                 *)
Holds(o, e) ==
  \E i \in DOMAIN files : \E j \in DOMAIN files[i] :
    /\ files[i][j].form # "partial"
    /\ files[i][j].off = o /\ files[i][j].ev = e

(* The log has exactly what whole lines hold, and no gap.                  *)
LogShape ==
  /\ DiskNext \in Nat
  /\ \A o, e : Holds(o, e) =>
       o \in Nat /\ o < DiskNext /\ e \in Events /\ DiskEvent(o) = e
  /\ \A o \in Nat : o < DiskNext => \E e : Holds(o, e)

LEMMA EventOfOffset ==
  ASSUME WalInv, NEW i \in DOMAIN files, NEW j \in DOMAIN files[i],
         files[i][j].form # "partial"
  PROVE  DiskEvent(files[i][j].off) = files[i][j].ev
<1> DEFINE o == files[i][j].off
           At(k, l) == files[k][l].off = o /\ files[k][l].form # "partial"
           a == CHOOSE k \in NonEmpty : \E l \in DOMAIN files[k] : At(k, l)
           b == CHOOSE l \in DOMAIN files[a] : At(a, l)
<1>1. i \in NonEmpty
  BY DEF NonEmpty
<1>2. a \in NonEmpty /\ \E l \in DOMAIN files[a] : At(a, l)
  BY <1>1
<1>3. b \in DOMAIN files[a] /\ At(a, b)
  BY <1>2
<1>4. a \in DOMAIN files
  BY <1>2 DEF NonEmpty
<1>5. DiskEvent(o) = files[a][b].ev
  BY DEF DiskEvent
<1> HIDE DEF a, b
<1>6. a = i /\ b = j
  BY <1>3, <1>4, OffsetsDistinct
<1> QED
  BY <1>5, <1>6

(* The last whole line on the disk.                                        *)
LEMMA LastLine ==
  ASSUME WalInv, NonEmpty # {}
  PROVE  \E i \in DOMAIN files : \E j \in DOMAIN files[i] :
           /\ files[i][j].form # "partial"
           /\ DiskNext = files[i][j].off + 1
           /\ \A k \in DOMAIN files : \A l \in DOMAIN files[k] :
                files[k][l].form # "partial" => k < i \/ (k = i /\ l <= j)
<1> DEFINE i == CHOOSE i \in NonEmpty : \A k \in NonEmpty : k <= i
           whole == {j \in DOMAIN files[i] : files[i][j].form # "partial"}
           j == CHOOSE j \in whole : \A k \in whole : k <= j
<1>1. DOMAIN files = 1..Len(files) /\ Len(files) \in Nat
  BY DiskShape DEF WalInv
<1>2. NonEmpty \in SUBSET (1..Len(files))
  BY <1>1 DEF NonEmpty
<1>3. \E m \in NonEmpty : \A k \in NonEmpty : k <= m
  BY <1>1, <1>2, HasMaximum
<1>4. i \in NonEmpty /\ \A k \in NonEmpty : k <= i
  BY <1>3
<1>5. DiskNext = files[i][j].off + 1
  BY DEF DiskNext
<1> HIDE DEF i
<1>6. i \in DOMAIN files /\ whole # {}
  BY <1>4 DEF NonEmpty
<1>7. whole \in SUBSET (1..Len(files[i])) /\ Len(files[i]) \in Nat
  BY <1>6, FileElements DEF WalInv, TypeOK
<1>8. \E m \in whole : \A k \in whole : k <= m
  <2> HIDE DEF whole
  <2> QED
    BY <1>6, <1>7, HasMaximum
<1>9. j \in whole /\ \A k \in whole : k <= j
  BY <1>8
<1> HIDE DEF j
<1>10. ASSUME NEW k \in DOMAIN files, NEW l \in DOMAIN files[k], files[k][l].form # "partial"
       PROVE  k < i \/ (k = i /\ l <= j)
  <2>1. k \in NonEmpty
    BY <1>10 DEF NonEmpty
  <2>2. k <= i
    BY <2>1, <1>4
  <2>3. k = i => l \in whole
    BY <1>10
  <2> HIDE DEF whole
  <2> QED
    BY <2>2, <2>3, <1>1, <1>6, <1>9
<1> QED
  BY <1>5, <1>6, <1>9, <1>10

(* Every offset below an occupied one is occupied.                         *)
LEMMA NoGap ==
  ASSUME WalInv, NEW i \in DOMAIN files, NEW j \in DOMAIN files[i],
         NEW o \in Nat, o <= files[i][j].off
  PROVE  \E k \in DOMAIN files : \E l \in DOMAIN files[k] : files[k][l].off = o
<1> DEFINE S == {k \in DOMAIN files : files[k] # <<>> /\ files[k][1].off <= o}
<1>1. DOMAIN files = 1..Len(files) /\ Len(files) \in Nat
  BY DiskShape DEF WalInv
<1>2. \A k \in DOMAIN files :
        /\ Len(files[k]) \in Nat /\ DOMAIN files[k] = 1..Len(files[k])
        /\ files[k] # <<>> <=> Len(files[k]) > 0
  BY FileElements DEF WalInv, TypeOK
<1>3. files[i] # <<>>
  BY <1>2
<1>4. 1 \in S
  <2>1. 1 \in DOMAIN files
    BY <1>1
  <2>2. files[1] # <<>>
    BY <1>1, <1>3, <2>1 DEF WalInv, OffsetsInOrder
  <2>3. files[1][1].off = 0
    BY <1>1, <2>1, <2>2 DEF WalInv, OffsetsInOrder
  <2> QED
    BY <2>1, <2>2, <2>3
<1>5. S \in SUBSET (1..Len(files)) /\ S # {}
  BY <1>1, <1>4
<1>6. PICK k \in S : \A m \in S : m <= k
  <2> HIDE DEF S
  <2> QED
    BY <1>1, <1>5, HasMaximum
<1>7. k \in DOMAIN files /\ files[k] # <<>> /\ files[k][1].off <= o
  BY <1>6
<1>8. 1 \in DOMAIN files[k] /\ files[k][1].off \in Nat
  BY <1>2, <1>7, OffsetRanges
<1>9. o < End(k)
  <2>1. CASE k = i
    BY <2>1, <1>7, OffsetRanges
  <2>2. CASE k > i
    BY <2>2, <1>7, <1>8, LaterSegment, OffsetRanges
  <2>3. CASE k < i
    <3> DEFINE n == k + 1
    <3>1. n \in DOMAIN files /\ n > 1
      BY <1>1, <1>7, <2>3
    <3>2. files[n] # <<>>
      BY <3>1, <1>1, <1>3, <2>3 DEF WalInv, OffsetsInOrder
    <3>3. files[n][1].off = End(k)
      BY <1>1, <1>7, <3>1, <3>2 DEF WalInv, OffsetsInOrder
    <3>4. n \notin S
      BY <1>1, <1>6, <1>7
    <3>5. End(k) \in Nat
      BY <1>8, <1>7, OffsetRanges
    <3> QED
      BY <3>1, <3>2, <3>3, <3>4, <3>5
  <2> QED
    BY <1>1, <1>7, <2>1, <2>2, <2>3
<1> DEFINE l == o - files[k][1].off + 1
<1>10. l \in DOMAIN files[k]
  BY <1>2, <1>7, <1>8, <1>9 DEF End
<1>11. files[k][l].off = files[k][1].off + l - 1
  BY <1>7, <1>10 DEF WalInv, OffsetsInOrder
<1>12. files[k][l].off = o
  BY <1>8, <1>11
<1> QED
  BY <1>7, <1>10, <1>12

LEMMA LogShapeHolds == WalInv => LogShape
<1> SUFFICES ASSUME WalInv PROVE LogShape
  OBVIOUS
<1>0. DOMAIN files = 1..Len(files) /\ Len(files) \in Nat
  BY DiskShape DEF WalInv
<1>1. ASSUME NEW o, NEW e, Holds(o, e)
      PROVE  o \in Nat /\ e \in Events /\ DiskEvent(o) = e
  <2>1. PICK i \in DOMAIN files : \E j \in DOMAIN files[i] :
          files[i][j].form # "partial" /\ files[i][j].off = o /\ files[i][j].ev = e
    BY <1>1 DEF Holds
  <2>2. PICK j \in DOMAIN files[i] :
          files[i][j].form # "partial" /\ files[i][j].off = o /\ files[i][j].ev = e
    BY <2>1
  <2>3. o \in Nat
    BY <2>2, OffsetRanges
  <2>4. files[i][j] \in Writes
    BY FileElements DEF WalInv, TypeOK
  <2>5. e \in Events
    BY <2>2, <2>4 DEF Writes
  <2> QED
    BY <2>2, <2>3, <2>5, EventOfOffset
<1>2. CASE NonEmpty = {}
  <2>1. DiskNext = 0
    BY <1>2 DEF DiskNext
  <2>2. \A o, e : ~Holds(o, e)
    BY <1>2 DEF Holds, NonEmpty
  <2> QED
    BY <2>1, <2>2 DEF LogShape
<1>3. CASE NonEmpty # {}
  <2>1. PICK i \in DOMAIN files : \E j \in DOMAIN files[i] :
           /\ files[i][j].form # "partial"
           /\ DiskNext = files[i][j].off + 1
           /\ \A k \in DOMAIN files : \A l \in DOMAIN files[k] :
                files[k][l].form # "partial" => k < i \/ (k = i /\ l <= j)
    BY <1>3, LastLine
  <2>2. PICK j \in DOMAIN files[i] :
           /\ files[i][j].form # "partial"
           /\ DiskNext = files[i][j].off + 1
           /\ \A k \in DOMAIN files : \A l \in DOMAIN files[k] :
                files[k][l].form # "partial" => k < i \/ (k = i /\ l <= j)
    BY <2>1
  <2>3. files[i][j].off \in Nat /\ DiskNext \in Nat
    BY <2>2, OffsetRanges
  <2>4. ASSUME NEW o, NEW e, Holds(o, e) PROVE o < DiskNext
    <3>1. PICK k \in DOMAIN files : \E l \in DOMAIN files[k] :
            files[k][l].form # "partial" /\ files[k][l].off = o /\ files[k][l].ev = e
      BY <2>4 DEF Holds
    <3>2. PICK l \in DOMAIN files[k] :
            files[k][l].form # "partial" /\ files[k][l].off = o /\ files[k][l].ev = e
      BY <3>1
    <3>3. k < i \/ (k = i /\ l <= j)
      BY <2>2, <3>2
    <3>4. o \in Nat
      BY <3>2, OffsetRanges
    <3>5. CASE k < i
      BY <2>2, <2>3, <3>2, <3>4, <3>5, LaterSegment
    <3>6. CASE k = i /\ l <= j
      BY <2>2, <2>3, <3>2, <3>4, <3>6, WithinSegment
    <3> QED
      BY <3>3, <3>5, <3>6
  <2>5. ASSUME NEW o \in Nat, o < DiskNext PROVE \E e : Holds(o, e)
    <3>1. o <= files[i][j].off
      BY <2>2, <2>3, <2>5
    <3>2. PICK k \in DOMAIN files : \E l \in DOMAIN files[k] : files[k][l].off = o
      BY <3>1, NoGap
    <3>3. PICK l \in DOMAIN files[k] : files[k][l].off = o
      BY <3>2
    <3>4. files[k][l].form # "partial"
      <4>1. SUFFICES ASSUME files[k][l].form = "partial" PROVE FALSE
        OBVIOUS
      <4>2. k = Len(files) /\ l = Len(files[k])
        BY <4>1 DEF WalInv, LinesWhole
      <4>3. CASE k # i
        <5>1. i < k
          BY <1>0, <4>2, <4>3
        <5> QED
          BY <2>3, <3>1, <3>3, <5>1, LaterSegment
      <4>4. CASE k = i
        <5>1. j <= l /\ j # l
          BY <2>2, <4>1, <4>2, <4>4, FileElements DEF WalInv, TypeOK
        <5>2. files[i][l].off - files[i][j].off = l - j /\ j \in Nat /\ l \in Nat
          BY <4>4, WithinSegment
        <5>3. files[i][l].off = o
          BY <3>3, <4>4
        <5> QED
          BY <2>3, <3>1, <5>1, <5>2, <5>3
      <4> QED
        BY <4>3, <4>4
    <3> QED
      BY <3>3, <3>4 DEF Holds
  <2> QED
    BY <1>1, <2>3, <2>4, <2>5 DEF LogShape
<1> QED
  BY <1>2, <1>3

(* What the disk effects do to the lines that count.                       *)
LEMMA WriteHolds ==
  ASSUME TypeOK, NEW w \in Writes, cur \in DOMAIN files,
         files' = [files EXCEPT ![cur] = Append(@, w)]
  PROVE  \A o, e : Holds(o, e)' <=>
           \/ Holds(o, e)
           \/ w.form # "partial" /\ w.off = o /\ w.ev = e
<1> DEFINE n == Len(files[cur]) + 1
<1>1. /\ DOMAIN files' = DOMAIN files
      /\ \A i \in DOMAIN files : i # cur => files'[i] = files[i]
      /\ DOMAIN files'[cur] = 1..n
      /\ \A j \in 1..Len(files[cur]) : files'[cur][j] = files[cur][j]
      /\ files'[cur][n] = w
  BY WriteEffect
<1>2. DOMAIN files[cur] = 1..Len(files[cur]) /\ Len(files[cur]) \in Nat
  BY FileElements DEF TypeOK
<1>3. n \in DOMAIN files'[cur] /\ DOMAIN files[cur] = (1..n) \ {n}
  BY <1>1, <1>2
<1> HIDE DEF n
<1>4. \A i \in DOMAIN files : \A j \in DOMAIN files[i] :
        i \in DOMAIN files' /\ j \in DOMAIN files'[i] /\ files'[i][j] = files[i][j]
  BY <1>1, <1>2, <1>3
<1>5. \A i \in DOMAIN files' : \A j \in DOMAIN files'[i] :
        \/ i \in DOMAIN files /\ j \in DOMAIN files[i] /\ files'[i][j] = files[i][j]
        \/ i = cur /\ j = n
  BY <1>1, <1>2, <1>3
<1> TAKE o, e
<1>6. Holds(o, e) => Holds(o, e)'
  BY <1>4 DEF Holds
<1>7. w.form # "partial" /\ w.off = o /\ w.ev = e => Holds(o, e)'
  BY <1>1, <1>3 DEF Holds
<1>8. Holds(o, e)' => Holds(o, e) \/ (w.form # "partial" /\ w.off = o /\ w.ev = e)
  BY <1>1, <1>5 DEF Holds
<1> QED
  BY <1>6, <1>7, <1>8

LEMMA NewFileHolds ==
  ASSUME TypeOK, files' = Append(files, <<>>)
  PROVE  \A o, e : Holds(o, e)' <=> Holds(o, e)
<1>1. /\ DOMAIN files' = 1..(Len(files) + 1)
      /\ \A i \in DOMAIN files : files'[i] = files[i]
      /\ files'[Len(files) + 1] = <<>>
  BY NewFileEffect
<1>2. DOMAIN files = 1..Len(files) /\ Len(files) \in Nat
  BY DiskShape
<1>3. \A i \in DOMAIN files' : \A j \in DOMAIN files'[i] :
        i \in DOMAIN files
  BY <1>1, <1>2
<1>4. DOMAIN files \subseteq DOMAIN files'
  BY <1>1, <1>2
<1> QED
  BY <1>1, <1>3, <1>4 DEF Holds

(* What the journal's log becomes.                                         *)
Log == [o \in 1..DiskNext |-> DiskEvent(o - 1)]

LEMMA LogIsASequence ==
  LogShape => Log \in Seq(Events) /\ Len(Log) = DiskNext /\ DOMAIN Log = 1..DiskNext
<1> SUFFICES ASSUME LogShape
             PROVE  Log \in Seq(Events) /\ Len(Log) = DiskNext /\ DOMAIN Log = 1..DiskNext
  OBVIOUS
<1>1. DiskNext \in Nat
  BY DEF LogShape
<1>2. ASSUME NEW o \in 1..DiskNext PROVE DiskEvent(o - 1) \in Events
  <2>1. o - 1 \in Nat /\ o - 1 < DiskNext
    BY <1>1
  <2>2. PICK e : Holds(o - 1, e)
    BY <2>1 DEF LogShape
  <2> QED
    BY <2>2 DEF LogShape
<1>3. Log \in [1..DiskNext -> Events]
  BY <1>2 DEF Log
<1> HIDE DEF Log
<1>4. Log \in Seq(Events) /\ DOMAIN Log = 1..DiskNext
  BY <1>1, <1>3, IsASeq
<1> QED
  BY <1>1, <1>4, LenProperties

LEMMA SameLog ==
  ASSUME LogShape, LogShape', \A o, e : Holds(o, e)' <=> Holds(o, e)
  PROVE  Log' = Log
<1>1. DiskNext \in Nat /\ DiskNext' \in Nat
  BY DEF LogShape
<1>2. \A o \in Nat : o < DiskNext <=> o < DiskNext'
  BY DEF LogShape
<1>3. DiskNext = DiskNext'
  BY <1>1, <1>2
<1>4. ASSUME NEW o \in 1..DiskNext PROVE DiskEvent(o - 1)' = DiskEvent(o - 1)
  <2>1. o - 1 \in Nat /\ o - 1 < DiskNext
    BY <1>1
  <2>2. PICK e : Holds(o - 1, e)
    BY <2>1 DEF LogShape
  <2> QED
    BY <2>2 DEF LogShape
<1> QED
  BY <1>3, <1>4 DEF Log

LEMMA GrownLog ==
  ASSUME LogShape, LogShape', NEW n \in Nat, NEW ev \in Events,
         \A o, e : Holds(o, e) => o < n,
         \A o, e : Holds(o, e)' <=> Holds(o, e) \/ (n = o /\ ev = e)
  PROVE  Log' = Append(Log, ev)
<1>1. DiskNext \in Nat /\ DiskNext' \in Nat
  BY DEF LogShape
<1>2. Holds(n, ev)'
  OBVIOUS
<1>3. n < DiskNext'
  BY <1>2 DEF LogShape
<1>4. DiskNext <= n
  <2>1. SUFFICES ASSUME n < DiskNext PROVE FALSE
    BY <1>1
  <2>2. PICK e : Holds(n, e)
    BY <2>1 DEF LogShape
  <2> QED
    BY <2>2
<1>5. ASSUME NEW o \in Nat, o < DiskNext', o # n PROVE o < DiskNext
  <2>1. PICK e : Holds(o, e)'
    BY <1>5 DEF LogShape
  <2>2. Holds(o, e)
    BY <1>5, <2>1
  <2> QED
    BY <2>2 DEF LogShape
<1>6. n = DiskNext
  <2>1. SUFFICES ASSUME DiskNext < n PROVE FALSE
    BY <1>1, <1>4
  <2> QED
    BY <1>1, <1>3, <1>5, <2>1
<1>7. DiskNext' = DiskNext + 1
  <2>1. SUFFICES ASSUME DiskNext + 1 < DiskNext' PROVE FALSE
    BY <1>1, <1>3, <1>6
  <2> QED
    BY <1>1, <1>5, <1>6, <2>1
<1>8. ASSUME NEW o \in 1..DiskNext PROVE DiskEvent(o - 1)' = DiskEvent(o - 1)
  <2>1. o - 1 \in Nat /\ o - 1 < DiskNext
    BY <1>1
  <2>2. PICK e : Holds(o - 1, e)
    BY <2>1 DEF LogShape
  <2>3. Holds(o - 1, e)'
    BY <2>2
  <2> QED
    BY <2>2, <2>3 DEF LogShape
<1>9. DiskEvent(n)' = ev
  BY <1>2 DEF LogShape
<1>10. /\ Log \in Seq(Events) /\ Len(Log) = DiskNext
       /\ Log' \in Seq(Events) /\ Len(Log') = DiskNext'
  <2>1. Log \in Seq(Events) /\ Len(Log) = DiskNext
    BY LogIsASequence
  <2>2. (Log \in Seq(Events) /\ Len(Log) = DiskNext /\ DOMAIN Log = 1..DiskNext)'
    BY LogIsASequence, PTL
  <2> QED
    BY <2>1, <2>2
<1>11. \A o \in 1..DiskNext : Log[o] = DiskEvent(o - 1) /\ Log'[o] = DiskEvent(o - 1)
  BY <1>1, <1>7, <1>8 DEF Log
<1>12. Log'[DiskNext + 1] = ev
  <2>1. DiskNext + 1 \in 1..DiskNext'
    BY <1>1, <1>7
  <2>2. \A o \in 1..DiskNext' : Log'[o] = DiskEvent(o - 1)'
    BY DEF Log
  <2>3. ASSUME NEW o \in 1..DiskNext', o = DiskNext + 1 PROVE Log'[o] = ev
    <3>1. o - 1 = n
      BY <1>1, <1>6, <2>3
    <3>2. Log'[o] = DiskEvent(o - 1)'
      BY <2>2
    <3> QED
      BY <1>9, <3>1, <3>2
  <2> QED
    BY <2>1, <2>3
<1> DEFINE s == Log
           t == Log'
           u == Append(s, ev)
<1>13. /\ s \in Seq(Events) /\ t \in Seq(Events) /\ Len(t) = Len(s) + 1 /\ Len(s) \in Nat
       /\ \A o \in 1..Len(s) : s[o] = t[o]
       /\ t[Len(s) + 1] = ev
  BY <1>1, <1>7, <1>10, <1>11, <1>12
<1> SUFFICES t = u
  OBVIOUS
<1> HIDE DEF s, t
<1>14. /\ u \in Seq(Events) /\ Len(u) = Len(s) + 1
       /\ \A o \in 1..Len(s) : u[o] = s[o]
       /\ u[Len(s) + 1] = ev
  BY <1>13, AppendProperties
<1> HIDE DEF u
<1>15. \A o \in 1..Len(t) : t[o] = u[o]
  BY <1>13, <1>14
<1> QED
  BY <1>13, <1>14, <1>15, SeqEqual

-----------------------------------------------------------------------------
(* Every step of the WAL is a step of the journal, or none.                *)

(* An operation has at most one record to return.                          *)
OnePending == \A a, b \in pending : a = b

(* A step stores one record, or leaves the lines that count as they are.   *)
LEMMA LinesStep ==
  ASSUME Healthy, WalInv, Next
  PROVE  \/ \A o, e : Holds(o, e)' <=> Holds(o, e)
         \/ /\ UNCHANGED acked /\ nextOff \in Nat
            /\ \A o, e : Holds(o, e) => o < nextOff
            /\ \E ev \in Events : \A o, e :
                 Holds(o, e)' <=> Holds(o, e) \/ (nextOff = o /\ ev = e)
<1>1. TypeOK
  BY DEF WalInv
<1>2. CASE UNCHANGED files
  BY <1>2 DEF Holds
<1>3. CASE files' = Append(files, <<>>)
  BY <1>1, <1>3, NewFileHolds
<1>4. ASSUME CanAppend
      PROVE  /\ cur \in DOMAIN files /\ nextOff \in Nat
             /\ \A o, e : Holds(o, e) => o < nextOff
  <2>1. status = "up" /\ handle
    BY <1>4 DEF CanAppend
  <2>2. cur = Len(files) /\ cur > 0 /\ nextOff = DiskEnd
    BY <2>1 DEF WalInv, MemoryAgrees
  <2>3. cur \in DOMAIN files
    BY <1>1, <2>2, DiskShape
  <2>4. nextOff \in Nat
    BY <1>1 DEF TypeOK
  <2>5. \A o, e : Holds(o, e) => o < nextOff
    BY <2>2, <2>4, OffsetRanges DEF Holds
  <2> QED
    BY <2>3, <2>4, <2>5
<1>5. ASSUME NEW ev \in Events, AppendLine(ev)
      PROVE  /\ UNCHANGED acked /\ nextOff \in Nat
             /\ \A o, e : Holds(o, e) => o < nextOff
             /\ \A o, e : Holds(o, e)' <=> Holds(o, e) \/ (nextOff = o /\ ev = e)
  <2> DEFINE w == [off |-> nextOff, ev |-> ev, form |-> "line"]
  <2>1. CanAppend /\ UNCHANGED acked /\ files' = [files EXCEPT ![cur] = Append(@, w)]
    BY <1>5 DEF AppendLine, WriteToActive
  <2>2. cur \in DOMAIN files /\ nextOff \in Nat /\ \A o, e : Holds(o, e) => o < nextOff
    BY <1>4, <2>1
  <2>3. w \in Writes /\ w.form # "partial" /\ w.off = nextOff /\ w.ev = ev
    BY <2>2 DEF Writes, Forms
  <2> HIDE DEF w
  <2>4. \A o, e : Holds(o, e)' <=>
           Holds(o, e) \/ (w.form # "partial" /\ w.off = o /\ w.ev = e)
    BY <1>1, <2>1, <2>2, <2>3, WriteHolds
  <2> QED
    BY <2>1, <2>2, <2>3, <2>4
<1>6. ASSUME NEW ev \in Events, NEW form \in {"cut", "partial"}, CrashInAppend(ev, form)
      PROVE  \A o, e : Holds(o, e)' <=> Holds(o, e)
  <2> DEFINE w == [off |-> nextOff, ev |-> ev, form |-> form]
  <2>1. /\ CanAppend /\ form = "partial"
        /\ files' = [files EXCEPT ![cur] = Append(@, w)]
    BY <1>6 DEF CrashInAppend, WriteToActive, Healthy
  <2>2. cur \in DOMAIN files /\ nextOff \in Nat
    BY <1>4, <2>1
  <2>3. w \in Writes /\ w.form = "partial"
    BY <2>1, <2>2 DEF Writes, Forms
  <2> HIDE DEF w
  <2> QED
    BY <1>1, <2>1, <2>2, <2>3, WriteHolds
<1>7. CASE OpenResume \/ OpenRefused \/ BootMeta \/ BootMetaFails \/ Close \/ Crash
  BY <1>2, <1>7 DEF OpenResume, OpenRefused, BootMeta, BootMetaFails, Close, Crash
<1>8. CASE OpenNew \/ NewFile
  BY <1>3, <1>8 DEF OpenNew, NewFile
<1>9. CASE SaveAppendMeta \/ SaveAppendMetaFails \/ SealCurrentSegment \/ RolloverSeal
  BY <1>2, <1>9 DEF SaveAppendMeta, SaveAppendMetaFails, SealCurrentSegment, RolloverSeal, DoSeal
<1>10. CASE SealFlushFails \/ SealMetaFails \/ NewFileFails \/ NewMeta \/ NewMetaFails
  BY <1>2, <1>10 DEF SealFlushFails, SealMetaFails, NewFileFails, NewMeta, NewMetaFails
<1>11. ~ \E e \in Events : AppendLineFails(e)
  BY DEF AppendLineFails, Healthy
<1> QED
  BY <1>5, <1>6, <1>7, <1>8, <1>9, <1>10, <1>11 DEF Next

(* A step that stores a record returns none; any other returns at most     *)
(* what is pending.                                                        *)
LEMMA PendingStep ==
  ASSUME TypeOK, OnePending, Next
  PROVE  /\ OnePending'
         /\ UNCHANGED acked \/ (acked' = acked \cup pending /\ UNCHANGED files)
<1>1. CASE OpenResume \/ OpenNew \/ OpenRefused \/ BootMeta \/ BootMetaFails \/ Close \/ Crash
  BY <1>1 DEF OpenResume, OpenNew, OpenRefused, BootMeta, BootMetaFails, Close, Crash, OnePending
<1>2. CASE \E e \in Events : AppendLine(e) \/ AppendLineFails(e)
                             \/ \E form \in {"cut", "partial"} : CrashInAppend(e, form)
  BY <1>2 DEF AppendLine, AppendLineFails, CrashInAppend, OnePending
<1>3. CASE SaveAppendMeta \/ SaveAppendMetaFails \/ SealCurrentSegment \/ RolloverSeal
  BY <1>3 DEF SaveAppendMeta, SaveAppendMetaFails, SealCurrentSegment, RolloverSeal, DoSeal,
              Return, Raise, OnePending
<1>4. CASE SealFlushFails \/ SealMetaFails \/ NewFile \/ NewFileFails \/ NewMeta \/ NewMetaFails
  BY <1>4 DEF SealFlushFails, SealMetaFails, NewFile, NewFileFails, NewMeta, NewMetaFails,
              Return, Raise, OnePending
<1> QED
  BY <1>1, <1>2, <1>3, <1>4 DEF Next

(* The local WAL implements the journal its callers are written against:   *)
(* the disk read in offset order only grows, by one record at a time, and  *)
(* append() acknowledges only what is in it, through crashes, recoveries   *)
(* and failing seals.                                                      *)
THEOREM JournalRefinement == ASSUME Healthy PROVE Spec => ImplementsEventJournal
<1> DEFINE Inv == WalInv /\ OnePending
<1>1. Init => Inv
  BY InitInv DEF Init, OnePending
<1>2. Inv /\ [Next]_vars => OnePending'
  <2>1. TypeOK /\ OnePending /\ Next => OnePending'
    BY PendingStep
  <2>2. OnePending /\ UNCHANGED vars => OnePending'
    BY DEF OnePending, vars
  <2> QED
    BY <2>1, <2>2 DEF WalInv
<1>3. Init => Journal!JInit
  <2> SUFFICES ASSUME Init PROVE Journal!JInit
    OBVIOUS
  <2>1. NonEmpty = {}
    BY DEF Init, NonEmpty
  <2>2. DiskNext = 0
    BY <2>1 DEF DiskNext
  <2>3. LogShape
    BY InitInv, LogShapeHolds
  <2>4. Log \in Seq(Events) /\ Len(Log) = 0
    BY <2>2, <2>3, LogIsASequence
  <2>5. Log = <<>>
    BY <2>4, EmptySeq
  <2> QED
    BY <2>5 DEF Journal!JInit, Log, Init
<1>4. Inv /\ WalInv' /\ [Next]_vars => [Journal!JNext]_(Journal!jvars)
  <2> SUFFICES ASSUME WalInv, OnePending, WalInv', [Next]_vars
               PROVE  [Journal!JNext]_(Journal!jvars)
    OBVIOUS
  <2>1. LogShape /\ LogShape'
    BY LogShapeHolds, PTL
  <2>2. ASSUME UNCHANGED <<Log, acked>> PROVE UNCHANGED Journal!jvars
    BY <2>2 DEF Journal!jvars, Log
  <2>3. CASE UNCHANGED vars
    <3>1. \A o, e : Holds(o, e)' <=> Holds(o, e)
      BY <2>3 DEF vars, Holds
    <3>2. UNCHANGED <<Log, acked>>
      BY <2>1, <2>3, <3>1, SameLog DEF vars
    <3> QED
      BY <2>2, <3>2
  <2>4. CASE Next
    <3>1. TypeOK
      BY DEF WalInv
    <3>2. UNCHANGED acked \/ (acked' = acked \cup pending /\ UNCHANGED files)
      BY <2>4, <3>1, PendingStep
    <3>3. CASE \A o, e : Holds(o, e)' <=> Holds(o, e)
      <4>1. UNCHANGED Log
        BY <2>1, <3>3, SameLog
      <4>2. CASE UNCHANGED acked
        BY <2>2, <4>1, <4>2
      <4>3. CASE acked' = acked \cup pending /\ ~ UNCHANGED acked
        <5>1. PICK r \in pending : pending = {r}
          BY <4>3 DEF OnePending
        <5>2. r \in Records /\ OnDisk(r)
          BY <3>1, <5>1 DEF TypeOK, WalInv, RecordsOnDisk
        <5>3. Holds(r.off, r.ev)
          BY <5>2 DEF OnDisk, Holds
        <5>4. r.off \in Nat /\ r.off < DiskNext /\ DiskEvent(r.off) = r.ev
          BY <2>1, <5>3 DEF LogShape
        <5> DEFINE o == r.off + 1
        <5>5. o \in 1..DiskNext /\ o - 1 = r.off
          BY <2>1, <5>4 DEF LogShape
        <5>6. o \in DOMAIN Log /\ Log[o] = r.ev
          BY <5>4, <5>5 DEF Log
        <5>7. r = [off |-> o - 1, ev |-> Log[o]]
          BY <5>2, <5>5, <5>6 DEF Records
        <5>8. acked' = acked \cup {[off |-> o - 1, ev |-> Log[o]]}
          BY <4>3, <5>1, <5>7
        <5> HIDE DEF o
        <5>9. Journal!JAcknowledge(o)
          BY <4>1, <5>8 DEF Journal!JAcknowledge, Log
        <5> QED
          BY <5>6, <5>9 DEF Journal!JNext, Log
      <4> QED
        BY <3>2, <4>2, <4>3
    <3>4. ASSUME UNCHANGED acked, nextOff \in Nat,
                 \A o, e : Holds(o, e) => o < nextOff,
                 NEW ev \in Events,
                 \A o, e : Holds(o, e)' <=> Holds(o, e) \/ (nextOff = o /\ ev = e)
          PROVE  Journal!JNext
      <4>1. Log' = Append(Log, ev)
        BY <2>1, <3>4, GrownLog
      <4>2. Journal!JStore(ev)
        BY <3>4, <4>1 DEF Journal!JStore, Log
      <4> QED
        BY <4>2 DEF Journal!JNext
    <3> QED
      BY <2>4, <3>3, <3>4, LinesStep
  <2> QED
    BY <2>3, <2>4
<1> QED
  BY <1>1, <1>2, <1>3, <1>4, WalInductive, PTL DEF Spec, ImplementsEventJournal, Journal!JSpec
=============================================================================
