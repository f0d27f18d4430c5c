--------------------------- MODULE MasterKey_proofs ---------------------------
(***************************************************************************)
(* Proofs about the shared key file, for any processes, keys and faults.   *)
(*                                                                         *)
(* Neither property is inductive: a write could replace a key that is in   *)
(* use.  WriterInv says why it does not, O_EXCL lets one process at a time *)
(* between creation and close, and the file then holds what that process   *)
(* put there; KeyInv, that a process past Read has a key, and that what    *)
(* survives a power cut is a whole key.                                    *)
(***************************************************************************)
EXTENDS MasterKey, TLAPS

\* Between the creation of the key file and its close.
Making(p) == phase[p] \in {"writing", "syncing"}

WriterInv ==
  /\ \A p, q \in Commands : Making(p) /\ Making(q) => p = q
  /\ \A p \in Commands : phase[p] = "writing" => file = Unfinished
  /\ \A p \in Commands : phase[p] = "syncing" => file = key[p]

KeyInv ==
  /\ \A p \in Commands :
       phase[p] \in {"generating", "writing", "syncing", "running"} => key[p] \in Keys
  /\ synced => Whole

IInv == TypeOK /\ WriterInv /\ KeyInv /\ SecretsStayReadable /\ UnfinishedKeyHasWriter

-----------------------------------------------------------------------------

\* The three kinds of content of the file are told apart.
LEMMA Contents ==
  ASSUME KeyBounds
  PROVE  Absent \notin Keys /\ Unfinished \notin Keys /\ Absent # Unfinished
  BY DEF KeyBounds, Absent, Unfinished, Keys

\* A fault is counted within its bound.
LEMMA FaultCount ==
  ASSUME KeyBounds, keyFaults \in 0..MaxKeyFaults, KeyFault
  PROVE  keyFaults' \in 0..MaxKeyFaults
  BY DEF KeyBounds, KeyFault

LEMMA InitIInv ==
  ASSUME KeyBounds, Init
  PROVE  IInv
<1>1. TypeOK
  <2>1. minted \in 0..MaxKeys /\ keyFaults \in 0..MaxKeyFaults
    BY DEF KeyBounds, Init
  <2>2. QED
    BY <2>1 DEF Init, TypeOK, KeyPhases, NoKey
<1>2. WriterInv /\ KeyInv
  BY DEF Init, WriterInv, KeyInv, Making
<1>3. SecretsStayReadable /\ UnfinishedKeyHasWriter
  BY Contents DEF Init, SecretsStayReadable, UnfinishedKeyHasWriter
<1>4. QED
  BY <1>1, <1>2, <1>3 DEF IInv

\* Every step keeps the types.
LEMMA StepTypeOK ==
  ASSUME KeyBounds, TypeOK, KeyInv, Next
  PROVE  TypeOK'
<1> USE DEF disk, past, TypeOK, KeyPhases
<1>1. ASSUME NEW p \in Commands, Start(p) PROVE TypeOK'
  BY <1>1 DEF Start, Moves
<1>2. ASSUME NEW p \in Commands, Read(p) PROVE TypeOK'
  <2>1. CASE file = Absent
    <3>1. minted' = minted + 1 /\ minted' \in 0..MaxKeys /\ minted' \in Keys
      BY <1>2, <2>1 DEF Read, Keys, KeyBounds
    <3>2. QED
      BY <1>2, <2>1, <3>1 DEF Read, Moves
  <2>2. CASE file # Absent
    BY <1>2, <2>2 DEF Read, Decode, Whole
  <2>3. QED
    BY <2>1, <2>2
<1>3. ASSUME NEW p \in Commands, Create(p) PROVE TypeOK'
  BY <1>3 DEF Create, Moves
<1>4. ASSUME NEW p \in Commands, Reread(p) PROVE TypeOK'
  BY <1>4 DEF Reread, Decode, Whole
<1>5. ASSUME NEW p \in Commands, Write(p) PROVE TypeOK'
  BY <1>5 DEF Write, Moves, KeyInv
<1>6. ASSUME NEW p \in Commands, Sync(p) PROVE TypeOK'
  BY <1>6 DEF Sync, Moves
<1>7. ASSUME NEW p \in Commands, RemoveFile(p) PROVE TypeOK'
  <2>1. keyFaults' \in 0..MaxKeyFaults
    BY <1>7, FaultCount DEF RemoveFile
  <2>2. withdrawn' \in BOOLEAN /\ torn' \in BOOLEAN
    BY <1>7 DEF RemoveFile
  <2>3. QED
    BY <1>7, <2>1, <2>2 DEF RemoveFile
<1>8. ASSUME NEW p \in Commands, Seal(p) PROVE TypeOK'
  BY <1>8 DEF Seal, KeyInv
<1>9. ASSUME NEW p \in Commands, Exit(p) PROVE TypeOK'
  <2>1. keyFaults' \in 0..MaxKeyFaults
    BY <1>9, FaultCount DEF Exit
  <2>2. withdrawn' \in BOOLEAN /\ torn' \in BOOLEAN
    BY <1>9 DEF Exit
  <2>3. QED
    BY <1>9, <2>1, <2>2 DEF Exit
<1>10. CASE PowerCut
  <2>1. keyFaults' \in 0..MaxKeyFaults
    BY <1>10, FaultCount DEF PowerCut
  <2>2. withdrawn' \in BOOLEAN /\ torn' \in BOOLEAN
    BY <1>10 DEF PowerCut
  <2>3. QED
    BY <1>10, <2>1, <2>2 DEF PowerCut
<1>11. QED
  BY <1>1, <1>2, <1>3, <1>4, <1>5, <1>6, <1>7, <1>8, <1>9, <1>10 DEF Next

\* One process at a time is between creation and close, and the file is its work.
LEMMA StepWriterInv ==
  ASSUME KeyBounds, TypeOK, WriterInv, KeyInv, Next
  PROVE  WriterInv' /\ KeyInv'
<1> USE Contents DEF disk, past, TypeOK, WriterInv, KeyInv, Making, Whole
<1>1. ASSUME NEW p \in Commands, Start(p) PROVE WriterInv' /\ KeyInv'
  BY <1>1 DEF Start, Moves
<1>2. ASSUME NEW p \in Commands, Read(p) PROVE WriterInv' /\ KeyInv'
  <2>1. CASE file = Absent
    <3>1. minted + 1 \in Keys
      BY <1>2, <2>1 DEF Read, Keys, KeyBounds
    <3>2. QED
      BY <1>2, <2>1, <3>1 DEF Read, Moves
  <2>2. CASE file # Absent
    BY <1>2, <2>2 DEF Read, Decode
  <2>3. QED
    BY <2>1, <2>2
<1>3. ASSUME NEW p \in Commands, Create(p) PROVE WriterInv' /\ KeyInv'
  BY <1>3 DEF Create, Moves
<1>4. ASSUME NEW p \in Commands, Reread(p) PROVE WriterInv' /\ KeyInv'
  BY <1>4 DEF Reread, Decode
<1>5. ASSUME NEW p \in Commands, Write(p) PROVE WriterInv' /\ KeyInv'
  BY <1>5 DEF Write, Moves
<1>6. ASSUME NEW p \in Commands, Sync(p) PROVE WriterInv' /\ KeyInv'
  BY <1>6 DEF Sync, Moves
<1>7. ASSUME NEW p \in Commands, RemoveFile(p) PROVE WriterInv' /\ KeyInv'
  BY <1>7 DEF RemoveFile
<1>8. ASSUME NEW p \in Commands, Seal(p) PROVE WriterInv' /\ KeyInv'
  BY <1>8 DEF Seal
<1>9. ASSUME NEW p \in Commands, Exit(p) PROVE WriterInv' /\ KeyInv'
  BY <1>9 DEF Exit
<1>10. CASE PowerCut
  BY <1>10 DEF PowerCut
<1>11. QED
  BY <1>1, <1>2, <1>3, <1>4, <1>5, <1>6, <1>7, <1>8, <1>9, <1>10 DEF Next

\* A key in use is replaced by none, unless it is withdrawn.
LEMMA StepSecrets ==
  ASSUME KeyBounds, TypeOK, WriterInv, KeyInv, SecretsStayReadable, Next
  PROVE  SecretsStayReadable'
<1> USE Contents DEF disk, past, TypeOK, WriterInv, KeyInv, Making, Whole, SecretsStayReadable
<1>1. ASSUME NEW p \in Commands, Start(p) PROVE SecretsStayReadable'
  BY <1>1 DEF Start, Moves
<1>2. ASSUME NEW p \in Commands, Read(p) PROVE SecretsStayReadable'
  BY <1>2 DEF Read, Decode, Moves
<1>3. ASSUME NEW p \in Commands, Create(p) PROVE SecretsStayReadable'
  BY <1>3 DEF Create, Moves
<1>4. ASSUME NEW p \in Commands, Reread(p) PROVE SecretsStayReadable'
  BY <1>4 DEF Reread, Decode
<1>5. ASSUME NEW p \in Commands, Write(p) PROVE SecretsStayReadable'
  BY <1>5 DEF Write, Moves
<1>6. ASSUME NEW p \in Commands, Sync(p) PROVE SecretsStayReadable'
  BY <1>6 DEF Sync, Moves
<1>7. ASSUME NEW p \in Commands, RemoveFile(p) PROVE SecretsStayReadable'
  BY <1>7 DEF RemoveFile, Shared
<1>8. ASSUME NEW p \in Commands, Seal(p) PROVE SecretsStayReadable'
  BY <1>8 DEF Seal
<1>9. ASSUME NEW p \in Commands, Exit(p) PROVE SecretsStayReadable'
  BY <1>9 DEF Exit
<1>10. CASE PowerCut
  BY <1>10 DEF PowerCut, Shared
<1>11. QED
  BY <1>1, <1>2, <1>3, <1>4, <1>5, <1>6, <1>7, <1>8, <1>9, <1>10 DEF Next

\* Only a death leaves a file without a whole key.
LEMMA StepUnfinished ==
  ASSUME KeyBounds, TypeOK, WriterInv, KeyInv, UnfinishedKeyHasWriter, Next
  PROVE  UnfinishedKeyHasWriter'
<1> USE Contents DEF disk, past, TypeOK, WriterInv, KeyInv, Whole, UnfinishedKeyHasWriter
<1>1. ASSUME NEW p \in Commands, Start(p) PROVE UnfinishedKeyHasWriter'
  BY <1>1 DEF Start, Moves
<1>2. ASSUME NEW p \in Commands, Read(p) PROVE UnfinishedKeyHasWriter'
  BY <1>2 DEF Read, Decode, Moves
<1>3. ASSUME NEW p \in Commands, Create(p) PROVE UnfinishedKeyHasWriter'
  BY <1>3 DEF Create, Moves
<1>4. ASSUME NEW p \in Commands, Reread(p) PROVE UnfinishedKeyHasWriter'
  BY <1>4 DEF Reread, Decode
<1>5. ASSUME NEW p \in Commands, Write(p) PROVE UnfinishedKeyHasWriter'
  BY <1>5 DEF Write, Moves
<1>6. ASSUME NEW p \in Commands, Sync(p) PROVE UnfinishedKeyHasWriter'
  BY <1>6 DEF Sync, Moves
<1>7. ASSUME NEW p \in Commands, RemoveFile(p) PROVE UnfinishedKeyHasWriter'
  BY <1>7 DEF RemoveFile
<1>8. ASSUME NEW p \in Commands, Seal(p) PROVE UnfinishedKeyHasWriter'
  BY <1>8 DEF Seal
<1>9. ASSUME NEW p \in Commands, Exit(p) PROVE UnfinishedKeyHasWriter'
  BY <1>9 DEF Exit
<1>10. CASE PowerCut
  BY <1>10 DEF PowerCut
<1>11. QED
  BY <1>1, <1>2, <1>3, <1>4, <1>5, <1>6, <1>7, <1>8, <1>9, <1>10 DEF Next

-----------------------------------------------------------------------------

\* The inductive invariant holds in every reachable state.
THEOREM KeyInvariant ==
  ASSUME KeyBounds
  PROVE  Spec => []IInv
<1>1. Init => IInv
  BY InitIInv
<1>2. IInv /\ [Next]_keyVars => IInv'
  <2> SUFFICES ASSUME IInv, [Next]_keyVars PROVE IInv'
    OBVIOUS
  <2>1. CASE Next
    BY <2>1, StepTypeOK, StepWriterInv, StepSecrets, StepUnfinished DEF IInv
  <2>2. CASE UNCHANGED keyVars
    BY <2>2 DEF keyVars, disk, past, IInv, TypeOK, WriterInv, KeyInv, Making, Whole,
       SecretsStayReadable, UnfinishedKeyHasWriter
  <2>3. QED
    BY <2>1, <2>2
<1>3. QED
  BY <1>1, <1>2, PTL DEF Spec

\* Whatever processes start at once and whatever fails, what one seals all others and all
\* later ones can open, unless the key was withdrawn (LoadMasterKey).
THEOREM SecretsAlwaysReadable ==
  ASSUME KeyBounds
  PROVE  Spec => []SecretsStayReadable
<1>1. IInv => SecretsStayReadable
  BY DEF IInv
<1>2. QED
  BY <1>1, KeyInvariant, PTL

\* No error path of LoadMasterKey leaves a key file that no later start can use.
THEOREM UnfinishedKeyAlwaysHasWriter ==
  ASSUME KeyBounds
  PROVE  Spec => []UnfinishedKeyHasWriter
<1>1. IInv => UnfinishedKeyHasWriter
  BY DEF IInv
<1>2. QED
  BY <1>1, KeyInvariant, PTL
===============================================================================
