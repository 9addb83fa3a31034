------------------------ MODULE SessionStore_proofs ------------------------
(***************************************************************************)
(* Proofs about SessionStore for every set of handlers and jobs, every     *)
(* configuration and any number of turns.                                  *)
(***************************************************************************)
EXTENDS SessionStore, SequenceTheorems, TLAPS

-----------------------------------------------------------------------------
(* Lemmas about the front and the rest of a list *)

LEMMA Suffix ==
  ASSUME NEW S, NEW s \in Seq(S), NEW k \in 0 .. Len(s)
  PROVE  /\ SubSeq(s, k + 1, Len(s)) \in Seq(S)
         /\ Len(SubSeq(s, k + 1, Len(s))) = Len(s) - k
         /\ \A i \in 1 .. Len(s) - k : SubSeq(s, k + 1, Len(s))[i] = s[k + i]
<1> DEFINE n == Len(s)
           r == SubSeq(s, k + 1, n)
<1>1. n \in Nat /\ k \in Nat /\ k <= n
  BY LenProperties
<1>2. \A i \in 1 .. n : s[i] \in S
  BY ElementOfSeq
<1> HIDE DEF n
<1>3. k + 1 \in Int /\ n \in Int /\ \A i \in k + 1 .. n : s[i] \in S
  BY <1>1, <1>2
<1>4. /\ r \in Seq(S)
      /\ Len(r) = IF k + 1 <= n THEN n - (k + 1) + 1 ELSE 0
      /\ \A i \in 1 .. n - (k + 1) + 1 : r[i] = s[(k + 1) + i - 1]
  BY <1>3, SubSeqProperties
<1> HIDE DEF r
<1>5. Len(r) = n - k
  BY <1>1, <1>4
<1>6. \A i \in 1 .. n - k : i \in 1 .. n - (k + 1) + 1 /\ (k + 1) + i - 1 = k + i
  BY <1>1
<1> QED
  BY <1>4, <1>5, <1>6 DEF r, n

LEMMA Prefix ==
  ASSUME NEW S, NEW s \in Seq(S), NEW k \in 0 .. Len(s)
  PROVE  /\ SubSeq(s, 1, k) \in Seq(S)
         /\ Len(SubSeq(s, 1, k)) = k
         /\ \A i \in 1 .. k : SubSeq(s, 1, k)[i] = s[i]
<1> DEFINE r == SubSeq(s, 1, k)
<1>1. k \in Nat /\ 1 \in Int /\ k \in Int /\ \A i \in 1 .. k : i \in 1 .. Len(s)
  BY LenProperties
<1>2. \A i \in 1 .. k : s[i] \in S
  BY <1>1, ElementOfSeq
<1>3. /\ r \in Seq(S)
      /\ Len(r) = IF 1 <= k THEN k - 1 + 1 ELSE 0
      /\ \A i \in 1 .. k - 1 + 1 : r[i] = s[1 + i - 1]
  BY <1>1, <1>2, SubSeqProperties
<1> HIDE DEF r
<1>4. Len(r) = k /\ \A i \in 1 .. k : i \in 1 .. k - 1 + 1 /\ 1 + i - 1 = i
  BY <1>1, <1>3
<1> QED
  BY <1>3, <1>4 DEF r

-----------------------------------------------------------------------------
(* Lemmas about entries and the turns a list of them stands for *)

\* A turn is an entry that stands for itself.
LEMMA TurnIsEntry ==
  ASSUME NEW t \in TurnId
  PROVE  Turn(t) \in Entry /\ Turn(t).of = {t} /\ ~IsSummary(Turn(t))
BY DEF Turn, Entry, TurnId, IsSummary

\* A summary is an entry that stands for the turns it was written from.
LEMMA SummaryIsEntry ==
  ASSUME NEW S \in SUBSET TurnId
  PROVE  Summary(S) \in Entry /\ Summary(S).of = S /\ IsSummary(Summary(S))
BY ConfigAssumption DEF Summary, Entry, TurnId, IsSummary

\* A list of entries stands for turns only.
LEMMA CoveredType ==
  ASSUME NEW s \in Seq(Entry)
  PROVE  Covered(s) \subseteq TurnId
<1>1. DOMAIN s = 1 .. Len(s) /\ \A i \in 1 .. Len(s) : s[i] \in Entry
  BY ElementOfSeq, LenProperties
<1>2. \A i \in DOMAIN s : s[i].of \subseteq TurnId
  BY <1>1 DEF Entry
<1>3. ASSUME NEW x \in Covered(s) PROVE x \in TurnId
  BY <1>2, <1>3 DEF Covered
<1>4. QED
  BY <1>3

\* An entry more stands for its own turns more.
LEMMA CoveredAppend ==
  ASSUME NEW s \in Seq(Entry), NEW e \in Entry
  PROVE  Covered(Append(s, e)) = Covered(s) \union e.of
<1> DEFINE a == Append(s, e)
<1>1. /\ DOMAIN a = 1 .. Len(s) + 1 /\ DOMAIN s = 1 .. Len(s)
      /\ \A i \in 1 .. Len(s) : a[i] = s[i]
      /\ a[Len(s) + 1] = e
  BY AppendProperties, LenProperties
<1>2. Len(s) \in Nat
  BY LenProperties
<1>3. ASSUME NEW x PROVE x \in Covered(a) <=> x \in Covered(s) \union e.of
  <2>1. x \in Covered(a) <=> \E i \in 1 .. Len(s) + 1 : x \in a[i].of
    BY <1>1 DEF Covered
  <2>2. x \in Covered(s) <=> \E i \in 1 .. Len(s) : x \in s[i].of
    BY <1>1 DEF Covered
  <2>3. QED
    BY <2>1, <2>2, <1>1, <1>2
<1>4. QED
  BY <1>3

\* The front and the rest of a list stand for what the list stands for.
LEMMA CoveredSplit ==
  ASSUME NEW s \in Seq(Entry), NEW k \in 0 .. Len(s)
  PROVE  Covered(s) = Covered(SubSeq(s, 1, k)) \union
                      Covered(SubSeq(s, k + 1, Len(s)))
<1> DEFINE f == SubSeq(s, 1, k)
           r == SubSeq(s, k + 1, Len(s))
<1>1. Len(s) \in Nat /\ DOMAIN s = 1 .. Len(s) /\ k \in Nat
  BY LenProperties
<1>2. \A i \in 1 .. Len(s) : s[i] \in Entry
  BY ElementOfSeq
<1>3. f \in Seq(Entry) /\ Len(f) = k /\ \A i \in 1 .. k : f[i] = s[i]
  BY Prefix, Zenon
<1>4. /\ r \in Seq(Entry) /\ Len(r) = Len(s) - k
      /\ \A i \in 1 .. Len(s) - k : r[i] = s[k + i]
  BY Suffix, Zenon
<1>5. DOMAIN f = 1 .. k /\ DOMAIN r = 1 .. Len(s) - k
  BY <1>3, <1>4, LenProperties
<1>6. ASSUME NEW x PROVE x \in Covered(s) <=> x \in Covered(f) \union Covered(r)
  <2>1. x \in Covered(s) <=> \E i \in 1 .. Len(s) : x \in s[i].of
    BY <1>1 DEF Covered
  <2>2. x \in Covered(f) <=> \E i \in 1 .. k : x \in s[i].of
    BY <1>3, <1>5 DEF Covered
  <2>3. x \in Covered(r) <=> \E i \in 1 .. Len(s) - k : x \in s[k + i].of
    BY <1>4, <1>5 DEF Covered
  <2>4. ASSUME NEW i \in 1 .. Len(s), ~(i \in 1 .. k)
        PROVE  i - k \in 1 .. Len(s) - k /\ k + (i - k) = i
    BY <2>4, <1>1
  <2>5. \A i \in 1 .. Len(s) - k : k + i \in 1 .. Len(s)
    BY <1>1
  <2>6. \A i \in 1 .. k : i \in 1 .. Len(s)
    BY <1>1
  <2>7. x \in Covered(s) => x \in Covered(f) \union Covered(r)
    BY <2>1, <2>2, <2>3, <2>4
  <2>8. x \in Covered(f) \union Covered(r) => x \in Covered(s)
    BY <2>1, <2>2, <2>3, <2>5, <2>6
  <2>9. QED
    BY <2>7, <2>8
<1>7. QED
  BY <1>6

\* A summary in front adds the turns it was written from.
LEMMA CoveredSummary ==
  ASSUME NEW s \in Seq(Entry), NEW S \in SUBSET TurnId
  PROVE  /\ <<Summary(S)>> \o s \in Seq(Entry)
         /\ Len(<<Summary(S)>> \o s) = Len(s) + 1
         /\ Covered(<<Summary(S)>> \o s) = S \union Covered(s)
<1> DEFINE c == <<Summary(S)>> \o s
<1>1. Summary(S) \in Entry /\ Summary(S).of = S
  BY SummaryIsEntry
<1>2. <<Summary(S)>> \in Seq(Entry) /\ Len(<<Summary(S)>>) = 1
  BY <1>1
<1>3. Len(s) \in Nat /\ DOMAIN s = 1 .. Len(s)
  BY LenProperties
<1>4. /\ c \in Seq(Entry) /\ Len(c) = Len(s) + 1
      /\ \A i \in 1 .. Len(s) + 1 : c[i] = IF i <= 1 THEN Summary(S) ELSE s[i - 1]
  BY <1>2, <1>3, ConcatProperties
<1>5. DOMAIN c = 1 .. Len(s) + 1
  BY <1>4, LenProperties
<1>6. c[1] = Summary(S) /\ \A i \in 1 .. Len(s) : c[i + 1] = s[i]
  BY <1>3, <1>4
<1>7. ASSUME NEW x PROVE x \in Covered(c) <=> x \in S \union Covered(s)
  <2>1. x \in Covered(c) <=> \E i \in 1 .. Len(s) + 1 : x \in c[i].of
    BY <1>5 DEF Covered
  <2>2. x \in Covered(s) <=> \E i \in 1 .. Len(s) : x \in c[i + 1].of
    BY <1>3, <1>6 DEF Covered
  <2>3. \A i \in 1 .. Len(s) + 1 : i = 1 \/ (i - 1 \in 1 .. Len(s) /\ (i - 1) + 1 = i)
    BY <1>3
  <2>4. 1 \in 1 .. Len(s) + 1 /\ \A i \in 1 .. Len(s) : i + 1 \in 1 .. Len(s) + 1
    BY <1>3
  <2>5. x \in Covered(c) => x \in S \union Covered(s)
    BY <2>1, <2>2, <2>3, <1>1, <1>6
  <2>6. x \in S \union Covered(s) => x \in Covered(c)
    BY <2>1, <2>2, <2>4, <1>1, <1>6
  <2>7. QED
    BY <2>5, <2>6
<1>8. QED
  BY <1>4, <1>7

\* The empty session stands for no turn.
LEMMA CoveredEmpty == Covered(<<>>) = {}
BY DEF Covered

\* Compaction always keeps at least one turn.
LEMMA KeepType == Keep \in Nat /\ Keep >= 1
BY ConfigAssumption DEF Keep

\* What a compaction makes of a session, or of its file: a list that stands for
\* what it stood for, when the block it drops is what the summary is written from.
LEMMA CompactedList ==
  ASSUME NEW s \in Seq(Entry), NEW k \in 0 .. Len(s), NEW S \in SUBSET TurnId
  PROVE  /\ <<Summary(S)>> \o SubSeq(s, k + 1, Len(s)) \in Seq(Entry)
         /\ S = Covered(SubSeq(s, 1, k)) =>
              Covered(<<Summary(S)>> \o SubSeq(s, k + 1, Len(s))) = Covered(s)
<1>1. Len(s) \in Nat /\ k \in Nat /\ \A i \in 1 .. Len(s) : s[i] \in Entry
  BY LenProperties, ElementOfSeq
<1>2. SubSeq(s, k + 1, Len(s)) \in Seq(Entry)
  BY Suffix, Zenon
<1>3. Covered(s) = Covered(SubSeq(s, 1, k)) \union Covered(SubSeq(s, k + 1, Len(s)))
  BY CoveredSplit
<1>4. /\ <<Summary(S)>> \o SubSeq(s, k + 1, Len(s)) \in Seq(Entry)
      /\ Covered(<<Summary(S)>> \o SubSeq(s, k + 1, Len(s)))
           = S \union Covered(SubSeq(s, k + 1, Len(s)))
  BY <1>2, CoveredSummary
<1>5. QED
  BY <1>3, <1>4

\* A compaction record read from the file leaves a list of entries.
LEMMA LoadCompactionType ==
  ASSUME NEW s \in Seq(Entry), NEW r \in Nat, NEW S \in SUBSET TurnId
  PROVE  LoadCompaction(s, r, S) \in Seq(Entry)
<1> DEFINE k == IF r > Len(s) THEN Len(s) ELSE r
<1>1. k \in 0 .. Len(s)
  BY LenProperties
<1>2. <<Summary(S)>> \o SubSeq(s, k + 1, Len(s)) \in Seq(Entry)
  BY <1>1, CompactedList
<1>3. QED
  BY <1>2 DEF LoadCompaction

\* An idle job is a job record.
LEMMA NoJobType == NoJob \in JobRecord
<1>1. <<>> \in Seq(Entry)
  BY EmptySeq
<1>2. QED
  BY <1>1 DEF JobRecord, NoJob

\* So is one that has gone on to another label or has heard from the extractor.
LEMMA JobRecordStep ==
  ASSUME NEW r \in JobRecord
  PROVE  /\ r.n \in Nat /\ r.old \in Seq(Entry)
         /\ \A l \in {"snapshot", "brain", "replace", "append", "release"} :
              [r EXCEPT !.pc = l] \in JobRecord
         /\ \A x \in {"entities", "none"} :
              [r EXCEPT !.pc = "brain", !.found = x] \in JobRecord
BY DEF JobRecord

\* The jobs keep their type, whichever label one of them goes to.
LEMMA JobsType ==
  ASSUME TypeOK, NEW j \in Jobs,
         NEW l \in {"snapshot", "brain", "replace", "append", "release"}, GoTo(j, l)
  PROVE  job' \in [Jobs -> JobRecord]
<1>1. [job[j] EXCEPT !.pc = l] \in JobRecord
  BY JobRecordStep DEF TypeOK
<1>2. QED
  BY <1>1 DEF GoTo, TypeOK

\* A job that goes to a label is there, with its other fields as they were, and
\* the other jobs are where they were.
LEMMA GoToEffect ==
  ASSUME TypeOK, NEW j \in Jobs,
         NEW l \in {"snapshot", "brain", "replace", "append", "release"}, GoTo(j, l)
  PROVE  /\ job'[j].pc = l /\ job'[j].n = job[j].n /\ job'[j].old = job[j].old
         /\ \A i \in Jobs : i # j => job'[i] = job[i]
<1>1. job[j] \in JobRecord /\ job'[j] = [job[j] EXCEPT !.pc = l]
  BY DEF GoTo, TypeOK
<1>2. \A i \in Jobs : i # j => job'[i] = job[i]
  BY DEF GoTo, TypeOK
<1>3. job'[j].pc = l /\ job'[j].n = job[j].n /\ job'[j].old = job[j].old
  BY <1>1 DEF JobRecord
<1>4. QED
  BY <1>2, <1>3

\* The fields of a job.
LEMMA JobFields ==
  ASSUME TypeOK, NEW j \in Jobs
  PROVE  /\ job[j].n \in Nat /\ job[j].old \in Seq(Entry)
         /\ Covered(job[j].old) \in SUBSET TurnId /\ Len(job[j].old) \in Nat
<1>1. job[j].n \in Nat /\ job[j].old \in Seq(Entry)
  BY JobRecordStep DEF TypeOK
<1>2. QED
  BY <1>1, CoveredType, LenProperties

-----------------------------------------------------------------------------
(* The inductive invariant *)

\* What the compaction flag, a job's snapshot and the session's memory have to
\* do with each other.  It implies OneCompaction, SnapshotStillGood and
\* NothingForgotten, none of which is inductive alone: a snapshot stays good
\* because no second compaction replaces turns under it, and nothing is
\* forgotten because the snapshot is still the front of the session when the
\* summary written from it takes its place.
SafeInv == TypeOK /\ OneCompaction /\ SnapshotStillGood /\ NothingForgotten

LEMMA InitSafe == Init => SafeInv
<1> SUFFICES ASSUME Init PROVE SafeInv
  OBVIOUS
<1>1. TypeOK
  <2>1. turns \in Seq(Entry) /\ disk \in Seq(Entry) /\ tooLong \in BOOLEAN
    BY EmptySeq DEF Init
  <2>2. job \in [Jobs -> JobRecord]
    BY NoJobType DEF Init
  <2>3. said \in 0 .. MaxTurns
    BY ConfigAssumption DEF Init
  <2>4. QED
    BY <2>1, <2>2, <2>3, EnvironmentAssumption DEF Init, TypeOK
<1>2. OneCompaction /\ SnapshotStillGood
  BY EnvironmentAssumption
  DEF Init, OneCompaction, SnapshotStillGood, Running, Holding, NoJob
<1>3. NothingForgotten
  BY CoveredEmpty DEF Init, NothingForgotten
<1>4. QED
  BY <1>1, <1>2, <1>3 DEF SafeInv

\* Whatever ends the process, it comes up with a session that is safe.
LEMMA BootSafe ==
  ASSUME SafeInv, NEW reason \in {"restart", "panic"}, Boot(reason)
  PROVE  SafeInv'
<1>1. TypeOK'
  <2>1. Loaded \in Seq(Entry) /\ Covered(Loaded) \subseteq TurnId
    BY EmptySeq, CoveredType DEF Loaded, SafeInv, TypeOK
  <2>2. QED
    <3>1. job' \in [Jobs -> JobRecord]
      BY NoJobType DEF Boot
    <3>2. turn' \in [Handlers -> 0 .. MaxTurns] /\ said' \in 0 .. MaxTurns
      BY ConfigAssumption DEF Boot, SafeInv, TypeOK
    <3>3. disk' \in Seq(Entry) /\ tooLong' \in BOOLEAN
      BY DEF Boot, SafeInv, TypeOK, file
    <3>4. turns' \in Seq(Entry) /\ known' \subseteq TurnId
      BY <2>1 DEF Boot
    <3>5. QED
      BY <3>1, <3>2, <3>3, <3>4, EnvironmentAssumption DEF SafeInv, TypeOK, Boot
<1>2. OneCompaction' /\ SnapshotStillGood'
  BY EnvironmentAssumption
  DEF Boot, OneCompaction, SnapshotStillGood, Running, Holding, NoJob
<1>3. NothingForgotten'
  BY DEF Boot, NothingForgotten
<1>4. QED
  BY <1>1, <1>2, <1>3 DEF SafeInv

\* A step that leaves the session, the flag and the jobs alone keeps them safe.
LEMMA FrameSafe ==
  ASSUME SafeInv, TypeOK', UNCHANGED <<turns, flag, job, known>>
  PROVE  SafeInv'
BY DEF SafeInv, OneCompaction, SnapshotStillGood, NothingForgotten, Running,
       Holding

\* A turn appended leaves the front of the session where it was.
LEMMA AddTurnSafe ==
  ASSUME SafeInv, NEW h \in Handlers, AddTurn(h)
  PROVE  SafeInv'
<1> USE DEF SafeInv
<1>1. said + 1 \in TurnId
  BY ConfigAssumption DEF AddTurn, TypeOK, TurnId
<1>2. /\ turns' = Append(turns, Turn(said + 1)) /\ Turn(said + 1) \in Entry
      /\ Turn(said + 1).of = {said + 1}
  BY <1>1, TurnIsEntry DEF AddTurn
<1>3. /\ turns' \in Seq(Entry) /\ Len(turns') = Len(turns) + 1
      /\ \A i \in 1 .. Len(turns) : turns'[i] = turns[i]
  BY <1>2, AppendProperties DEF TypeOK
<1>4. TypeOK'
  <2>1. said' \in 0 .. MaxTurns /\ known' \subseteq TurnId
    BY <1>1, ConfigAssumption DEF AddTurn, TypeOK, TurnId, file
  <2>2. /\ turn' \in [Handlers -> 0 .. MaxTurns]
        /\ persisting' \in [Handlers -> BOOLEAN]
        /\ \A g \in Handlers : persisting'[g] => turn'[g] \in TurnId
    BY <1>1 DEF AddTurn, TypeOK, TurnId, file
  <2>3. /\ pc' \in [Handlers -> {"idle", "llm", "hooks"}]
        /\ hook' \in [Handlers -> {"check", "lookup", "swap", "cas", "done"}]
    BY DEF AddTurn, TypeOK, file
  <2>4. UNCHANGED <<flag, job, disk, tooLong, brain, durable, remembered, run, lastExit>>
    BY DEF AddTurn, file
  <2>5. QED
    BY <2>1, <2>2, <2>3, <2>4, <1>3 DEF TypeOK
<1>5. OneCompaction'
  BY DEF AddTurn, OneCompaction, Running
<1>6. SnapshotStillGood'
  <2> SUFFICES ASSUME NEW j \in Jobs, Holding(j)
               PROVE  /\ Keep < job[j].n /\ job[j].n <= Len(turns')
                      /\ job[j].old = SubSeq(turns', 1, job[j].n - Keep)
    BY DEF SnapshotStillGood, AddTurn, Holding
  <2> DEFINE k == job[j].n - Keep
  <2>1. /\ Keep < job[j].n /\ job[j].n <= Len(turns)
        /\ job[j].old = SubSeq(turns, 1, k)
    BY DEF SnapshotStillGood
  <2>2. job[j].n \in Nat /\ Len(turns) \in Nat
    BY JobFields, LenProperties DEF TypeOK
  <2>3. k \in 1 .. Len(turns) /\ 1 \in 1 .. Len(turns)
    BY <2>1, <2>2, KeepType
  <2>4. SubSeq(turns \o <<Turn(said + 1)>>, 1, k) = SubSeq(turns, 1, k)
    BY <2>3, <1>2, SubSeqOfConcat1 DEF TypeOK
  <2>5. turns' = turns \o <<Turn(said + 1)>>
    BY <1>2, AppendIsConcat DEF TypeOK
  <2>6. job[j].old = SubSeq(turns', 1, k)
    BY <2>1, <2>4, <2>5
  <2>7. job[j].n <= Len(turns')
    BY <2>1, <2>2, <1>3
  <2>8. QED
    BY <2>1, <2>6, <2>7
<1>7. NothingForgotten'
  <2>1. turns \in Seq(Entry) /\ Covered(turns) = known /\ known' = known \union {said + 1}
    BY DEF AddTurn, NothingForgotten, TypeOK
  <2>2. Covered(Append(turns, Turn(said + 1))) = Covered(turns) \union {said + 1}
    BY <2>1, <1>2, CoveredAppend
  <2>3. QED
    BY <2>1, <2>2, <1>2 DEF NothingForgotten
<1>8. QED
  BY <1>4, <1>5, <1>6, <1>7

\* A handler's other steps leave the session alone; only the step that takes the
\* flag touches it, and starts the one job that holds it.
LEMMA HandlerSafe ==
  ASSUME SafeInv, NEW h \in Handlers, Handle(h)
  PROVE  SafeInv'
<1> USE DEF SafeInv
<1>1. CASE Receive(h)
  <2>1. TypeOK'
    BY <1>1 DEF Receive, TypeOK, file, history
  <2>2. QED
    BY <1>1, <2>1, FrameSafe DEF Receive, file, history
<1>2. CASE LLMFails(h)
  <2>1. TypeOK'
    BY <1>2 DEF LLMFails, TypeOK, file, history
  <2>2. QED
    BY <1>2, <2>1, FrameSafe DEF LLMFails, file, history
<1>3. CASE AddTurn(h)
  BY <1>3, AddTurnSafe
<1>4. CASE PersistTurn(h)
  <2>1. turn[h] \in TurnId
    BY <1>4 DEF PersistTurn, TypeOK
  <2>2. LoadTurn(disk, turn[h]) \in Seq(Entry)
    BY <2>1, TurnIsEntry, AppendProperties DEF LoadTurn, TypeOK
  <2>3. disk' \in Seq(Entry) /\ tooLong' \in BOOLEAN /\ durable' \subseteq TurnId
    BY <1>4, <2>1, <2>2 DEF PersistTurn, WriteLine, TypeOK, file
  <2>4. TypeOK'
    BY <1>4, <2>3 DEF PersistTurn, TypeOK
  <2>5. QED
    BY <1>4, <2>4, FrameSafe DEF PersistTurn
<1>5. CASE CheckThreshold(h)
  <2>1. TypeOK'
    BY <1>5 DEF CheckThreshold, HookStep, TypeOK, file, history
  <2>2. QED
    BY <1>5, <2>1, FrameSafe DEF CheckThreshold, HookStep, file, history
<1>6. CASE LookupFlag(h)
  <2>1. TypeOK'
    BY <1>6 DEF LookupFlag, HookStep, TypeOK, file, history
  <2>2. QED
    BY <1>6, <2>1, FrameSafe DEF LookupFlag, HookStep, file, history
<1>7. CASE SwapFlagMap(h)
  <2>1. TypeOK'
    BY <1>7 DEF SwapFlagMap, HookStep, TypeOK, file, history
  <2>2. QED
    BY <1>7, <2>1, FrameSafe DEF SwapFlagMap, HookStep, file, history
<1>8. CASE StartCompaction(h)
  <2>1. CASE flag = "running" /\ UNCHANGED <<flag, job>> /\ HookStep(h, "cas", "done")
    <3>1. TypeOK'
      BY <2>1 DEF HookStep, TypeOK, file, history
    <3>2. QED
      BY <2>1, <3>1, FrameSafe DEF HookStep, file, history
  <2>2. CASE /\ flag = "idle" /\ flag' = "running" /\ HookStep(h, "cas", "done")
             /\ \E j \in Jobs : ~Running(j) /\ GoTo(j, "snapshot")
    <3>1. PICK j \in Jobs : ~Running(j) /\ GoTo(j, "snapshot")
      BY <2>2
    <3>2. TypeOK'
      <4>1. job' \in [Jobs -> JobRecord]
        BY <3>1, JobsType
      <4>2. QED
        BY <2>2, <4>1 DEF HookStep, TypeOK, file, history
    <3>3. /\ Running(j)' /\ ~Holding(j)'
          /\ \A i \in Jobs : i # j => ~Running(i) /\ job'[i] = job[i]
      <4>1. \A i \in Jobs : ~Running(i)
        BY <2>2 DEF OneCompaction
      <4>2. job'[j].pc = "snapshot" /\ \A i \in Jobs : i # j => job'[i] = job[i]
        BY <3>1, GoToEffect
      <4>3. QED
        BY <4>1, <4>2 DEF Running, Holding
    <3>4. OneCompaction'
      BY <2>2, <3>3 DEF OneCompaction, Running
    <3>5. SnapshotStillGood'
      BY <3>3 DEF SnapshotStillGood, Running, Holding
    <3>6. NothingForgotten'
      BY <2>2 DEF NothingForgotten, HookStep, file, history
    <3>7. QED
      BY <3>2, <3>4, <3>5, <3>6
  <2>3. QED
    BY <1>8, <2>1, <2>2 DEF StartCompaction
<1>9. CASE HooksDone(h)
  <2>1. TypeOK'
    BY <1>9 DEF HooksDone, TypeOK, file, history
  <2>2. QED
    BY <1>9, <2>1, FrameSafe DEF HooksDone, file, history
<1>10. QED
  BY <1>1, <1>2, <1>3, <1>4, <1>5, <1>6, <1>7, <1>8, <1>9 DEF Handle, HandlerStep

\* While a job runs, every other job is idle.
LEMMA AloneRunning ==
  ASSUME SafeInv, NEW j \in Jobs, Running(j)
  PROVE  flag = "running" /\ \A i \in Jobs : i # j => ~Running(i)
BY DEF SafeInv, OneCompaction

\* The end of a job frees the flag it alone held.
LEMMA FinishSafe ==
  ASSUME SafeInv, NEW j \in Jobs, Running(j), Finish(j),
         UNCHANGED <<turns, pc, turn, persisting, hook, file, brain, history>>
  PROVE  SafeInv'
<1> USE DEF SafeInv
<1>1. TypeOK'
  <2>1. job' \in [Jobs -> JobRecord]
    BY NoJobType DEF Finish, TypeOK
  <2>2. QED
    BY <2>1 DEF Finish, TypeOK, file, history
<1>2. \A i \in Jobs : ~Running(i)' /\ ~Holding(i)'
  BY AloneRunning DEF Finish, Running, Holding, NoJob, TypeOK
<1>3. OneCompaction' /\ SnapshotStillGood'
  BY <1>2 DEF OneCompaction, SnapshotStillGood, Finish
<1>4. NothingForgotten'
  BY DEF NothingForgotten, file, history
<1>5. QED
  BY <1>1, <1>3, <1>4

\* A job's step that stays within the job keeps the others idle and the flag.
LEMMA JobAlone ==
  ASSUME SafeInv, NEW j \in Jobs, Running(j), Running(j)', flag' = flag,
         \A i \in Jobs : i # j => job'[i] = job[i]
  PROVE  /\ OneCompaction'
         /\ \A i \in Jobs : Holding(i)' => i = j
BY AloneRunning DEF OneCompaction, Running, Holding

\* The steps of a compaction: the snapshot it takes is good when taken, stays so
\* while no other job runs, and what replaces it stands for the same turns.
LEMMA JobSafe ==
  ASSUME SafeInv, NEW j \in Jobs, Compact(j)
  PROVE  SafeInv'
<1> USE DEF SafeInv
<1>1. CASE Snapshot(j)
  <2> USE <1>1 DEF Snapshot
  <2>1. Running(j)
    BY DEF Running
  <2>2. CASE Len(turns) <= Keep /\ Finish(j)
    BY <2>1, <2>2, FinishSafe
  <2>3. CASE /\ Len(turns) > Keep /\ UNCHANGED flag
             /\ job' = [job EXCEPT ![j] = [pc |-> "extract", n |-> Len(turns),
                          old |-> SubSeq(turns, 1, Len(turns) - Keep),
                          found |-> "none"]]
    <3>1. Len(turns) \in Nat /\ \A i \in 1 .. Len(turns) : turns[i] \in Entry
      BY LenProperties, ElementOfSeq DEF TypeOK
    <3>2. SubSeq(turns, 1, Len(turns) - Keep) \in Seq(Entry)
      BY <3>1, KeepType, SubSeqProperties
    <3>3. TypeOK'
      <4>1. job' \in [Jobs -> JobRecord]
        BY <2>3, <3>1, <3>2 DEF TypeOK, JobRecord
      <4>2. QED
        BY <2>3, <4>1 DEF TypeOK, file, history
    <3>4. /\ Running(j)' /\ \A i \in Jobs : i # j => job'[i] = job[i]
          /\ job'[j].n = Len(turns)
          /\ job'[j].old = SubSeq(turns, 1, Len(turns) - Keep)
      BY <2>3 DEF Running, TypeOK
    <3>5. OneCompaction' /\ \A i \in Jobs : Holding(i)' => i = j
      BY <2>1, <2>3, <3>4, JobAlone
    <3>6. SnapshotStillGood'
      BY <2>3, <3>1, <3>4, <3>5, KeepType DEF SnapshotStillGood
    <3>7. NothingForgotten'
      BY DEF NothingForgotten, file, history
    <3>8. QED
      BY <3>3, <3>5, <3>6, <3>7
  <2>4. QED
    BY <2>2, <2>3
<1>2. CASE Extract(j)
  <2>1. PICK x \in Extraction :
          job' = [job EXCEPT ![j].pc = "brain", ![j].found = x]
    BY <1>2 DEF Extract
  <2>2. TypeOK'
    <3>1. job' \in [Jobs -> JobRecord]
      <4>1. [job[j] EXCEPT !.pc = "brain", !.found = x] \in JobRecord
        BY JobRecordStep, EnvironmentAssumption DEF TypeOK
      <4>2. QED
        BY <2>1, <4>1 DEF TypeOK
    <3>2. QED
      BY <1>2, <3>1 DEF Extract, TypeOK, file, history
  <2>3. /\ Running(j) /\ Running(j)' /\ Holding(j)
        /\ \A i \in Jobs : i # j => job'[i] = job[i]
        /\ job'[j].n = job[j].n /\ job'[j].old = job[j].old
    BY <1>2, <2>1 DEF Extract, Running, Holding, TypeOK
  <2>4. OneCompaction' /\ \A i \in Jobs : Holding(i)' => i = j
    BY <1>2, <2>3, JobAlone DEF Extract
  <2>5. SnapshotStillGood' /\ NothingForgotten'
    BY <1>2, <2>3, <2>4 DEF Extract, SnapshotStillGood, NothingForgotten, file, history
  <2>6. QED
    BY <2>2, <2>4, <2>5
<1>3. CASE WriteBrain(j)
  <2> USE <1>3 DEF WriteBrain
  <2>1. Covered(job[j].old) \subseteq TurnId
    BY JobFields
  <2>2. TypeOK'
    <3>1. job' \in [Jobs -> JobRecord]
      BY JobsType
    <3>2. remembered' \subseteq TurnId
      BY <2>1 DEF TypeOK
    <3>3. QED
      BY <3>1, <3>2 DEF TypeOK, file
  <2>3. /\ Running(j) /\ Running(j)' /\ Holding(j)
        /\ \A i \in Jobs : i # j => job'[i] = job[i]
        /\ job'[j].n = job[j].n /\ job'[j].old = job[j].old
    BY GoToEffect DEF Running, Holding
  <2>4. OneCompaction' /\ \A i \in Jobs : Holding(i)' => i = j
    BY <2>3, JobAlone
  <2>5. SnapshotStillGood' /\ NothingForgotten'
    BY <2>3, <2>4 DEF SnapshotStillGood, NothingForgotten
  <2>6. QED
    BY <2>2, <2>4, <2>5
<1>4. CASE PanicOnNilBrain(j)
  BY <1>4, BootSafe DEF PanicOnNilBrain
<1>5. CASE ReplaceTurns(j)
  <2> USE <1>5 DEF ReplaceTurns
  <2> DEFINE k == job[j].n - Keep
  <2>1. /\ Running(j) /\ Holding(j) /\ Running(j)' /\ ~Holding(j)'
        /\ \A i \in Jobs : i # j => job'[i] = job[i]
    BY GoToEffect DEF Running, Holding
  <2>2. /\ Keep < job[j].n /\ job[j].n <= Len(turns)
        /\ job[j].old = SubSeq(turns, 1, k)
    BY <2>1 DEF SnapshotStillGood
  <2>3. k \in 0 .. Len(turns)
    <3>1. job[j].n \in Nat /\ Len(turns) \in Nat
      BY JobFields, LenProperties DEF TypeOK
    <3>2. QED
      BY <2>2, <3>1, KeepType
  <2>4. Covered(job[j].old) \in SUBSET TurnId
    BY JobFields
  <2>5. turns' \in Seq(Entry) /\ Covered(turns') = Covered(turns)
    BY <2>2, <2>3, <2>4, CompactedList DEF TypeOK
  <2>6. TypeOK'
    <3>1. job' \in [Jobs -> JobRecord]
      BY JobsType
    <3>2. QED
      BY <2>5, <3>1 DEF TypeOK, file, history
  <2>7. OneCompaction' /\ \A i \in Jobs : Holding(i)' => i = j
    BY <2>1, JobAlone
  <2>8. SnapshotStillGood'
    BY <2>1, <2>7 DEF SnapshotStillGood
  <2>9. NothingForgotten'
    BY <2>5 DEF NothingForgotten, file, history
  <2>10. QED
    BY <2>6, <2>7, <2>8, <2>9
<1>6. CASE AppendRecord(j)
  <2> USE <1>6 DEF AppendRecord
  <2>1. Covered(job[j].old) \in SUBSET TurnId /\ Len(job[j].old) \in Nat
    BY JobFields
  <2>2. LoadCompaction(disk, Len(job[j].old), Covered(job[j].old)) \in Seq(Entry)
    BY <2>1, LoadCompactionType DEF TypeOK
  <2>3. TypeOK'
    <3>1. job' \in [Jobs -> JobRecord]
      BY JobsType
    <3>2. disk' \in Seq(Entry) /\ tooLong' \in BOOLEAN
      BY <2>2 DEF WriteLine, TypeOK, file
    <3>3. QED
      BY <3>1, <3>2 DEF TypeOK, file, history
  <2>4. /\ Running(j) /\ Running(j)' /\ ~Holding(j)'
        /\ \A i \in Jobs : i # j => job'[i] = job[i]
    BY GoToEffect DEF Running, Holding
  <2>5. OneCompaction' /\ \A i \in Jobs : Holding(i)' => i = j
    BY <2>4, JobAlone
  <2>6. SnapshotStillGood' /\ NothingForgotten'
    BY <2>4, <2>5 DEF SnapshotStillGood, NothingForgotten, file, history
  <2>7. QED
    BY <2>3, <2>5, <2>6
<1>7. CASE ReleaseFlag(j)
  <2>1. Running(j)
    BY <1>7 DEF ReleaseFlag, Running
  <2>2. QED
    BY <1>7, <2>1, FinishSafe DEF ReleaseFlag
<1>8. QED
  BY <1>1, <1>2, <1>3, <1>4, <1>5, <1>6, <1>7 DEF Compact, JobStep

-----------------------------------------------------------------------------
(* Theorems *)

\* The invariant holds at the start and every step keeps it.
THEOREM SafeInvariant == Spec => []SafeInv
<1>1. SafeInv /\ [Next]_vars => SafeInv'
  <2> SUFFICES ASSUME SafeInv, [Next]_vars PROVE SafeInv'
    OBVIOUS
  <2>1. CASE \E h \in Handlers : Handle(h)
    BY <2>1, HandlerSafe
  <2>2. CASE \E j \in Jobs : Compact(j)
    BY <2>2, JobSafe
  <2>3. CASE Restart
    BY <2>3, BootSafe DEF Restart
  <2>4. CASE UNCHANGED vars
    <3>1. TypeOK'
      BY <2>4 DEF SafeInv, TypeOK, vars, memory, file, history
    <3>2. QED
      BY <2>4, <3>1, FrameSafe DEF vars, memory, file, history
  <2>5. QED
    BY <2>1, <2>2, <2>3, <2>4 DEF Next
<1>2. QED
  BY <1>1, InitSafe, PTL DEF Spec

\* Every variable keeps its type: in particular the session's memory and the
\* list its file is read into hold turns and summaries only.
THEOREM TypeCorrect == Spec => []TypeOK
<1>1. SafeInv => TypeOK
  BY DEF SafeInv
<1>2. QED
  BY <1>1, SafeInvariant, PTL

\* No two goroutines ever compact a session at once.
THEOREM Exclusive == Spec => []OneCompaction
<1>1. SafeInv => OneCompaction
  BY DEF SafeInv
<1>2. QED
  BY <1>1, SafeInvariant, PTL

\* What runCompaction read before unlocking is still good when it locks again.
THEOREM SnapshotSafe == Spec => []SnapshotStillGood
<1>1. SafeInv => SnapshotStillGood
  BY DEF SafeInv
<1>2. QED
  BY <1>1, SafeInvariant, PTL

\* No turn leaves a session's memory but into a summary written from it.
THEOREM MemoryComplete == Spec => []NothingForgotten
<1>1. SafeInv => NothingForgotten
  BY DEF SafeInv
<1>2. QED
  BY <1>1, SafeInvariant, PTL

-----------------------------------------------------------------------------
(* The file, when messages are handled one at a time and writes succeed *)

\* One message at a time, as the Discord queue and the CLI hand them over.
SerialHandling == \A g, h \in Handlers : g = h

WritesSucceed == WriteOutcomes \subseteq {"ok"}

\* The session's memory is the list d and the turn still to be persisted.
Ahead(d) ==
  /\ \A h \in Handlers : persisting[h] => turns = Append(d, Turn(turn[h]))
  /\ (\A h \in Handlers : ~persisting[h]) => turns = d

\* The record of job j makes of the file what the job made of the session.
Due(j) ==
  /\ Len(job[j].old) <= Len(disk)
  /\ job[j].old = SubSeq(disk, 1, Len(job[j].old))
  /\ Ahead(LoadCompaction(disk, Len(job[j].old), Covered(job[j].old)))

\* The file is the session but for a turn not yet persisted and a record not yet
\* appended; and it accounts for the turns that were, and for no other.  This is so
\* while every line fits the scanner: after a restart that could not read the file,
\* it has little to do with the session.
FileInv ==
  /\ \A h \in Handlers : persisting[h] => pc[h] = "hooks"
  /\ \A j \in Jobs : job[j].pc = "append" => Due(j)
  /\ (\A j \in Jobs : job[j].pc # "append") => Ahead(disk)
  /\ Covered(disk) = durable

\* A line that is too long stays in the file.
LEMMA TooLongStays ==
  ASSUME [Next]_vars, ~tooLong'
  PROVE  ~tooLong
<1>1. CASE UNCHANGED file \/ \E lines : WriteLine(lines)
  BY <1>1 DEF WriteLine, file
<1>2. ASSUME NEW h \in Handlers, Handle(h)
      PROVE  UNCHANGED file \/ \E lines : WriteLine(lines)
  <2>1. CASE PersistTurn(h)
    BY <2>1 DEF PersistTurn
  <2>2. CASE ~PersistTurn(h)
    BY <1>2, <2>2
    DEF Handle, HandlerStep, Receive, LLMFails, AddTurn, CheckThreshold, LookupFlag,
        SwapFlagMap, StartCompaction, HooksDone, HookStep
  <2> QED BY <2>1, <2>2
<1>3. ASSUME NEW j \in Jobs, Compact(j)
      PROVE  UNCHANGED file \/ \E lines : WriteLine(lines)
  <2>1. CASE AppendRecord(j)
    BY <2>1 DEF AppendRecord
  <2>2. CASE ~AppendRecord(j)
    BY <1>3, <2>2
    DEF Compact, JobStep, Snapshot, Extract, WriteBrain, ReplaceTurns, ReleaseFlag,
        PanicOnNilBrain, Boot
  <2> QED BY <2>1, <2>2
<1>4. CASE Restart
  BY <1>1, <1>4 DEF Restart, Boot
<1>5. CASE UNCHANGED vars
  BY <1>1, <1>5 DEF vars
<1> QED BY <1>1, <1>2, <1>3, <1>4, <1>5 DEF Next

\* A record that replaces no more than the file holds is read as it was meant.
LEMMA LoadExact ==
  ASSUME NEW s \in Seq(Entry), NEW k \in 0 .. Len(s), NEW S \in SUBSET TurnId
  PROVE  LoadCompaction(s, k, S) = <<Summary(S)>> \o SubSeq(s, k + 1, Len(s))
<1>1. ~(k > Len(s))
  BY LenProperties
<1>2. QED
  BY <1>1 DEF LoadCompaction

\* A turn appended before or after such a record: the same list.
LEMMA LoadCommutes ==
  ASSUME NEW s \in Seq(Entry), NEW k \in 0 .. Len(s), NEW S \in SUBSET TurnId,
         NEW e \in Entry
  PROVE  LoadCompaction(Append(s, e), k, S) = Append(LoadCompaction(s, k, S), e)
<1> DEFINE a == Append(s, e)
           r == SubSeq(s, k + 1, Len(s))
<1>1. /\ a \in Seq(Entry) /\ Len(a) = Len(s) + 1 /\ a[Len(s) + 1] = e
      /\ \A i \in 1 .. Len(s) : a[i] = s[i]
  BY AppendProperties
<1>2. Len(s) \in Nat /\ k \in Nat /\ k <= Len(s)
  BY LenProperties
<1>3. \A i \in 1 .. Len(s) : s[i] \in Entry
  BY ElementOfSeq
<1>4. /\ r \in Seq(Entry) /\ Len(r) = Len(s) - k
      /\ \A i \in 1 .. Len(s) - k : r[i] = s[k + i]
  BY Suffix, Zenon
<1>5. \A i \in 1 .. Len(s) + 1 : a[i] \in Entry
  BY <1>1, ElementOfSeq
<1> DEFINE ra == SubSeq(a, k + 1, Len(s) + 1)
<1>6. /\ ra \in Seq(Entry) /\ Len(ra) = Len(s) + 1 - k
      /\ \A i \in 1 .. Len(s) + 1 - k : ra[i] = a[k + i]
  <2>1. k \in 0 .. Len(a)
    BY <1>1, <1>2
  <2> HIDE DEF a
  <2> QED BY <2>1, <1>1, Suffix
<1>7. ra = Append(r, e)
  <2>1. /\ Append(r, e) \in Seq(Entry) /\ Len(Append(r, e)) = Len(s) - k + 1
        /\ \A i \in 1 .. Len(s) - k : Append(r, e)[i] = r[i]
        /\ Append(r, e)[Len(s) - k + 1] = e
    BY <1>4, AppendProperties
  <2>2. ASSUME NEW i \in 1 .. Len(ra) PROVE ra[i] = Append(r, e)[i]
    <3>1. CASE i \in 1 .. Len(s) - k
      <4>1. k + i \in 1 .. Len(s) /\ i \in 1 .. Len(s) + 1 - k
        BY <3>1, <1>2
      <4>2. QED
        BY <3>1, <4>1, <1>1, <1>4, <1>6, <2>1
    <3>2. CASE i = Len(s) - k + 1
      <4>1. k + i = Len(s) + 1 /\ i \in 1 .. Len(s) + 1 - k
        BY <3>2, <1>2
      <4>2. QED
        BY <3>2, <4>1, <1>1, <1>6, <2>1
    <3>3. QED
      BY <3>1, <3>2, <1>2, <1>6
  <2>3. Len(ra) = Len(Append(r, e))
    BY <2>1, <1>2, <1>6
  <2>4. QED
    BY <2>1, <2>2, <2>3, <1>6, SeqEqual
<1>8. Summary(S) \in Entry
  BY SummaryIsEntry
<1>9. <<Summary(S)>> \o Append(r, e) = Append(<<Summary(S)>> \o r, e)
  <2>1. /\ <<Summary(S)>> \in Seq(Entry) /\ <<e>> \in Seq(Entry)
        /\ <<Summary(S)>> \o r \in Seq(Entry)
    BY <1>4, <1>8, ConcatProperties
  <2>2. /\ Append(r, e) = r \o <<e>>
        /\ Append(<<Summary(S)>> \o r, e) = (<<Summary(S)>> \o r) \o <<e>>
    BY <1>4, <2>1, AppendIsConcat
  <2> DEFINE p == <<Summary(S)>>
             q == <<e>>
  <2> HIDE DEF p, q, r
  <2>3. p \in Seq(Entry) /\ q \in Seq(Entry) /\ r \in Seq(Entry)
    BY <1>4, <2>1 DEF p, q
  <2>4. (p \o r) \o q = p \o (r \o q)
    BY <2>3, ConcatAssociative, SMTT(30)
  <2>5. QED
    BY <2>2, <2>4 DEF p, q
<1>10. k \in 0 .. Len(a)
  BY <1>1, <1>2
<1>11. QED
  BY <1>1, <1>7, <1>9, <1>10, LoadExact

\* The invariant holds of a session that was never used.
LEMMA FileInit == Init => FileInv
BY CoveredEmpty DEF Init, FileInv, Ahead, NoJob

\* It holds of a session that was just loaded.
LEMMA FileBoot ==
  ASSUME ~tooLong, FileInv, NEW reason, Boot(reason)
  PROVE  FileInv'
BY DEF Boot, Loaded, FileInv, Ahead, NoJob, file

\* A step that touches neither list, no persisting turn and no record due keeps it.
LEMMA FileFrame ==
  ASSUME FileInv, UNCHANGED <<turns, disk, persisting, turn, durable>>,
         \A h \in Handlers : persisting[h] => pc'[h] = "hooks",
         \A j \in Jobs : job'[j].pc = "append" <=> job[j].pc = "append",
         \A j \in Jobs : job[j].pc = "append" => job'[j].old = job[j].old
  PROVE  FileInv'
<1>2. ASSUME NEW j \in Jobs, job'[j].pc = "append" PROVE Due(j)'
  <2>1. Due(j) /\ job'[j].old = job[j].old
    BY <1>2 DEF FileInv
  <2>2. QED
    BY <2>1 DEF Due, Ahead
<1>3. (\A j \in Jobs : job'[j].pc # "append") => Ahead(disk)'
  BY DEF FileInv, Ahead
<1>4. QED
  BY <1>2, <1>3 DEF FileInv

\* The one handler that adds a turn is the only one with something to persist.
LEMMA FileAddTurn ==
  ASSUME SerialHandling, SafeInv, FileInv, NEW h \in Handlers, AddTurn(h)
  PROVE  FileInv'
<1>1. \A g \in Handlers : g = h /\ ~persisting[g]
  BY DEF SerialHandling, AddTurn, FileInv
<1>2. /\ persisting'[h] /\ turn'[h] = said + 1 /\ pc'[h] = "hooks"
      /\ turns' = Append(turns, Turn(said + 1))
      /\ UNCHANGED <<disk, job, durable>>
  BY DEF AddTurn, SafeInv, TypeOK, file
<1>3. ASSUME NEW d, Ahead(d) PROVE Ahead(d)'
  BY <1>1, <1>2, <1>3 DEF Ahead
<1>4. ASSUME NEW j \in Jobs, job'[j].pc = "append" PROVE Due(j)'
  <2> DEFINE d == LoadCompaction(disk, Len(job[j].old), Covered(job[j].old))
  <2>1. Due(j) /\ Ahead(d)
    BY <1>2, <1>4 DEF FileInv, Due
  <2>2. /\ turns' = Append(d, Turn(turn'[h]))
    BY <2>1, <1>1, <1>2 DEF Ahead
  <2>3. QED
    BY <2>1, <2>2, <1>1, <1>2 DEF Due, Ahead
<1>5. (\A j \in Jobs : job'[j].pc # "append") => Ahead(disk)'
  BY <1>1, <1>2 DEF FileInv, Ahead
<1>6. QED
  BY <1>1, <1>2, <1>4, <1>5 DEF FileInv

\* Persisting a turn brings the file up to the session.
LEMMA FilePersist ==
  ASSUME SerialHandling, WritesSucceed, SafeInv, FileInv,
         NEW h \in Handlers, PersistTurn(h)
  PROVE  FileInv'
<1> DEFINE e == Turn(turn[h])
<1>1. /\ persisting[h] /\ ~persisting'[h] /\ \A g \in Handlers : g = h
      /\ disk' = Append(disk, e) /\ durable' = durable \union {turn[h]}
      /\ UNCHANGED <<turns, job, pc, turn>>
  BY DEF SerialHandling, WritesSucceed, PersistTurn, WriteLine, LoadTurn, SafeInv, TypeOK, file
<1>2. disk \in Seq(Entry) /\ e \in Entry /\ e.of = {turn[h]}
  BY <1>1, TurnIsEntry DEF SafeInv, TypeOK
<1>3. Covered(disk') = Covered(disk) \union {turn[h]}
  BY <1>1, <1>2, CoveredAppend
<1>4. ASSUME NEW j \in Jobs, job'[j].pc = "append" PROVE Due(j)'
  <2> DEFINE k == Len(job[j].old)
             S == Covered(job[j].old)
  <2>1. /\ k <= Len(disk) /\ job[j].old = SubSeq(disk, 1, k)
        /\ turns = Append(LoadCompaction(disk, k, S), e)
    BY <1>1, <1>4 DEF FileInv, Due, Ahead
  <2>2. k \in Nat /\ S \in SUBSET TurnId
    BY JobFields DEF SafeInv
  <2>3. k \in 0 .. Len(disk) /\ Len(disk) \in Nat
    BY <2>1, <2>2, <1>2, LenProperties
  <2>4. LoadCompaction(disk', k, S) = Append(LoadCompaction(disk, k, S), e)
    <3> HIDE DEF e, k, S
    <3>1. LoadCompaction(Append(disk, e), k, S) = Append(LoadCompaction(disk, k, S), e)
      BY <2>2, <2>3, <1>2, LoadCommutes
    <3>2. QED
      BY <3>1, <1>1
  <2>5. Len(disk') = Len(disk) + 1
    BY <1>1, <1>2, AppendProperties
  <2>6. SubSeq(disk', 1, k) = SubSeq(disk, 1, k)
    <3>1. CASE k = 0
      BY <3>1, SubSeqEmpty
    <3>2. CASE k # 0
      <4>1. k \in 1 .. Len(disk) /\ 1 \in 1 .. Len(disk)
        BY <3>2, <2>3
      <4>2. disk' = disk \o <<e>> /\ <<e>> \in Seq(Entry)
        BY <1>1, <1>2, AppendIsConcat
      <4>3. QED
        BY <4>1, <4>2, <1>2, SubSeqOfConcat1
    <3>3. QED
      BY <3>1, <3>2
  <2>7. k <= Len(disk')
    BY <2>1, <2>2, <2>3, <2>5
  <2>8. turns' = LoadCompaction(disk', k, S)
    BY <2>1, <2>4, <1>1
  <2>9. QED
    BY <2>1, <2>6, <2>7, <2>8, <1>1 DEF Due, Ahead
<1>5. (\A j \in Jobs : job'[j].pc # "append") => Ahead(disk)'
  BY <1>1 DEF FileInv, Ahead
<1>6. Covered(disk') = durable'
  BY <1>1, <1>3 DEF FileInv
<1>7. QED
  BY <1>1, <1>4, <1>5, <1>6 DEF FileInv

\* Appending the record brings the file up to the compacted session.
LEMMA FileRecord ==
  ASSUME WritesSucceed, SafeInv, FileInv, NEW j \in Jobs, AppendRecord(j)
  PROVE  FileInv'
<1> DEFINE k == Len(job[j].old)
           S == Covered(job[j].old)
<1>1. /\ job[j].pc = "append" /\ disk' = LoadCompaction(disk, k, S) /\ GoTo(j, "release")
      /\ UNCHANGED <<turns, pc, turn, persisting, durable>>
  BY DEF AppendRecord, WriteLine, WritesSucceed, file, history
<1>2. Due(j)
  BY <1>1 DEF FileInv
<1>3. k \in Nat /\ S \in SUBSET TurnId /\ disk \in Seq(Entry) /\ Len(disk) \in Nat
  BY JobFields, LenProperties DEF SafeInv, TypeOK
<1>4. k \in 0 .. Len(disk) /\ job[j].old = SubSeq(disk, 1, k)
  BY <1>2, <1>3 DEF Due
<1>5. Covered(disk') = Covered(disk)
  BY <1>1, <1>3, <1>4, LoadExact, CompactedList, ZenonT(60)
<1>6. \A i \in Jobs : job'[i].pc # "append"
  <2>1. job'[j].pc = "release" /\ \A i \in Jobs : i # j => job'[i] = job[i]
    BY <1>1, GoToEffect DEF SafeInv
  <2>2. \A i \in Jobs : i # j => ~Running(i)
    BY <1>1, AloneRunning DEF Running
  <2>3. QED
    BY <2>1, <2>2 DEF Running
<1>7. Ahead(disk)'
  BY <1>1, <1>2 DEF Due, Ahead
<1>8. QED
  BY <1>1, <1>5, <1>6, <1>7 DEF FileInv

\* Replacing turns in memory leaves the record due: the block dropped is the
\* front of the file, for compaction keeps at least the one turn that the file
\* may still lack.
LEMMA FileReplace ==
  ASSUME SerialHandling, SafeInv, FileInv, NEW j \in Jobs, ReplaceTurns(j)
  PROVE  FileInv'
<1> DEFINE k == job[j].n - Keep
           S == Covered(job[j].old)
<1>1. /\ turns' = <<Summary(S)>> \o SubSeq(turns, k + 1, Len(turns))
      /\ job[j].pc = "replace" /\ GoTo(j, "append")
      /\ UNCHANGED <<disk, pc, turn, persisting, durable>>
  BY DEF ReplaceTurns, file, history
<1>2. /\ job'[j].pc = "append" /\ job'[j].old = job[j].old
      /\ \A i \in Jobs : i # j => job'[i].pc # "append" /\ job[i].pc # "append"
  <2>1. job'[j].pc = "append" /\ job'[j].old = job[j].old
        /\ \A i \in Jobs : i # j => job'[i] = job[i]
    BY <1>1, GoToEffect DEF SafeInv
  <2>2. \A i \in Jobs : i # j => ~Running(i)
    BY <1>1, AloneRunning DEF Running
  <2>3. QED
    BY <2>1, <2>2 DEF Running
<1>3. Ahead(disk)
  BY <1>1, <1>2 DEF FileInv
<1>4. /\ Keep < job[j].n /\ job[j].n <= Len(turns)
      /\ job[j].old = SubSeq(turns, 1, k)
  BY <1>1 DEF SafeInv, SnapshotStillGood, Holding
<1>5. /\ job[j].n \in Nat /\ S \in SUBSET TurnId
      /\ turns \in Seq(Entry) /\ disk \in Seq(Entry)
      /\ Len(turns) \in Nat /\ Len(disk) \in Nat
  BY JobFields, LenProperties DEF SafeInv, TypeOK
<1>6. k \in 1 .. Len(turns) - 1
  BY <1>4, <1>5, KeepType
<1>7. Len(job[j].old) = k
  <2>1. \A i \in 1 .. k : turns[i] \in Entry
    BY <1>5, <1>6, ElementOfSeq
  <2>2. QED
    BY <2>1, <1>4, <1>6, SubSeqProperties
<1>8. CASE \A h \in Handlers : ~persisting[h]
  <2>1. turns = disk
    BY <1>8, <1>3 DEF Ahead
  <2>2. turns' = LoadCompaction(disk, k, S)
    <3>1. k \in 0 .. Len(disk)
      BY <2>1, <1>5, <1>6
    <3>2. QED
      BY <3>1, <2>1, <1>1, <1>5, LoadExact
  <2>4. k <= Len(disk) /\ job[j].old = SubSeq(disk, 1, k)
    BY <2>1, <1>4, <1>5, <1>6
  <2>5. Due(j)'
    BY <2>2, <2>4, <1>1, <1>2, <1>7, <1>8 DEF Due, Ahead
  <2>6. QED
    BY <2>5, <1>1, <1>2 DEF FileInv
<1>9. CASE \E h \in Handlers : persisting[h]
  <2> PICK h \in Handlers : persisting[h]
    BY <1>9
  <2> DEFINE e == Turn(turn[h])
  <2>1. turns = Append(disk, e) /\ \A g \in Handlers : g = h
    BY <1>3 DEF Ahead, SerialHandling
  <2>2. e \in Entry
    BY TurnIsEntry DEF SafeInv, TypeOK
  <2>3. Len(turns) = Len(disk) + 1
    BY <2>1, <2>2, <1>5, AppendProperties
  <2>4. k \in 1 .. Len(disk) /\ k \in 0 .. Len(disk) /\ k \in 0 .. Len(turns)
    BY <2>3, <1>5, <1>6
  <2>5. turns' = LoadCompaction(turns, k, S)
    BY <2>4, <1>1, <1>5, LoadExact
  <2>6. LoadCompaction(Append(disk, e), k, S) = Append(LoadCompaction(disk, k, S), e)
    <3> HIDE DEF e, k, S
    <3>1. QED
      BY <2>2, <2>4, <1>5, LoadCommutes
  <2>7. turns' = Append(LoadCompaction(disk, k, S), e)
    BY <2>1, <2>5, <2>6
  <2>8. job[j].old = SubSeq(disk, 1, k)
    <3>1. turns = disk \o <<e>> /\ <<e>> \in Seq(Entry)
      BY <2>1, <2>2, <1>5, AppendIsConcat
    <3>2. 1 \in 1 .. Len(disk)
      BY <2>4
    <3>3. SubSeq(disk \o <<e>>, 1, k) = SubSeq(disk, 1, k)
      <4> HIDE DEF e, k
      <4>1. QED
        BY <3>1, <3>2, <2>4, <1>5, SubSeqOfConcat1
    <3>4. QED
      BY <3>1, <3>3, <1>4
  <2>10. k <= Len(disk)
    BY <2>4, <1>5
  <2>11. Due(j)'
    BY <2>1, <2>7, <2>8, <2>10, <1>1, <1>2, <1>7 DEF Due, Ahead
  <2>12. QED
    BY <2>11, <1>1, <1>2 DEF FileInv
<1>10. QED
  BY <1>8, <1>9

-----------------------------------------------------------------------------
(* Theorems about the file *)

\* Handled one at a time and with writes that succeed, every step keeps FileInv, unless
\* it writes a line that is too long.
THEOREM FileInvariant ==
  ASSUME SerialHandling, WritesSucceed
  PROVE  Spec => [](~tooLong => FileInv)
<1>1. (~tooLong => FileInv) /\ SafeInv /\ [Next]_vars => (~tooLong => FileInv)'
  <2> SUFFICES ASSUME ~tooLong => FileInv, SafeInv, [Next]_vars, ~tooLong' PROVE FileInv'
    OBVIOUS
  <2>0. ~tooLong /\ FileInv
    BY TooLongStays
  <2>1. ASSUME NEW h \in Handlers, Handle(h) PROVE FileInv'
    <3>1. CASE Receive(h)
      BY <2>0, <3>1, FileFrame DEF Receive, FileInv, file, history, SafeInv, TypeOK
    <3>2. CASE LLMFails(h)
      <4>1. \A g \in Handlers : persisting[g] => pc'[g] = "hooks"
        BY <2>0, <3>2 DEF LLMFails, FileInv, SafeInv, TypeOK
      <4>2. QED
        BY <2>0, <3>2, <4>1, FileFrame DEF LLMFails, file, history
    <3>3. CASE AddTurn(h)
      BY <2>0, <3>3, FileAddTurn
    <3>4. CASE PersistTurn(h)
      BY <2>0, <3>4, FilePersist
    <3>5. CASE CheckThreshold(h)
      BY <2>0, <3>5, FileFrame DEF CheckThreshold, HookStep, FileInv, file, history
    <3>6. CASE LookupFlag(h)
      BY <2>0, <3>6, FileFrame DEF LookupFlag, HookStep, FileInv, file, history
    <3>7. CASE SwapFlagMap(h)
      BY <2>0, <3>7, FileFrame DEF SwapFlagMap, HookStep, FileInv, file, history
    <3>8. CASE StartCompaction(h)
      <4>1. CASE UNCHANGED job
        BY <2>0, <3>8, <4>1, FileFrame DEF StartCompaction, HookStep, FileInv, file, history
      <4>2. CASE \E j \in Jobs : ~Running(j) /\ GoTo(j, "snapshot")
        <5>1. PICK j \in Jobs : ~Running(j) /\ GoTo(j, "snapshot")
          BY <4>2
        <5>2. /\ job'[j].pc = "snapshot" /\ job[j].pc # "append"
              /\ \A i \in Jobs : i # j => job'[i] = job[i]
          BY <5>1, GoToEffect DEF SafeInv, Running
        <5>3. UNCHANGED <<turns, pc, disk, persisting, turn, durable>>
          BY <3>8 DEF StartCompaction, HookStep, file, history
        <5>4. QED
          BY <2>0, <5>2, <5>3, FileFrame DEF FileInv
      <4>3. QED
        BY <3>8, <4>1, <4>2 DEF StartCompaction
    <3>9. CASE HooksDone(h)
      <4>1. \A g \in Handlers : persisting[g] => pc'[g] = "hooks"
        BY <2>0, <3>9 DEF HooksDone, FileInv, SafeInv, TypeOK
      <4>2. QED
        BY <2>0, <3>9, <4>1, FileFrame DEF HooksDone, file, history
    <3>10. QED
      BY <2>1, <3>1, <3>2, <3>3, <3>4, <3>5, <3>6, <3>7, <3>8, <3>9
      DEF Handle, HandlerStep
  <2>2. ASSUME NEW j \in Jobs, Compact(j) PROVE FileInv'
    <3>1. CASE Snapshot(j)
      <4>1. /\ job[j].pc = "snapshot" /\ job'[j].pc # "append"
            /\ \A i \in Jobs : i # j => job'[i] = job[i]
        BY <3>1 DEF Snapshot, Finish, NoJob, SafeInv, TypeOK
      <4>2. QED
        BY <2>0, <3>1, <4>1, FileFrame DEF Snapshot, FileInv, file, history
    <3>2. CASE Extract(j)
      <4>1. /\ job[j].pc = "extract" /\ job'[j].pc # "append"
            /\ \A i \in Jobs : i # j => job'[i] = job[i]
        BY <3>2 DEF Extract, SafeInv, TypeOK
      <4>2. QED
        BY <2>0, <3>2, <4>1, FileFrame DEF Extract, FileInv, file, history
    <3>3. CASE WriteBrain(j)
      <4>1. /\ job[j].pc = "brain" /\ job'[j].pc # "append"
            /\ \A i \in Jobs : i # j => job'[i] = job[i]
        BY <3>3, GoToEffect DEF WriteBrain, SafeInv
      <4>2. QED
        BY <2>0, <3>3, <4>1, FileFrame DEF WriteBrain, FileInv, file
    <3>4. CASE PanicOnNilBrain(j)
      BY <2>0, <3>4, FileBoot DEF PanicOnNilBrain
    <3>5. CASE ReplaceTurns(j)
      BY <2>0, <3>5, FileReplace
    <3>6. CASE AppendRecord(j)
      BY <2>0, <3>6, FileRecord
    <3>7. CASE ReleaseFlag(j)
      <4>1. /\ job[j].pc = "release" /\ job'[j].pc # "append"
            /\ \A i \in Jobs : i # j => job'[i] = job[i]
        BY <3>7 DEF ReleaseFlag, Finish, NoJob, SafeInv, TypeOK
      <4>2. QED
        BY <2>0, <3>7, <4>1, FileFrame DEF ReleaseFlag, FileInv, file, history
    <3>8. QED
      BY <2>2, <3>1, <3>2, <3>3, <3>4, <3>5, <3>6, <3>7 DEF Compact, JobStep
  <2>3. CASE Restart
    BY <2>0, <2>3, FileBoot DEF Restart
  <2>4. CASE UNCHANGED vars
    BY <2>0, <2>4, FileFrame DEF vars, memory, file, history, FileInv
  <2>5. QED
    BY <2>1, <2>2, <2>3, <2>4 DEF Next
<1>2. QED
  BY <1>1, FileInit, SafeInvariant, PTL DEF Spec

\* A turn whose Persist succeeded survives every crash and every compaction, as long as
\* every line written can be read again.
THEOREM ResumeComplete ==
  ASSUME SerialHandling, WritesSucceed
  PROVE  Spec => []Resumable
<1>1. (~tooLong => FileInv) => Resumable
  BY DEF FileInv, Resumable, Loaded
<1>2. QED
  BY <1>1, FileInvariant, PTL

\* At rest, and as long as every line written can be read again, a restart would load
\* exactly the session that is in memory.
THEOREM ResumeExact ==
  ASSUME SerialHandling, WritesSucceed
  PROVE  Spec => []DiskMatchesMemory
<1>1. (~tooLong => FileInv) => DiskMatchesMemory
  BY DEF FileInv, Ahead, DiskMatchesMemory, Loaded
<1>2. QED
  BY <1>1, FileInvariant, PTL

-----------------------------------------------------------------------------
(* The session implements a conversation nobody has to compact *)

\* Numbers of turns ascend, a summary before them all; other entries stand for themselves.
Ordered(s) ==
  /\ \A i \in 1 .. Len(s) : IsSummary(s[i]) \/ s[i].of = {s[i].id}
  /\ \A i, k \in 1 .. Len(s) : i < k => s[i].id < s[k].id

\* So is the file, and what it holds is older than what is still to be written.
FileKept ==
  /\ Ordered(disk)
  /\ Covered(disk) \subseteq known
  /\ \A h \in Handlers : persisting[h] => \A t \in Covered(disk) : t < turn[h]

\* The session is in order, and what is known, saved or about to be written are turns
\* the conversation has had.
KeptInv ==
  /\ Ordered(turns)
  /\ known \subseteq 1 .. said /\ durable \subseteq 1 .. said
  /\ \A h \in Handlers : persisting[h] => turn[h] \in known
  /\ \A j \in Jobs : job[j].pc = "append" => job[j].old # <<>>
  /\ ~tooLong => FileKept

\* What an entry of a list stands for, the list stands for.
LEMMA EntryCovered ==
  ASSUME NEW s \in Seq(Entry), NEW i \in 1 .. Len(s)
  PROVE  s[i] \in Entry /\ s[i].of \subseteq Covered(s)
<1>1. s[i] \in Entry /\ i \in DOMAIN s
  BY ElementOfSeq, LenProperties
<1> QED BY <1>1 DEF Covered

\* A turn later than all of a list goes to its end.
LEMMA OrderedAppend ==
  ASSUME NEW s \in Seq(Entry), Ordered(s), NEW t \in TurnId, \A u \in Covered(s) : u < t
  PROVE  Ordered(Append(s, Turn(t)))
<1>1. /\ Len(Append(s, Turn(t))) = Len(s) + 1 /\ Len(s) \in Nat
      /\ \A i \in 1 .. Len(s) : Append(s, Turn(t))[i] = s[i]
      /\ Append(s, Turn(t))[Len(s) + 1] = Turn(t)
  BY TurnIsEntry, AppendProperties, LenProperties
<1>2. Turn(t).id = t /\ Turn(t).of = {t} /\ t \in Nat /\ t > 0
  BY DEF Turn, TurnId
<1>3. \A i \in 1 .. Len(s) : s[i].id < t
  <2> TAKE i \in 1 .. Len(s)
  <2>1. s[i] \in Entry /\ s[i].of \subseteq Covered(s)
    BY EntryCovered
  <2>2. IsSummary(s[i]) \/ s[i].id \in Covered(s)
    BY <2>1 DEF Ordered
  <2> QED BY <2>2, <1>2 DEF IsSummary
<1>4. \A i \in 1 .. Len(s) + 1 : i \in 1 .. Len(s) \/ i = Len(s) + 1
  BY <1>1
<1>5. ASSUME NEW i \in 1 .. Len(s) + 1, NEW k \in 1 .. Len(s) + 1, i < k
      PROVE  Append(s, Turn(t))[i].id < Append(s, Turn(t))[k].id
  <2>1. i \in 1 .. Len(s)
    BY <1>1, <1>5
  <2> QED BY <2>1, <1>1, <1>2, <1>3, <1>4, <1>5 DEF Ordered
<1>6. ASSUME NEW i \in 1 .. Len(s) + 1
      PROVE  LET e == Append(s, Turn(t))[i] IN IsSummary(e) \/ e.of = {e.id}
  BY <1>1, <1>2, <1>4 DEF Ordered
<1> QED BY <1>1, <1>5, <1>6 DEF Ordered

\* A summary that takes the place of at least one entry is the only one.
LEMMA OrderedCompacted ==
  ASSUME NEW s \in Seq(Entry), Ordered(s), NEW k \in 1 .. Len(s), NEW S \in SUBSET TurnId
  PROVE  Ordered(<<Summary(S)>> \o SubSeq(s, k + 1, Len(s)))
<1> DEFINE rest == SubSeq(s, k + 1, Len(s))
           c == <<Summary(S)>> \o rest
<1>1. /\ Len(s) \in Nat /\ k \in Nat /\ k \in 0 .. Len(s)
      /\ \A i \in 1 .. Len(s) : s[i] \in Entry
  BY LenProperties, ElementOfSeq
<1>2. /\ rest \in Seq(Entry) /\ Len(rest) = Len(s) - k
      /\ \A i \in 1 .. Len(s) - k : rest[i] = s[k + i]
  BY <1>1, Suffix, Zenon
<1>3. /\ Len(c) = Len(s) - k + 1 /\ c[1] = Summary(S)
      /\ \A i \in 2 .. Len(s) - k + 1 : c[i] = s[k + i - 1]
  <2> HIDE DEF rest
  <2>1. /\ <<Summary(S)>> \in Seq(Entry) /\ Len(<<Summary(S)>>) = 1
        /\ <<Summary(S)>>[1] = Summary(S)
    BY SummaryIsEntry
  <2>2. /\ Len(c) = Len(s) - k + 1
        /\ \A i \in 1 .. Len(s) - k + 1 :
             c[i] = IF i <= 1 THEN <<Summary(S)>>[i] ELSE rest[i - 1]
    <3>1. /\ Len(c) = 1 + Len(rest)
          /\ \A i \in 1 .. 1 + Len(rest) :
               c[i] = IF i <= 1 THEN <<Summary(S)>>[i] ELSE rest[i - 1]
      BY <2>1, <1>2, ConcatProperties
    <3>2. 1 + Len(rest) = Len(s) - k + 1
      BY <1>1, <1>2
    <3> HIDE DEF c
    <3> QED BY <3>1, <3>2
  <2>3. \A i \in 2 .. Len(s) - k + 1 : rest[i - 1] = s[k + (i - 1)]
    BY <1>1, <1>2
  <2> QED BY <2>1, <2>2, <2>3, <1>1
<1>4. ASSUME NEW i \in 2 .. Len(s) - k + 1
      PROVE  /\ k + i - 1 \in 1 .. Len(s) /\ c[i] = s[k + i - 1]
             /\ c[i].id > 0 /\ (IsSummary(c[i]) \/ c[i].of = {c[i].id})
  <2>1. k + i - 1 \in 1 .. Len(s) /\ 1 < k + i - 1 /\ 1 \in 1 .. Len(s)
    BY <1>1
  <2>2. s[1].id \in Nat /\ s[1].id < s[k + i - 1].id /\ s[k + i - 1].id \in Nat
    BY <2>1, <1>1 DEF Ordered, Entry
  <2>3. IsSummary(s[k + i - 1]) \/ s[k + i - 1].of = {s[k + i - 1].id}
    BY <2>1 DEF Ordered
  <2> QED BY <2>1, <2>2, <2>3, <1>3
<1>5. c[1].id = 0 /\ IsSummary(c[1])
  BY <1>3 DEF Summary, IsSummary
<1>6. \A i \in 1 .. Len(s) - k + 1 : i = 1 \/ i \in 2 .. Len(s) - k + 1
  BY <1>1
<1>7. ASSUME NEW i \in 1 .. Len(s) - k + 1, NEW l \in 1 .. Len(s) - k + 1, i < l
      PROVE  c[i].id < c[l].id
  <2> HIDE DEF c
  <2>1. l \in 2 .. Len(s) - k + 1
    BY <1>1, <1>7
  <2>2. CASE i = 1
    BY <2>1, <2>2, <1>4, <1>5
  <2>3. CASE i \in 2 .. Len(s) - k + 1
    <3>1. k + i - 1 < k + l - 1
      BY <1>1, <1>7
    <3>2. s[k + i - 1].id < s[k + l - 1].id
      BY <2>1, <2>3, <3>1, <1>4 DEF Ordered
    <3> QED BY <2>1, <2>3, <3>2, <1>3
  <2> QED BY <2>2, <2>3, <1>6
<1> QED
  <2> HIDE DEF c
  <2>1. \A i \in 1 .. Len(c) : IsSummary(c[i]) \/ c[i].of = {c[i].id}
    BY <1>3, <1>4, <1>5, <1>6
  <2>2. Ordered(c)
    BY <2>1, <1>3, <1>7 DEF Ordered
  <2> QED BY <2>2 DEF c

\* The numbers of a list's entries, but for a summary at its front.
LEMMA VerbatimOf ==
  ASSUME NEW s \in Seq(Entry)
  PROVE  LET d == IF s # <<>> /\ IsSummary(s[1]) THEN 1 ELSE 0 IN
         /\ d <= Len(s)
         /\ Verbatim(s) \in Seq(Nat) /\ Len(Verbatim(s)) = Len(s) - d
         /\ \A i \in 1 .. Len(s) - d : Verbatim(s)[i] = s[i + d].id
<1> DEFINE d == IF s # <<>> /\ IsSummary(s[1]) THEN 1 ELSE 0
           rest == IF s # <<>> /\ IsSummary(s[1]) THEN Tail(s) ELSE s
<1>1. Len(s) \in Nat /\ \A i \in 1 .. Len(s) : s[i] \in Entry
  BY LenProperties, ElementOfSeq
<1>2. /\ rest \in Seq(Entry) /\ Len(rest) = Len(s) - d /\ Len(rest) \in Nat
      /\ \A i \in 1 .. Len(s) - d : rest[i] = s[i + d]
  <2>1. CASE s # <<>> /\ IsSummary(s[1])
    BY <2>1, <1>1, HeadTailProperties, LenProperties
  <2>2. CASE ~(s # <<>> /\ IsSummary(s[1]))
    BY <2>2, <1>1
  <2> QED BY <2>1, <2>2
<1>3. DOMAIN rest = 1 .. Len(rest)
  BY <1>2, LenProperties
<1>4. Verbatim(s) = [i \in 1 .. Len(rest) |-> rest[i].id]
  BY <1>3 DEF Verbatim
<1>5. \A i \in 1 .. Len(rest) : rest[i].id \in Nat
  <2> HIDE DEF rest
  <2>1. \A i \in 1 .. Len(rest) : rest[i] \in Entry
    BY <1>2, ElementOfSeq
  <2>2. \A e \in Entry : e.id \in 0 .. MaxTurns
    BY DEF Entry
  <2> QED BY <2>1, <2>2, ConfigAssumption
<1>6. Verbatim(s) \in Seq(Nat) /\ Len(Verbatim(s)) = Len(rest)
  <2> HIDE DEF rest
  <2> QED BY <1>2, <1>4, <1>5
<1> QED
  <2>1. d \in {0, 1} /\ d <= Len(s)
    BY <1>1, EmptySeq
  <2>2. \A i \in 1 .. Len(s) - d : Verbatim(s)[i] = s[i + d].id
    BY <1>2, <1>4
  <2> QED BY <1>2, <1>6, <2>1, <2>2

LEMMA VerbatimAppend ==
  ASSUME NEW s \in Seq(Entry), NEW t \in TurnId
  PROVE  Verbatim(Append(s, Turn(t))) = Append(Verbatim(s), t)
<1> DEFINE a == Append(s, Turn(t))
           d == IF s # <<>> /\ IsSummary(s[1]) THEN 1 ELSE 0
<1>1. /\ a \in Seq(Entry) /\ a # <<>> /\ Len(a) = Len(s) + 1 /\ Len(s) \in Nat
      /\ \A i \in 1 .. Len(s) : a[i] = s[i]
      /\ a[Len(s) + 1] = Turn(t)
  BY TurnIsEntry, AppendProperties, LenProperties
<1>2. (IF a # <<>> /\ IsSummary(a[1]) THEN 1 ELSE 0) = d
  <2>1. CASE s = <<>>
    <3>1. a[1] = Turn(t)
      BY <2>1, <1>1, EmptySeq
    <3> QED BY <3>1, <2>1, TurnIsEntry
  <2>2. CASE s # <<>>
    <3>1. a[1] = s[1]
      BY <2>2, <1>1, EmptySeq
    <3> QED BY <3>1, <2>2, <1>1
  <2> QED BY <2>1, <2>2
<1>3. /\ d \in {0, 1} /\ d <= Len(s)
      /\ Verbatim(s) \in Seq(Nat) /\ Len(Verbatim(s)) = Len(s) - d
      /\ \A i \in 1 .. Len(s) - d : Verbatim(s)[i] = s[i + d].id
  BY VerbatimOf
<1>4. /\ Verbatim(a) \in Seq(Nat) /\ Len(Verbatim(a)) = Len(a) - d
      /\ \A i \in 1 .. Len(a) - d : Verbatim(a)[i] = a[i + d].id
  <2> HIDE DEF a, d
  <2> QED BY <1>1, <1>2, VerbatimOf
<1>5. t \in Nat
  BY DEF TurnId
<1>6. /\ Append(Verbatim(s), t) \in Seq(Nat) /\ Len(Append(Verbatim(s), t)) = Len(s) - d + 1
      /\ \A i \in 1 .. Len(s) - d : Append(Verbatim(s), t)[i] = Verbatim(s)[i]
      /\ Append(Verbatim(s), t)[Len(s) - d + 1] = t
  <2> HIDE DEF d
  <2> QED BY <1>3, <1>5, AppendProperties
<1>7. ASSUME NEW i \in 1 .. Len(s) - d + 1
      PROVE  Verbatim(a)[i] = Append(Verbatim(s), t)[i]
  <2>1. i \in 1 .. Len(a) - d
    BY <1>1
  <2>2. CASE i \in 1 .. Len(s) - d
    <3>1. i + d \in 1 .. Len(s)
      BY <2>2, <1>1, <1>3
    <3> QED BY <2>1, <2>2, <3>1, <1>1, <1>3, <1>4, <1>6
  <2>3. CASE i = Len(s) - d + 1
    <3>1. i + d = Len(s) + 1 /\ Turn(t).id = t
      BY <2>3, <1>1, <1>3 DEF Turn
    <3> QED BY <2>1, <2>3, <3>1, <1>1, <1>4, <1>6
  <2> HIDE DEF d
  <2> QED BY <2>2, <2>3, <1>1, <1>3
<1> QED
  <2>1. Len(Verbatim(a)) = Len(Append(Verbatim(s), t))
    BY <1>1, <1>3, <1>4, <1>6
  <2> HIDE DEF a, d
  <2>2. Verbatim(a) = Append(Verbatim(s), t)
    BY <2>1, <1>1, <1>3, <1>4, <1>6, <1>7, SeqEqual
  <2> QED BY <2>2 DEF a

\* A summary in the place of all entries up to the k-th leaves the numbers after it: as
\* many fewer as turns were dropped, of which a summary that stood there was none.
LEMMA VerbatimCompacted ==
  ASSUME NEW s \in Seq(Entry), NEW k \in 1 .. Len(s), NEW S \in SUBSET TurnId
  PROVE  LET c == <<Summary(S)>> \o SubSeq(s, k + 1, Len(s))
             d == IF IsSummary(s[1]) THEN 1 ELSE 0
         IN  /\ Verbatim(s) \in Seq(Nat) /\ Len(Verbatim(s)) = Len(s) - d
             /\ Verbatim(c) = SubSeq(Verbatim(s), k - d + 1, Len(s) - d)
<1> DEFINE rest == SubSeq(s, k + 1, Len(s))
           c == <<Summary(S)>> \o rest
           d == IF IsSummary(s[1]) THEN 1 ELSE 0
           v == SubSeq(Verbatim(s), k - d + 1, Len(s) - d)
<1>1. Len(s) \in Nat /\ k \in Nat /\ k <= Len(s) /\ k >= 1 /\ s # <<>>
  BY LenProperties, EmptySeq
<1>2. /\ d \in {0, 1}
      /\ Verbatim(s) \in Seq(Nat) /\ Len(Verbatim(s)) = Len(s) - d
      /\ \A i \in 1 .. Len(s) - d : Verbatim(s)[i] = s[i + d].id
  BY <1>1, VerbatimOf
<1>3. /\ rest \in Seq(Entry) /\ Len(rest) = Len(s) - k
      /\ \A i \in 1 .. Len(s) - k : rest[i] = s[k + i]
  <2>1. k \in 0 .. Len(s)
    BY <1>1
  <2> QED BY <2>1, Suffix, Zenon
<1>4. /\ c \in Seq(Entry) /\ Len(c) = Len(s) - k + 1 /\ c # <<>> /\ IsSummary(c[1])
      /\ \A i \in 1 .. Len(s) - k : c[i + 1] = s[k + i]
  <2> HIDE DEF rest
  <2>1. /\ <<Summary(S)>> \in Seq(Entry) /\ Len(<<Summary(S)>>) = 1
        /\ <<Summary(S)>>[1] = Summary(S) /\ IsSummary(Summary(S))
    BY SummaryIsEntry
  <2>2. /\ c \in Seq(Entry) /\ Len(c) = Len(s) - k + 1
        /\ \A i \in 1 .. Len(s) - k + 1 :
             c[i] = IF i <= 1 THEN <<Summary(S)>>[i] ELSE rest[i - 1]
    <3>1. /\ c \in Seq(Entry) /\ Len(c) = 1 + Len(rest)
          /\ \A i \in 1 .. 1 + Len(rest) :
               c[i] = IF i <= 1 THEN <<Summary(S)>>[i] ELSE rest[i - 1]
      BY <2>1, <1>3, ConcatProperties
    <3> HIDE DEF c
    <3> QED BY <3>1, <1>1, <1>3
  <2>3. \A i \in 1 .. Len(s) - k : c[i + 1] = rest[i]
    BY <2>2, <1>1
  <2>4. c[1] = Summary(S) /\ c # <<>>
    BY <2>1, <2>2, <1>1, EmptySeq
  <2> QED BY <2>1, <2>2, <2>3, <2>4, <1>3
<1>5. /\ Verbatim(c) \in Seq(Nat) /\ Len(Verbatim(c)) = Len(s) - k
      /\ \A i \in 1 .. Len(s) - k : Verbatim(c)[i] = s[k + i].id
  <2> HIDE DEF c
  <2>1. /\ Verbatim(c) \in Seq(Nat) /\ Len(Verbatim(c)) = Len(c) - 1
        /\ \A i \in 1 .. Len(c) - 1 : Verbatim(c)[i] = c[i + 1].id
    BY <1>4, VerbatimOf
  <2>2. Len(c) - 1 = Len(s) - k
    BY <1>1, <1>4
  <2> QED BY <2>1, <2>2, <1>4
<1>6. /\ v \in Seq(Nat) /\ Len(v) = Len(s) - k
      /\ \A i \in 1 .. Len(s) - k : v[i] = s[k + i].id
  <2> HIDE DEF d
  <2> DEFINE w == Verbatim(s)
  <2>1. \A i \in 1 .. Len(s) - d : w[i] \in Nat
    BY <1>2, ElementOfSeq
  <2>2. k - d + 1 \in Int /\ Len(s) - d \in Int /\ k - d + 1 >= 1
    BY <1>1, <1>2
  <2> HIDE DEF w
  <2>3. /\ SubSeq(w, k - d + 1, Len(s) - d) \in Seq(Nat)
        /\ Len(SubSeq(w, k - d + 1, Len(s) - d)) =
             IF k - d + 1 <= Len(s) - d THEN (Len(s) - d) - (k - d + 1) + 1 ELSE 0
        /\ \A i \in 1 .. (Len(s) - d) - (k - d + 1) + 1 :
             SubSeq(w, k - d + 1, Len(s) - d)[i] = w[(k - d + 1) + i - 1]
    <3>1. \A i \in k - d + 1 .. Len(s) - d : w[i] \in Nat
      BY <2>1, <2>2
    <3> QED BY <3>1, <2>2, SubSeqProperties
  <2>4. (Len(s) - d) - (k - d + 1) + 1 = Len(s) - k /\ k <= Len(s)
    BY <1>1, <1>2
  <2>5. \A i \in 1 .. Len(s) - k :
          /\ (k - d + 1) + i - 1 \in 1 .. Len(s) - d
          /\ ((k - d + 1) + i - 1) + d = k + i
    BY <1>1, <1>2, <2>2
  <2>6. \A i \in 1 .. Len(s) - d : w[i] = s[i + d].id
    BY <1>2 DEF w
  <2>7. \A i \in 1 .. Len(s) - k : w[(k - d + 1) + i - 1] = s[k + i].id
    BY <2>5, <2>6
  <2>8. Len(SubSeq(w, k - d + 1, Len(s) - d)) = Len(s) - k
    BY <2>3, <2>4, <1>1, <1>2
  <2> QED BY <2>3, <2>4, <2>7, <2>8 DEF w
<1>7. Verbatim(c) = v
  <2> HIDE DEF c, v
  <2> QED BY <1>5, <1>6, SeqEqual
<1> QED BY <1>2, <1>7

LEMMA KeptInit == Init => KeptInv
<1>1. Init => /\ turns = <<>> /\ disk = <<>> /\ known = {} /\ durable = {}
              /\ \A h \in Handlers : ~persisting[h]
              /\ \A j \in Jobs : job[j].pc = "none"
  BY DEF Init, NoJob
<1> QED BY <1>1, CoveredEmpty DEF KeptInv, FileKept, Ordered

LEMMA KeptBoot ==
  ASSUME KeptInv, NEW reason, Boot(reason)
  PROVE  KeptInv'
<1>1. /\ turns' = Loaded /\ known' = Covered(Loaded)
      /\ UNCHANGED <<disk, tooLong, said, durable>>
      /\ \A h \in Handlers : ~persisting'[h]
      /\ \A j \in Jobs : job'[j].pc = "none"
  BY DEF Boot, NoJob, file
<1>2. CASE tooLong
  <2>1. turns' = <<>> /\ known' = {}
    BY <1>1, <1>2, CoveredEmpty DEF Loaded
  <2> QED BY <1>1, <1>2, <2>1 DEF KeptInv, Ordered
<1>3. CASE ~tooLong
  <2>1. turns' = disk /\ known' = Covered(disk)
    BY <1>1, <1>3 DEF Loaded
  <2> QED BY <1>1, <1>3, <2>1 DEF KeptInv, FileKept
<1> QED BY <1>2, <1>3

\* A step that touches none of it keeps it.
LEMMA KeptFrame ==
  ASSUME KeptInv, UNCHANGED <<turns, file, known, durable, said, persisting, turn>>,
         \A j \in Jobs : job'[j].pc = "append" =>
           job[j].pc = "append" /\ job'[j].old = job[j].old
  PROVE  KeptInv'
BY DEF KeptInv, FileKept, file

\* The turn added is later than all the conversation has had.
LEMMA KeptAddTurn ==
  ASSUME SerialHandling, SafeInv, KeptInv, NEW h \in Handlers, AddTurn(h)
  PROVE  /\ KeptInv'
         /\ said + 1 \in TurnId /\ \A u \in known \union durable : u < said + 1
<1>1. said \in Nat /\ said + 1 \in TurnId
  BY ConfigAssumption DEF AddTurn, SafeInv, TypeOK, TurnId
<1>2. \A u \in known \union durable : u < said + 1
  BY <1>1 DEF KeptInv
<1>3. \A g \in Handlers : g = h
  BY DEF SerialHandling
<1>4. /\ turns' = Append(turns, Turn(said + 1)) /\ said' = said + 1
      /\ known' = known \union {said + 1} /\ turn'[h] = said + 1
      /\ UNCHANGED <<disk, tooLong, job, durable>>
  BY DEF AddTurn, SafeInv, TypeOK, file
<1>5. Ordered(turns')
  <2>1. turns \in Seq(Entry) /\ Ordered(turns) /\ \A u \in Covered(turns) : u < said + 1
    BY <1>2 DEF SafeInv, NothingForgotten, TypeOK, KeptInv
  <2> QED BY <2>1, <1>1, <1>4, OrderedAppend
<1>6. known' \subseteq 1 .. said' /\ durable' \subseteq 1 .. said'
  <2>1. known \subseteq 1 .. said /\ durable \subseteq 1 .. said
    BY DEF KeptInv
  <2> QED BY <2>1, <1>1, <1>4
<1>7. \A g \in Handlers : turn'[g] \in known'
  BY <1>3, <1>4
<1>8. FileKept => FileKept'
  BY <1>2, <1>3, <1>4 DEF FileKept
<1> QED BY <1>1, <1>2, <1>4, <1>5, <1>6, <1>7, <1>8 DEF KeptInv

\* The turn written is later than all of the file.
LEMMA KeptPersist ==
  ASSUME SerialHandling, WritesSucceed, SafeInv, KeptInv, NEW h \in Handlers, PersistTurn(h)
  PROVE  /\ KeptInv'
         /\ turn[h] \in known /\ durable' = durable \union {turn[h]}
<1>1. /\ persisting[h] /\ turn[h] \in TurnId /\ \A g \in Handlers : g = h
      /\ ~persisting'[h]
  BY DEF SerialHandling, PersistTurn, SafeInv, TypeOK
<1>2. /\ disk' = Append(disk, Turn(turn[h])) /\ durable' = durable \union {turn[h]}
      /\ tooLong => tooLong'
      /\ UNCHANGED <<turns, job, known, said>>
  BY DEF WritesSucceed, PersistTurn, WriteLine, LoadTurn
<1>3. turn[h] \in known /\ disk \in Seq(Entry)
  BY <1>1 DEF KeptInv, SafeInv, TypeOK
<1>4. ASSUME FileKept PROVE FileKept'
  <2>1. \A t \in Covered(disk) : t < turn[h]
    BY <1>1, <1>4 DEF FileKept
  <2>2. Ordered(disk')
    BY <1>1, <1>2, <1>3, <1>4, <2>1, OrderedAppend DEF FileKept
  <2>3. Covered(disk') = Covered(disk) \union {turn[h]}
    BY <1>1, <1>2, <1>3, TurnIsEntry, CoveredAppend
  <2> QED BY <1>1, <1>2, <1>3, <1>4, <2>2, <2>3 DEF FileKept
<1> QED BY <1>1, <1>2, <1>3, <1>4 DEF KeptInv

\* What a job that has a block to replace knows of it.
LEMMA BlockLength ==
  ASSUME SafeInv, NEW j \in Jobs, Holding(j)
  PROVE  /\ job[j].n - Keep \in 1 .. Len(turns) - 1
         /\ Len(job[j].old) = job[j].n - Keep
<1> DEFINE k == job[j].n - Keep
<1>1. Keep < job[j].n /\ job[j].n <= Len(turns) /\ job[j].old = SubSeq(turns, 1, k)
  BY DEF SafeInv, SnapshotStillGood
<1>2. job[j].n \in Nat /\ turns \in Seq(Entry) /\ Len(turns) \in Nat
  BY JobFields, LenProperties DEF SafeInv, TypeOK
<1>3. k \in 1 .. Len(turns) - 1
  BY <1>1, <1>2, KeepType
<1>5. Len(SubSeq(turns, 1, k)) = k
  <2>1. k \in 0 .. Len(turns)
    BY <1>2, <1>3
  <2> HIDE DEF k
  <2> QED BY <2>1, <1>2, Prefix
<1> QED BY <1>1, <1>3, <1>5

LEMMA KeptReplace ==
  ASSUME SafeInv, KeptInv, NEW j \in Jobs, ReplaceTurns(j)
  PROVE  KeptInv'
<1> DEFINE k == job[j].n - Keep
<1>1. /\ turns' = <<Summary(Covered(job[j].old))>> \o SubSeq(turns, k + 1, Len(turns))
      /\ job[j].pc = "replace" /\ GoTo(j, "append")
      /\ UNCHANGED <<disk, tooLong, turn, persisting, durable, known, said>>
  BY DEF ReplaceTurns, file, history
<1>2. k \in 1 .. Len(turns) - 1 /\ Len(job[j].old) = k
  BY <1>1, BlockLength DEF Holding
<1>3. turns \in Seq(Entry) /\ Len(turns) \in Nat /\ Covered(job[j].old) \in SUBSET TurnId
  BY JobFields, LenProperties DEF SafeInv, TypeOK
<1>4. k \in 1 .. Len(turns) /\ job[j].old # <<>>
  BY <1>2, <1>3, EmptySeq
<1>5. Ordered(turns')
  <2> HIDE DEF k
  <2> QED BY <1>1, <1>3, <1>4, OrderedCompacted DEF KeptInv
<1>6. job'[j].old = job[j].old /\ \A i \in Jobs : i # j => job'[i] = job[i]
  BY <1>1, GoToEffect DEF SafeInv
<1>7. FileKept => FileKept'
  BY <1>1 DEF FileKept
<1> QED BY <1>1, <1>4, <1>5, <1>6, <1>7 DEF KeptInv

LEMMA KeptRecord ==
  ASSUME WritesSucceed, SafeInv, ~tooLong => FileInv, KeptInv,
         NEW j \in Jobs, AppendRecord(j)
  PROVE  KeptInv'
<1> DEFINE k == Len(job[j].old)
           S == Covered(job[j].old)
<1>1. /\ job[j].pc = "append" /\ disk' = LoadCompaction(disk, k, S) /\ GoTo(j, "release")
      /\ tooLong => tooLong'
      /\ UNCHANGED <<turns, turn, persisting, durable, known, said>>
  BY DEF AppendRecord, WriteLine, WritesSucceed, history
<1>2. /\ k \in Nat /\ S \in SUBSET TurnId /\ disk \in Seq(Entry) /\ Len(disk) \in Nat
      /\ job[j].old \in Seq(Entry)
  BY JobFields, LenProperties DEF SafeInv, TypeOK
<1>3. ASSUME ~tooLong PROVE FileKept'
  <2>1. k <= Len(disk) /\ job[j].old = SubSeq(disk, 1, k) /\ job[j].old # <<>>
    BY <1>1, <1>3 DEF FileInv, Due, KeptInv
  <2>2. k \in 1 .. Len(disk) /\ k \in 0 .. Len(disk)
    <3>1. k # 0
      BY <1>2, <2>1, EmptySeq
    <3> QED BY <3>1, <1>2, <2>1
  <2>3. disk' = <<Summary(S)>> \o SubSeq(disk, k + 1, Len(disk))
    BY <1>1, <1>2, <2>2, LoadExact
  <2>4. Ordered(disk')
    <3> HIDE DEF k, S
    <3> QED BY <1>2, <1>3, <2>2, <2>3, OrderedCompacted DEF KeptInv, FileKept
  <2>5. Covered(disk') = Covered(disk)
    BY <1>2, <2>1, <2>2, <2>3, CompactedList
  <2> QED BY <1>1, <1>3, <2>4, <2>5 DEF KeptInv, FileKept
<1>4. job'[j].pc = "release" /\ \A i \in Jobs : i # j => job'[i] = job[i]
  BY <1>1, GoToEffect DEF SafeInv
<1> QED BY <1>1, <1>3, <1>4 DEF KeptInv

LEMMA EntryId == \A e \in Entry : e.id \in Nat
<1>1. \A e \in Entry : e.id \in 0 .. MaxTurns
  BY DEF Entry
<1> QED BY <1>1, ConfigAssumption

\* The other steps touch neither the session nor what is known or saved.
LEMMA KeptElsewhere ==
  ASSUME SafeInv, KeptInv, [Next]_vars,
         ~\E h \in Handlers : AddTurn(h) \/ PersistTurn(h),
         ~\E j \in Jobs : ReplaceTurns(j) \/ AppendRecord(j) \/ PanicOnNilBrain(j),
         ~Restart
  PROVE  KeptInv' /\ UNCHANGED <<turns, file, known, durable, run>>
<1> USE DEF SafeInv
<1>1. ASSUME NEW h \in Handlers, Handle(h)
      PROVE  KeptInv' /\ UNCHANGED <<turns, file, known, durable, run>>
  <2>1. CASE Receive(h) \/ LLMFails(h) \/ CheckThreshold(h) \/ LookupFlag(h)
               \/ SwapFlagMap(h) \/ HooksDone(h)
    BY <2>1, KeptFrame
    DEF Receive, LLMFails, CheckThreshold, LookupFlag, SwapFlagMap, HooksDone, HookStep, history
  <2>2. CASE StartCompaction(h)
    <3>1. UNCHANGED <<turns, file, known, durable, said, run, persisting, turn>>
      BY <2>2 DEF StartCompaction, HookStep, history
    <3>2. \A j \in Jobs : job'[j] = job[j] \/ job'[j].pc = "snapshot"
      <4>1. CASE UNCHANGED job
        BY <4>1
      <4>2. ASSUME NEW j \in Jobs, GoTo(j, "snapshot")
            PROVE  \A i \in Jobs : job'[i] = job[i] \/ job'[i].pc = "snapshot"
        BY <4>2, GoToEffect
      <4> QED BY <2>2, <4>1, <4>2 DEF StartCompaction
    <3> QED BY <3>1, <3>2, KeptFrame
  <2> QED BY <1>1, <2>1, <2>2 DEF Handle, HandlerStep
<1>2. ASSUME NEW j \in Jobs, Compact(j)
      PROVE  KeptInv' /\ UNCHANGED <<turns, file, known, durable, run>>
  <2>1. UNCHANGED <<turns, file, known, durable, said, run, persisting, turn>>
    BY <1>2 DEF Compact, JobStep, Snapshot, Extract, WriteBrain, ReleaseFlag, history
  <2>2. job'[j].pc # "append" /\ \A i \in Jobs : i # j => job'[i] = job[i]
    <3>1. CASE Snapshot(j)
      BY <3>1 DEF Snapshot, Finish, NoJob, TypeOK
    <3>2. CASE Extract(j)
      BY <3>2 DEF Extract, TypeOK, JobRecord
    <3>3. CASE WriteBrain(j)
      BY <3>3, GoToEffect DEF WriteBrain
    <3>4. CASE ReleaseFlag(j)
      BY <3>4 DEF ReleaseFlag, Finish, NoJob, TypeOK
    <3> QED BY <1>2, <3>1, <3>2, <3>3, <3>4 DEF Compact, JobStep
  <2> QED BY <2>1, <2>2, KeptFrame
<1>3. CASE UNCHANGED vars
  BY <1>3, KeptFrame DEF vars, memory, history
<1> QED BY <1>1, <1>2, <1>3 DEF Next

\* All but the last of a list that was appended to.
LEMMA AppendFront ==
  ASSUME NEW S, NEW s \in Seq(S), NEW e \in S
  PROVE  SubSeq(Append(s, e), 1, Len(s)) = s
<1> DEFINE a == Append(s, e)
<1>1. /\ a \in Seq(S) /\ Len(a) = Len(s) + 1 /\ Len(s) \in Nat
      /\ \A i \in 1 .. Len(s) : a[i] = s[i]
  BY AppendProperties, LenProperties
<1>2. Len(s) \in 0 .. Len(a)
  BY <1>1
<1> HIDE DEF a
<1>3. /\ SubSeq(a, 1, Len(s)) \in Seq(S) /\ Len(SubSeq(a, 1, Len(s))) = Len(s)
      /\ \A i \in 1 .. Len(s) : SubSeq(a, 1, Len(s))[i] = a[i]
  BY <1>1, <1>2, Prefix, Zenon
<1> QED BY <1>1, <1>3, SeqEqual DEF a

\* What the file keeps word for word ascends, and is saved.
LEMMA FileVerbatim ==
  ASSUME NEW s \in Seq(Entry), Ordered(s)
  PROVE  /\ \A i, k \in DOMAIN Verbatim(s) : i < k => Verbatim(s)[i] < Verbatim(s)[k]
         /\ \A i \in DOMAIN Verbatim(s) : Verbatim(s)[i] \in Covered(s)
<1> DEFINE d == IF s # <<>> /\ IsSummary(s[1]) THEN 1 ELSE 0
           v == Verbatim(s)
<1>1. Len(s) \in Nat
  BY LenProperties
<1>2. /\ d \in {0, 1} /\ d <= Len(s) /\ DOMAIN v = 1 .. Len(s) - d
      /\ \A i \in 1 .. Len(s) - d : v[i] = s[i + d].id
  BY VerbatimOf, LenProperties
<1>3. \A i \in 1 .. Len(s) - d : i + d \in 1 .. Len(s)
  BY <1>1, <1>2
<1>4. \A i, k \in 1 .. Len(s) - d : i < k => v[i] < v[k]
  <2> TAKE i, k \in 1 .. Len(s) - d
  <2> HAVE i < k
  <2>1. i + d < k + d
    BY <1>1, <1>2
  <2>2. s[i + d].id < s[k + d].id
    BY <1>3, <2>1 DEF Ordered
  <2> QED BY <1>2, <2>2
<1>5. \A i \in 1 .. Len(s) - d : v[i] \in Covered(s)
  <2> TAKE i \in 1 .. Len(s) - d
  <2>1. s[i + d] \in Entry /\ s[i + d].of \subseteq Covered(s)
    BY <1>3, EntryCovered
  <2>2. ~IsSummary(s[i + d])
    <3>1. CASE i + d = 1
      <4>1. d = 0 /\ s # <<>>
        BY <1>1, <1>2, <1>3, <3>1, EmptySeq
      <4> QED BY <3>1, <4>1
    <3>2. CASE i + d # 1
      <4>1. 1 \in 1 .. Len(s) /\ 1 < i + d
        BY <1>1, <1>2, <1>3, <3>2
      <4>2. s[1].id < s[i + d].id
        BY <1>3, <4>1 DEF Ordered
      <4>3. s[1].id \in Nat /\ s[i + d].id \in Nat
        BY <1>3, <4>1, EntryCovered, EntryId
      <4>4. s[i + d].id # 0
        BY <4>2, <4>3
      <4> QED BY <4>4 DEF IsSummary
    <3> QED BY <3>1, <3>2
  <2>3. s[i + d].of = {s[i + d].id}
    BY <1>3, <2>2 DEF Ordered
  <2> QED BY <1>2, <2>1, <2>3
<1> QED BY <1>2, <1>4, <1>5

\* A list that the session's memory is ahead of by the turn still to be persisted, and
\* that keeps the latest of what the file keeps word for word.
LEMMA FileBehind ==
  ASSUME SafeInv, FileInv, KeptInv
  PROVE  \E c \in Seq(Entry), k \in 0 .. Len(Verbatim(disk)) :
           /\ Ahead(c)
           /\ Verbatim(c) = SubSeq(Verbatim(disk), k + 1, Len(Verbatim(disk)))
<1> DEFINE w == Verbatim(disk)
<1>1. disk \in Seq(Entry) /\ Len(disk) \in Nat
  BY LenProperties DEF SafeInv, TypeOK
<1>2. w \in Seq(Nat) /\ Len(w) \in Nat
  BY <1>1, VerbatimOf, LenProperties
<1>3. CASE \A j \in Jobs : job[j].pc # "append"
  <2>1. Ahead(disk)
    BY <1>3 DEF FileInv
  <2>2. w = SubSeq(w, 0 + 1, Len(w)) /\ 0 \in 0 .. Len(w)
    BY <1>2, SubSeqFull
  <2> HIDE DEF w
  <2>3. Verbatim(disk) = w
    BY DEF w
  <2> QED BY <1>1, <2>1, <2>2, <2>3
<1>4. ASSUME NEW j \in Jobs, job[j].pc = "append"
      PROVE  \E c \in Seq(Entry), k \in 0 .. Len(w) :
               Ahead(c) /\ Verbatim(c) = SubSeq(w, k + 1, Len(w))
  <2> DEFINE m == Len(job[j].old)
             S == Covered(job[j].old)
             c == LoadCompaction(disk, m, S)
             d == IF IsSummary(disk[1]) THEN 1 ELSE 0
  <2>1. /\ m \in Nat /\ S \in SUBSET TurnId /\ job[j].old \in Seq(Entry)
        /\ job[j].old # <<>>
    BY <1>4, JobFields, LenProperties DEF SafeInv, KeptInv
  <2>2. m <= Len(disk) /\ Ahead(c)
    BY <1>4 DEF FileInv, Due
  <2>3. m # 0
    BY <2>1, EmptySeq
  <2>4. m \in 0 .. Len(disk) /\ m \in 1 .. Len(disk)
    BY <2>1, <2>2, <2>3, <1>1
  <2> HIDE DEF m, S
  <2>5. c = <<Summary(S)>> \o SubSeq(disk, m + 1, Len(disk))
    BY <1>1, <2>1, <2>4, LoadExact
  <2>6. c \in Seq(Entry)
    BY <1>1, <2>1, <2>4, LoadCompactionType
  <2>7. Len(w) = Len(disk) - d /\ Verbatim(c) = SubSeq(w, m - d + 1, Len(disk) - d)
    BY <1>1, <2>1, <2>4, <2>5, VerbatimCompacted
  <2>8. m - d \in 0 .. Len(w)
    <3>1. d \in {0, 1}
      OBVIOUS
    <3> HIDE DEF d, w
    <3> QED BY <1>1, <2>4, <2>7, <3>1
  <2> HIDE DEF w, c, d
  <2>9. Verbatim(c) = SubSeq(w, (m - d) + 1, Len(w))
    BY <2>7
  <2>10. Ahead(c)
    BY <2>2 DEF c
  <2> QED BY <2>6, <2>8, <2>9, <2>10
<1> QED BY <1>3, <1>4

\* The process resumes what was saved.
LEMMA ResumeStep ==
  ASSUME SafeInv, FileInv, KeptInv, ~tooLong, NEW reason, Boot(reason)
  PROVE  Conv!Resume
<1> DEFINE w == Verbatim(disk)
           v == Verbatim(turns)
<1>1. /\ turns' = disk /\ known' = Covered(disk) /\ UNCHANGED <<durable, tooLong>>
      /\ Covered(disk) = durable /\ run' = 1 - run
  BY DEF Boot, Loaded, FileInv, file
<1>2. /\ disk \in Seq(Entry) /\ turns \in Seq(Entry) /\ Ordered(disk)
      /\ v \in Seq(Nat) /\ Len(v) \in Nat
  BY VerbatimOf, LenProperties DEF SafeInv, TypeOK, KeptInv, FileKept
<1>3. /\ \A i, k \in DOMAIN w : i < k => w[i] < w[k]
      /\ \A i \in DOMAIN w : w[i] \in durable
  BY <1>1, <1>2, FileVerbatim
<1>4. PICK c \in Seq(Entry), k \in 0 .. Len(w) : Ahead(c) /\ Verbatim(c) = SubSeq(w, k + 1, Len(w))
  BY FileBehind
<1>5. Verbatim(c) \in Seq(Nat) /\ Len(Verbatim(c)) \in Nat
  BY VerbatimOf, LenProperties
<1>6. \E n \in 0 .. Len(v) :
        /\ SubSeq(w, k + 1, Len(w)) = SubSeq(v, 1, n)
        /\ \A i \in n + 1 .. Len(v) : v[i] \notin durable
  <2>1. CASE \A h \in Handlers : ~persisting[h]
    <3>1. v = SubSeq(w, k + 1, Len(w))
      BY <1>4, <2>1 DEF Ahead
    <3>2. SubSeq(v, 1, Len(v)) = v
      BY <1>2, SubSeqFull
    <3>3. Len(v) \in 0 .. Len(v) /\ \A i \in Len(v) + 1 .. Len(v) : FALSE
      BY <1>2
    <3> HIDE DEF v, w
    <3> QED BY <3>1, <3>2, <3>3
  <2>2. ASSUME NEW h \in Handlers, persisting[h]
        PROVE  \E n \in 0 .. Len(v) :
                 /\ SubSeq(w, k + 1, Len(w)) = SubSeq(v, 1, n)
                 /\ \A i \in n + 1 .. Len(v) : v[i] \notin durable
    <3> DEFINE t == turn[h]
               n == Len(Verbatim(c))
    <3>1. t \in TurnId /\ t \in Nat /\ turns = Append(c, Turn(t))
      BY <1>4, <2>2 DEF Ahead, SafeInv, TypeOK, TurnId
    <3>2. v = Append(Verbatim(c), t)
      BY <3>1, VerbatimAppend
    <3>3. SubSeq(v, 1, n) = Verbatim(c)
      BY <1>5, <3>1, <3>2, AppendFront
    <3>4. Len(v) = n + 1 /\ v[n + 1] = t
      BY <1>5, <3>1, <3>2, AppendProperties
    <3>5. t \notin durable
      <4>1. \A u \in Covered(disk) : u < t
        BY <2>2 DEF KeptInv, FileKept
      <4> QED BY <1>1, <3>1, <4>1
    <3> HIDE DEF v, w, n, t
    <3>6. n \in Nat
      BY <1>5 DEF n
    <3>7. n \in 0 .. Len(v) /\ \A i \in n + 1 .. Len(v) : i = n + 1
      BY <3>4, <3>6
    <3> QED BY <1>4, <3>3, <3>4, <3>5, <3>7
  <2> QED BY <2>1, <2>2
<1> HIDE DEF w, v
<1>7. Verbatim(disk) = w /\ Verbatim(turns) = v /\ Verbatim(turns') = w
  BY <1>1 DEF w, v
<1>8. \E n \in 0 .. Len(v), i \in 0 .. Len(w) :
        /\ SubSeq(w, i + 1, Len(w)) = SubSeq(v, 1, n)
        /\ \A l \in n + 1 .. Len(v) : v[l] \notin durable
  BY <1>4, <1>6
<1> QED BY <1>1, <1>3, <1>7, <1>8, Zenon DEF Conv!Resume

\* A turn added is said, a turn written is saved, a compaction condenses unless a summary
\* was all it had to replace besides one turn, its record may be too long, and the process
\* resumes what was saved if it can read it.
LEMMA ConversationStep ==
  ASSUME SerialHandling, WritesSucceed, SafeInv, ~tooLong => FileInv, KeptInv, [Next]_vars
  PROVE  KeptInv' /\ [Conv!Next]_(Conv!vars)
<1> USE DEF Conv!Next, Conv!vars
<1>1. ASSUME NEW h \in Handlers, AddTurn(h) PROVE KeptInv' /\ Conv!Say
  <2>1. /\ KeptInv' /\ said + 1 \in TurnId
        /\ \A u \in known \union durable : u < said + 1
    BY <1>1, KeptAddTurn
  <2>2. /\ turns' = Append(turns, Turn(said + 1)) /\ known' = known \union {said + 1}
        /\ UNCHANGED <<durable, tooLong, run>> /\ turns \in Seq(Entry)
    BY <1>1 DEF AddTurn, SafeInv, TypeOK, file
  <2>3. Verbatim(turns') = Append(Verbatim(turns), said + 1)
    BY <2>1, <2>2, VerbatimAppend
  <2>4. said + 1 \in known'
    BY <2>2
  <2>5. durable' = durable /\ (~tooLong)' = ~tooLong /\ run' = run
    BY <2>2
  <2>6. UNCHANGED <<durable, ~tooLong, run>>
    BY <2>5
  <2>7. Conv!Say
    <3>1. known' = known \union {said + 1}
      BY <2>2
    <3> QED BY <2>1, <2>3, <2>4, <2>6, <3>1 DEF Conv!Say
  <2> QED BY <2>1, <2>7
<1>2. ASSUME NEW h \in Handlers, PersistTurn(h) PROVE KeptInv' /\ Conv!Save
  <2>1. KeptInv' /\ turn[h] \in known /\ durable' = durable \union {turn[h]}
    BY <1>2, KeptPersist
  <2>2. UNCHANGED <<turns, known, run>>
    BY <1>2 DEF PersistTurn
  <2>3. ~tooLong' => ~tooLong
    BY <1>2, TooLongStays
  <2> QED BY <2>1, <2>2, <2>3 DEF Conv!Save
<1>3. ASSUME NEW j \in Jobs, ReplaceTurns(j)
      PROVE  KeptInv' /\ (Conv!Condense \/ UNCHANGED Conv!vars)
  <2> DEFINE k == job[j].n - Keep
             d == IF IsSummary(turns[1]) THEN 1 ELSE 0
  <2>1. KeptInv'
    BY <1>3, KeptReplace
  <2>2. /\ turns' = <<Summary(Covered(job[j].old))>> \o SubSeq(turns, k + 1, Len(turns))
        /\ UNCHANGED <<known, durable, tooLong, run>>
    BY <1>3 DEF ReplaceTurns, file, history
  <2>3. k \in 1 .. Len(turns) - 1
    BY <1>3, BlockLength DEF ReplaceTurns, Holding
  <2>4. turns \in Seq(Entry) /\ Len(turns) \in Nat /\ Covered(job[j].old) \in SUBSET TurnId
    BY JobFields, LenProperties DEF SafeInv, TypeOK
  <2>5. /\ Verbatim(turns) \in Seq(Nat) /\ Len(Verbatim(turns)) = Len(turns) - d
        /\ Verbatim(turns') = SubSeq(Verbatim(turns), k - d + 1, Len(turns) - d)
    <3>1. k \in 1 .. Len(turns)
      BY <2>3, <2>4
    <3> HIDE DEF k
    <3> QED BY <2>2, <3>1, <2>4, VerbatimCompacted
  <2>6. CASE k - d \in 1 .. Len(Verbatim(turns)) - 1
    <3>1. Verbatim(turns') = SubSeq(Verbatim(turns), (k - d) + 1, Len(Verbatim(turns)))
      BY <2>5
    <3>2. Conv!Condense
      <4> HIDE DEF k, d
      <4> QED BY <2>2, <2>6, <3>1 DEF Conv!Condense
    <3> QED BY <2>1, <3>2
  <2>7. CASE k - d = 0
    <3>1. Verbatim(turns') = SubSeq(Verbatim(turns), 1, Len(Verbatim(turns)))
      <4> HIDE DEF k, d
      <4>1. k - d + 1 = 1
        BY <2>7
      <4> QED BY <2>5, <4>1
    <3>2. Verbatim(turns') = Verbatim(turns)
      BY <2>5, <3>1, SubSeqFull
    <3> QED BY <2>1, <2>2, <3>2
  <2>8. k - d \in 1 .. Len(Verbatim(turns)) - 1 \/ k - d = 0
    <3>1. d \in {0, 1}
      OBVIOUS
    <3> HIDE DEF k, d
    <3> QED BY <2>3, <2>4, <2>5, <3>1
  <2> QED BY <2>6, <2>7, <2>8
<1>4. ASSUME NEW j \in Jobs, AppendRecord(j)
      PROVE  KeptInv' /\ (Conv!Spoil \/ UNCHANGED Conv!vars)
  <2>1. UNCHANGED <<turns, known, durable, run>>
    BY <1>4 DEF AppendRecord, history
  <2>2. tooLong' = tooLong \/ tooLong' = TRUE
    BY <1>4 DEF AppendRecord, WriteLine, file, SafeInv, TypeOK
  <2>3. KeptInv'
    BY <1>4, KeptRecord
  <2>4. Conv!Spoil \/ UNCHANGED Conv!vars
    BY <2>1, <2>2 DEF Conv!Spoil
  <2> QED BY <2>3, <2>4
<1>5. ASSUME NEW reason, Boot(reason) PROVE KeptInv' /\ (Conv!Resume \/ Conv!StartFresh)
  <2>1. KeptInv'
    BY <1>5, KeptBoot
  <2>2. CASE ~tooLong
    BY <1>5, <2>1, <2>2, ResumeStep
  <2>3. CASE tooLong
    <3>1. turns' = <<>> /\ known' = {} /\ run' = 1 - run /\ UNCHANGED <<durable, tooLong>>
      BY <1>5, <2>3, CoveredEmpty DEF Boot, Loaded, file
    <3>2. Verbatim(turns') = <<>>
      BY <3>1 DEF Verbatim
    <3> QED BY <2>1, <2>3, <3>1, <3>2 DEF Conv!StartFresh
  <2> QED BY <2>2, <2>3
<1>6. CASE \/ \E h \in Handlers : AddTurn(h) \/ PersistTurn(h)
           \/ \E j \in Jobs : ReplaceTurns(j) \/ AppendRecord(j) \/ PanicOnNilBrain(j)
           \/ Restart
  <2>1. CASE \E h \in Handlers : AddTurn(h) \/ PersistTurn(h)
    BY <1>1, <1>2, <2>1
  <2>2. CASE \E j \in Jobs : ReplaceTurns(j) \/ AppendRecord(j)
    BY <1>3, <1>4, <2>2
  <2>3. CASE \/ \E j \in Jobs : PanicOnNilBrain(j)
             \/ Restart
    BY <1>5, <2>3 DEF PanicOnNilBrain, Restart
  <2> QED BY <1>6, <2>1, <2>2, <2>3
<1>7. CASE ~(\/ \E h \in Handlers : AddTurn(h) \/ PersistTurn(h)
             \/ \E j \in Jobs : ReplaceTurns(j) \/ AppendRecord(j) \/ PanicOnNilBrain(j)
             \/ Restart)
  <2>1. KeptInv' /\ UNCHANGED <<turns, file, known, durable, run>>
    BY <1>7, KeptElsewhere
  <2> QED BY <2>1 DEF file
<1> QED BY <1>6, <1>7

\* Messages handled one at a time, with writes that succeed, make a conversation: turns are
\* only ever added at the end and condensed from the oldest on, and a restart brings back
\* what was saved, whatever compactions and crashes come between, or nothing after a line
\* that was too long.
THEOREM ImplementsConversation ==
  ASSUME SerialHandling, WritesSucceed
  PROVE  Spec => ConversationKept
<1>1. Init => Conv!Init
  <2>1. Init => turns = <<>> /\ known = {} /\ durable = {} /\ tooLong = FALSE /\ run = 0
    BY DEF Init
  <2>2. Verbatim(<<>>) = <<>>
    BY DEF Verbatim
  <2> QED BY <2>1, <2>2 DEF Conv!Init
<1>2. SafeInv /\ (~tooLong => FileInv) /\ KeptInv /\ [Next]_vars
        => KeptInv' /\ [Conv!Next]_(Conv!vars)
  BY ConversationStep
<1> QED BY <1>1, <1>2, KeptInit, SafeInvariant, FileInvariant, PTL
        DEF Spec, ConversationKept, Conv!Spec
=============================================================================
