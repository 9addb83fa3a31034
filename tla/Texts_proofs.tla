---------------------------- MODULE Texts_proofs ----------------------------
(***************************************************************************)
(* Theorems about Prompt, AnswerText, MessageSplit and SkillResolver, for  *)
(* sessions and texts of any length, any number of handlers and messages   *)
(* and any directory of skills: what the model is told of a session is     *)
(* its window in order, deltas tell all, cutting loses nothing, and the    *)
(* skill with the longest trigger is taken.                                *)
(***************************************************************************)
EXTENDS Prompt, AnswerText, MessageSplit, SkillResolver, SequenceTheorems, WellFoundedInduction, TLAPS

-----------------------------------------------------------------------------
(* Numbers *)

\* The order of the numbers, as a relation.
R == {p \in Nat \X Nat : p[1] < p[2]}

\* A set of numbers has a least one, and a bounded one has a greatest.
LEMMA NatMin ==
  ASSUME NEW S, S \subseteq Nat, S # {}
  PROVE  Min(S) \in S /\ \A m \in S : Min(S) <= m
<1>1. IsWellFoundedOn(R, Nat)
  BY NatLessThanWellFounded DEF OpToRel, R
<1>2. PICK n \in S : \A m \in S : <<m, n>> \notin R
  BY <1>1, WFMin
<1>3. \A m \in S : n <= m
  <2> SUFFICES ASSUME NEW m \in S PROVE n <= m
    OBVIOUS
  <2>1. m \in Nat /\ n \in Nat /\ ~(m < n)
    BY <1>2 DEF R
  <2> QED BY <2>1
<1> QED BY <1>3 DEF Min

LEMMA NatMax ==
  ASSUME NEW b \in Nat, NEW S, S \subseteq 0 .. b, S # {}
  PROVE  Max(S) \in S /\ \A m \in S : m <= Max(S)
<1> DEFINE T == {b - m : m \in S}
<1>1. T \subseteq Nat /\ T # {}
  OBVIOUS
<1> HIDE DEF T
<1>2. PICK t \in T : \A u \in T : t <= u
  BY <1>1, NatMin
<1>3. PICK n \in S : t = b - n
  BY <1>2 DEF T
<1>4. \A m \in S : b - m \in T
  BY DEF T
<1>5. \A m \in S : m <= n
  <2> SUFFICES ASSUME NEW m \in S PROVE m <= n
    OBVIOUS
  <2>1. b - n <= b - m /\ m \in Nat /\ n \in Nat
    BY <1>2, <1>3, <1>4
  <2> QED BY <2>1
<1>6. \A m \in S : n >= m
  BY <1>5
<1> QED BY <1>6 DEF Max

-----------------------------------------------------------------------------
(* parseStreamLine *)

\* The texts as they stand in the answer; the one last told ends it.
Placed(at) ==
  /\ Stands(at)
  /\ lastMsgID # 0 => at[lastMsgID] + Len(texts[lastMsgID]) = Len(answer)
  /\ plain => InARow(at)

DeltasInv ==
  /\ texts \in [MessageIDs -> Seq(Nat)] /\ answer \in Seq(Nat)
  /\ lastMsgID \in MessageIDs \union {0} /\ lastTextLen \in Nat /\ letters \in Nat
  /\ plain \in BOOLEAN
  /\ lastMsgID # 0 => lastTextLen = Len(texts[lastMsgID])
  /\ plain => \A id \in MessageIDs : id > lastMsgID => texts[id] = <<>>
  /\ \E at \in [MessageIDs -> Nat] : Placed(at)

\* A text that goes on, what is left of one, and how one begins.
LEMMA Concat ==
  ASSUME NEW s \in Seq(Nat), NEW t \in Seq(Nat)
  PROVE  /\ s \o t \in Seq(Nat) /\ Len(s \o t) = Len(s) + Len(t)
         /\ \A i \in 1 .. Len(s) : (s \o t)[i] = s[i]
         /\ \A i \in 1 .. Len(t) : (s \o t)[Len(s) + i] = t[i]
OBVIOUS

LEMMA Rest ==
  ASSUME NEW s \in Seq(Nat), NEW k \in 0 .. Len(s)
  PROVE  LET r == SubSeq(s, k + 1, Len(s)) IN
         /\ r \in Seq(Nat) /\ Len(r) = Len(s) - k
         /\ \A i \in 1 .. Len(s) - k : r[i] = s[k + i]
BY SubSeqProperties, Z3

LEMMA Front ==
  ASSUME NEW s \in Seq(Nat), NEW k \in Nat, k <= Len(s)
  PROVE  SubSeq(s, 1, k) \in Seq(Nat) /\ Len(SubSeq(s, 1, k)) = k
<1>1. \A i \in 1 .. k : s[i] \in Nat
  OBVIOUS
<1> QED BY <1>1, SubSeqProperties, Z3

\* A line with a text that begins with what has been passed on of it.
LEMMA LineTold ==
  ASSUME DeltasInv, NEW id \in MessageIDs, NEW full \in Seq(Nat), ParseStreamLine(id, full),
         texts' = [texts EXCEPT ![id] = full], letters' \in Nat, plain' \in BOOLEAN,
         plain' => plain /\ id >= lastMsgID /\ (id = lastMsgID => lastTextLen <= Len(full)),
         (id = lastMsgID /\ lastTextLen <= Len(full)) =>
           \A k \in DOMAIN texts[id] : full[k] = texts[id][k]
  PROVE  DeltasInv'
<1>1. PICK at \in [MessageIDs -> Nat] : Placed(at)
  BY DEF DeltasInv
<1>2. /\ MessageIDs \subseteq Nat \ {0} /\ id \in Nat /\ id # 0 /\ Len(full) \in Nat
      /\ answer \in Seq(Nat) /\ Len(answer) \in Nat /\ DOMAIN answer = 1 .. Len(answer)
      /\ lastTextLen \in Nat /\ lastMsgID \in Nat /\ DOMAIN full = 1 .. Len(full)
  BY TextAssumption DEF DeltasInv
<1>22. PICK la \in Nat, lf \in Nat : la = Len(answer) /\ lf = Len(full)
  BY <1>2
\* The lengths of the texts, before and after.
<1>3. PICK len \in [MessageIDs -> Nat] :
        \A j \in MessageIDs : len[j] = Len(texts[j]) /\ DOMAIN texts[j] = 1 .. len[j]
  <2>1. \A j \in MessageIDs : texts[j] \in Seq(Nat)
    BY DEF DeltasInv
  <2>2. \A j \in MessageIDs : Len(texts[j]) \in Nat /\ DOMAIN texts[j] = 1 .. Len(texts[j])
    BY <2>1
  <2>3. [j \in MessageIDs |-> Len(texts[j])] \in [MessageIDs -> Nat]
    BY <2>2
  <2> QED BY <2>2, <2>3
<1>4. /\ texts' \in [MessageIDs -> Seq(Nat)] /\ texts'[id] = full
      /\ \A j \in MessageIDs \ {id} : texts'[j] = texts[j]
  BY DEF DeltasInv
<1>5. PICK len2 \in [MessageIDs -> Nat] :
        /\ \A j \in MessageIDs : len2[j] = Len(texts'[j]) /\ DOMAIN texts'[j] = 1 .. len2[j]
        /\ len2[id] = lf /\ \A j \in MessageIDs \ {id} : len2[j] = len[j]
  <2>1. [len EXCEPT ![id] = Len(full)] \in [MessageIDs -> Nat]
    BY <1>2
  <2>2. DOMAIN full = 1 .. lf
    BY <1>2, <1>22
  <2> QED BY <1>22, <1>3, <1>4, <2>1, <2>2
\* What Placed says, in these lengths.
<1>6. /\ \A j \in MessageIDs : at[j] + len[j] <= la
      /\ \A j \in MessageIDs : \A k \in 1 .. len[j] : answer[at[j] + k] = texts[j][k]
      /\ id = lastMsgID => at[id] + len[id] = la /\ lastTextLen = len[id]
  BY <1>1, <1>2, <1>22, <1>3 DEF Placed, Stands, DeltasInv
<1>7. plain' =>
        /\ \A i, j \in MessageIDs : i < j => at[i] + len[i] <= at[j]
        /\ \A p \in 1 .. la : \E i \in MessageIDs : p \in at[i] + 1 .. at[i] + len[i]
        /\ id >= lastMsgID
        /\ \A j \in MessageIDs : j > lastMsgID => len[j] = 0
  <2> SUFFICES ASSUME plain'
               PROVE  /\ \A i, j \in MessageIDs : i < j => at[i] + len[i] <= at[j]
                      /\ \A p \in 1 .. la : \E i \in MessageIDs : p \in at[i] + 1 .. at[i] + len[i]
                      /\ id >= lastMsgID
                      /\ \A j \in MessageIDs : j > lastMsgID => len[j] = 0
    OBVIOUS
  <2>1. plain /\ id >= lastMsgID
    OBVIOUS
  <2>2. InARow(at) /\ \A j \in MessageIDs : j > lastMsgID => texts[j] = <<>>
    BY <1>1, <2>1 DEF Placed, DeltasInv
  <2>3. \A j \in MessageIDs : texts[j] = <<>> => len[j] = 0
    BY <1>3
  <2> QED BY <1>2, <1>22, <1>3, <2>1, <2>2, <2>3 DEF InARow
<1>8. PICK told \in Nat :
        /\ told = Told(id, Len(full)) /\ told <= lf
        /\ \/ told = 0
           \/ /\ id = lastMsgID /\ told = len[id] /\ at[id] + told = la
              /\ \A k \in 1 .. told : full[k] = texts[id][k]
        /\ plain' /\ id = lastMsgID => told = len[id]
  <2>1. CASE id # lastMsgID
    <3>1. Told(id, Len(full)) = 0 /\ 0 \in Nat /\ 0 <= lf
      BY <2>1 DEF Told
    <3> QED BY <2>1, <3>1
  <2>2. CASE lastTextLen > lf
    <3>1. Told(id, Len(full)) = 0 /\ 0 \in Nat /\ 0 <= lf
      BY <1>22, <2>2 DEF Told
    <3>2. ~(plain' /\ id = lastMsgID)
      BY <1>2, <1>22, <2>2
    <3> QED BY <3>1, <3>2
  <2>3. CASE id = lastMsgID /\ ~(lastTextLen > lf)
    <3>1. Told(id, Len(full)) = lastTextLen /\ lastTextLen = len[id]
      BY <1>6, <1>22, <2>3 DEF Told
    <3>2. lastTextLen <= lf
      BY <1>2, <2>3
    <3>3. \A k \in 1 .. len[id] : full[k] = texts[id][k]
      BY <1>22, <1>3, <2>3, <3>2
    <3> QED BY <1>6, <2>3, <3>1, <3>2, <3>3
  <2> QED BY <2>1, <2>2, <2>3
<1>9. PICK place \in Nat : place + told = la
  <2>1. told <= la
    BY <1>2, <1>8
  <2>2. la - told \in Nat /\ (la - told) + told = la
    BY <2>1
  <2> QED BY <2>2
<1>10. PICK la2 \in Nat :
         /\ answer' \in Seq(Nat) /\ la2 = Len(answer') /\ DOMAIN answer' = 1 .. la2
         /\ la2 = place + lf /\ la <= la2
         /\ \A p \in 1 .. la : answer'[p] = answer[p]
         /\ \A k \in 1 .. lf - told : answer'[la + k] = full[told + k]
  <2>0. told \in 0 .. Len(full)
    BY <1>8, <1>22
  <2>1. PICK delta \in Seq(Nat) :
          /\ delta = SubSeq(full, told + 1, Len(full)) /\ Len(delta) = lf - told
          /\ \A k \in 1 .. lf - told : delta[k] = full[told + k]
    BY <1>22, <2>0, Rest
  <2>2. answer' = answer \o delta
    BY <1>8, <2>1 DEF ParseStreamLine
  <2>3. /\ answer' \in Seq(Nat) /\ Len(answer') = Len(answer) + Len(delta)
        /\ \A i \in 1 .. Len(answer) : answer'[i] = answer[i]
        /\ \A i \in 1 .. Len(delta) : answer'[Len(answer) + i] = delta[i]
    BY <1>2, <2>2, Concat
  <2>4. PICK la2 \in Nat : la2 = Len(answer') /\ DOMAIN answer' = 1 .. la2
    BY <2>3
  <2>5. la2 = la + (lf - told)
    BY <1>22, <2>1, <2>3, <2>4
  <2>6. la2 = place + lf /\ la <= la2
    BY <1>8, <1>9, <2>5, SMTT(30)
  <2>7. /\ \A p \in 1 .. la : answer'[p] = answer[p]
        /\ \A k \in 1 .. lf - told : answer'[la + k] = full[told + k]
    BY <1>22, <2>1, <2>3
  <2> QED BY <2>3, <2>4, <2>6, <2>7
<1>11. lastMsgID' = id /\ lastTextLen' = lf
  BY <1>22 DEF ParseStreamLine
\* The whole of this message's text now ends the answer.
<1>12. \A k \in 1 .. lf : answer'[place + k] = full[k]
  <2> SUFFICES ASSUME NEW k \in 1 .. lf PROVE answer'[place + k] = full[k]
    OBVIOUS
  <2>1. CASE k > told
    <3>1. k - told \in 1 .. lf - told /\ la + (k - told) = place + k
          /\ told + (k - told) = k
      BY <1>9, <2>1
    <3> QED BY <1>10, <3>1
  <2>2. CASE k <= told
    <3>1. k \in 1 .. told /\ told # 0
      BY <1>2, <1>8, <2>2
    <3>2. /\ told = len[id] /\ at[id] + told = la
          /\ full[k] = texts[id][k]
      BY <1>8, <3>1
    <3>3. place = at[id] /\ at[id] + k \in 1 .. la
      <4>1. at[id] \in Nat
        OBVIOUS
      <4> QED BY <1>9, <3>1, <3>2, <4>1, SMTT(30)
    <3>4. answer[at[id] + k] = texts[id][k]
      BY <1>6, <3>1, <3>2
    <3> QED BY <1>10, <3>2, <3>3, <3>4
  <2> QED BY <1>2, <1>8, <2>1, <2>2
\* Places of messages that have no text yet move with the answer's end.
<1>13. PICK at2 \in [MessageIDs -> Nat] :
         /\ at2[id] = place
         /\ \A j \in MessageIDs \ {id} : at2[j] = IF plain' /\ j > id THEN la2 ELSE at[j]
  <2> DEFINE f == [j \in MessageIDs |-> IF j = id THEN place
                                        ELSE IF plain' /\ j > id THEN la2 ELSE at[j]]
  <2>1. f \in [MessageIDs -> Nat]
    BY <1>10
  <2> QED BY <2>1
<1>14. plain' => \A j \in MessageIDs : j > id => len[j] = 0 /\ len2[j] = 0
  BY <1>2, <1>5, <1>7
<1>15. \A j \in MessageIDs : /\ at2[j] + len2[j] <= la2
                             /\ \A k \in 1 .. len2[j] : answer'[at2[j] + k] = texts'[j][k]
  <2> SUFFICES ASSUME NEW j \in MessageIDs
               PROVE  /\ at2[j] + len2[j] <= la2
                      /\ \A k \in 1 .. len2[j] : answer'[at2[j] + k] = texts'[j][k]
    OBVIOUS
  <2>1. CASE j = id
    BY <1>4, <1>5, <1>10, <1>12, <1>13, <2>1
  <2>2. CASE j # id /\ plain' /\ j > id
    <3>1. len2[j] = 0 /\ at2[j] = la2
      BY <1>13, <1>14, <2>2
    <3> QED BY <1>10, <3>1
  <2>3. CASE j # id /\ ~(plain' /\ j > id)
    <3>1. at2[j] = at[j] /\ len2[j] = len[j] /\ texts'[j] = texts[j]
      BY <1>4, <1>5, <1>13, <2>3
    <3>2. at[j] + len[j] <= la /\ \A k \in 1 .. len[j] : answer[at[j] + k] = texts[j][k]
      BY <1>6
    <3>0. at[j] \in Nat /\ len[j] \in Nat
      OBVIOUS
    <3>3. \A k \in 1 .. len[j] : at[j] + k \in 1 .. la
      BY <3>0, <3>2
    <3>4. at[j] + len[j] <= la2
      BY <1>2, <1>10, <3>0, <3>2, SMTT(30)
    <3> QED BY <1>10, <3>1, <3>2, <3>3, <3>4
  <2> QED BY <2>1, <2>2, <2>3
<1>16. ASSUME plain' PROVE InARow(at2)'
  <2>1. /\ \A i, j \in MessageIDs : i < j => at[i] + len[i] <= at[j]
        /\ \A p \in 1 .. la : \E i \in MessageIDs : p \in at[i] + 1 .. at[i] + len[i]
        /\ id >= lastMsgID
        /\ \A j \in MessageIDs : j > lastMsgID => len[j] = 0
    BY <1>7, <1>16
  \* The answer ended with this message's text, or with one before it.
  <2>2. ASSUME NEW j \in MessageIDs, j < id PROVE at[j] + len[j] <= place
    <3>1. CASE told = 0
      BY <1>2, <1>6, <1>9, <3>1
    <3>2. CASE at[id] + told = la
      <4>1. place = at[id]
        <5>1. at[id] \in Nat
          OBVIOUS
        <5> QED BY <1>9, <3>2, <5>1
      <4> QED BY <2>1, <2>2, <4>1
    <3> QED BY <1>8, <3>1, <3>2
  <2>3. ASSUME NEW i \in MessageIDs, NEW j \in MessageIDs, i < j
        PROVE  at2[i] + len2[i] <= at2[j]
    <3>0. i \in Nat /\ j \in Nat
      BY <1>2
    <3>1. CASE j = id
      <4>1. i # id /\ ~(i > id) /\ i < id
        BY <1>2, <2>3, <3>0, <3>1
      <4> QED BY <1>5, <1>13, <2>2, <3>1, <4>1
    <3>2. CASE j > id
      <4>1. j # id /\ at2[j] = la2
        BY <1>2, <1>13, <1>16, <3>0, <3>2
      <4> QED BY <1>15, <4>1
    <3>3. CASE j < id
      <4>1. i # id /\ j # id /\ ~(i > id) /\ ~(j > id)
        BY <1>2, <2>3, <3>0, <3>3
      <4>2. at2[i] = at[i] /\ at2[j] = at[j] /\ len2[i] = len[i]
        BY <1>5, <1>13, <4>1
      <4> QED BY <2>1, <2>3, <4>2
    <3> QED BY <1>2, <3>0, <3>1, <3>2, <3>3
  <2>4. ASSUME NEW p \in 1 .. la2
        PROVE  \E i \in MessageIDs : p \in at2[i] + 1 .. at2[i] + len2[i]
    <3>1. CASE p > place
      <4>1. p \in at2[id] + 1 .. at2[id] + len2[id]
        BY <1>2, <1>5, <1>10, <1>13, <3>1
      <4> QED BY <4>1
    <3>2. CASE p <= place
      <4>1. p \in 1 .. la
        BY <1>2, <1>8, <1>9, <1>10, <3>2
      <4>2. PICK i \in MessageIDs : p \in at[i] + 1 .. at[i] + len[i]
        BY <2>1, <4>1
      <4>3. i \in Nat /\ len[i] \in Nat /\ at[i] \in Nat /\ len[i] # 0
        BY <1>2, <4>2
      <4>4. ~(i > id)
        BY <1>14, <1>16, <4>3
      <4>5. i # id
        <5> SUFFICES ASSUME i = id PROVE FALSE
          OBVIOUS
        <5>1. id = lastMsgID
          <6>1. ~(id > lastMsgID)
            BY <2>1, <4>3
          <6> QED BY <1>2, <2>1, <6>1
        <5>2. at[id] + len[id] = la /\ lastTextLen = len[id]
          BY <1>6, <5>1
        <5>3. told = len[id]
          BY <1>8, <1>16, <5>1
        <5>4. place = at[id]
          BY <1>9, <5>2, <5>3
        <5> QED BY <3>2, <4>2, <5>4
      <4>6. at2[i] = at[i] /\ len2[i] = len[i]
        BY <1>5, <1>13, <4>4, <4>5
      <4> QED BY <4>2, <4>6
    <3> QED BY <1>10, <3>1, <3>2
  <2>5. /\ \A i, j \in MessageIDs : i < j => at2[i] + Len(texts'[i]) <= at2[j]
        /\ \A p \in DOMAIN answer' : \E i \in MessageIDs : p \in at2[i] + 1 .. at2[i] + Len(texts'[i])
    BY <1>5, <1>10, <2>3, <2>4
  <2> QED BY <2>5 DEF InARow
<1>17. Stands(at2)'
  BY <1>5, <1>10, <1>15, ZenonT(60) DEF Stands
<1>18. lastTextLen' = Len(texts'[lastMsgID']) /\ at2[lastMsgID'] + Len(texts'[lastMsgID']) = la2
  BY <1>4, <1>10, <1>11, <1>13, <1>22
<1>19. Placed(at2)'
  BY <1>10, <1>16, <1>17, <1>18 DEF Placed
<1>20. plain' => \A j \in MessageIDs : j > lastMsgID' => texts'[j] = <<>>
  <2> SUFFICES ASSUME plain', NEW j \in MessageIDs, j > id PROVE texts'[j] = <<>>
    BY <1>11
  <2>1. len2[j] = 0 /\ texts'[j] \in Seq(Nat) /\ Len(texts'[j]) = len2[j]
    BY <1>4, <1>5, <1>14
  <2> QED BY <2>1, EmptySeq
<1>21. lastMsgID' \in MessageIDs \union {0} /\ lastTextLen' \in Nat
  BY <1>2, <1>11, <1>22
<1> QED BY <1>4, <1>10, <1>18, <1>19, <1>20, <1>21 DEF DeltasInv

LEMMA InitDeltas == TextInit => DeltasInv
<1> SUFFICES ASSUME TextInit PROVE DeltasInv
  OBVIOUS
<1>1. MessageIDs \subseteq Nat \ {0}
  BY TextAssumption
<1>2. /\ texts \in [MessageIDs -> Seq(Nat)] /\ answer \in Seq(Nat) /\ Len(answer) = 0
      /\ lastMsgID = 0 /\ lastTextLen = 0 /\ letters = 0 /\ plain = TRUE
      /\ \A id \in MessageIDs : texts[id] = <<>>
  BY DEF TextInit
<1>3. \A id \in MessageIDs : Len(texts[id]) = 0 /\ DOMAIN texts[id] = {}
  <2>1. Len(<<>>) = 0 /\ DOMAIN <<>> = {}
    OBVIOUS
  <2> QED BY <1>2, <2>1
<1>4. PICK at \in [MessageIDs -> Nat] : \A id \in MessageIDs : at[id] = 0
  <2>1. [id \in MessageIDs |-> 0] \in [MessageIDs -> Nat]
    OBVIOUS
  <2> QED BY <2>1
<1>5. DOMAIN answer = {}
  BY <1>2 DEF TextInit
<1>6. Placed(at)
  BY <1>2, <1>3, <1>4, <1>5 DEF Placed, Stands, InARow
<1> QED BY <1>2, <1>6 DEF DeltasInv

LEMMA GrowStep ==
  ASSUME DeltasInv, NEW id \in MessageIDs, Grow(id)
  PROVE  DeltasInv'
<1> DEFINE chars(n) == [i \in 1 .. n |-> letters + i]
           full(n) == texts[id] \o chars(n)
<1>1. PICK n \in 0 .. MaxChunk :
        /\ ParseStreamLine(id, full(n)) /\ texts' = [texts EXCEPT ![id] = full(n)]
        /\ letters' = letters + n
  BY DEF Grow
<1>2. n \in Nat /\ letters \in Nat /\ texts[id] \in Seq(Nat) /\ plain \in BOOLEAN
  BY TextAssumption DEF DeltasInv
<1>3. chars(n) \in Seq(Nat)
  <2>1. chars(n) \in [1 .. n -> Nat]
    BY <1>2
  <2> QED BY <1>2, <2>1, SeqDef
<1> HIDE DEF chars
<1>4. PICK line \in Seq(Nat) :
        /\ line = full(n) /\ Len(texts[id]) <= Len(line)
        /\ \A k \in DOMAIN texts[id] : line[k] = texts[id][k]
  <2>1. /\ full(n) \in Seq(Nat) /\ Len(full(n)) = Len(texts[id]) + Len(chars(n))
        /\ \A i \in 1 .. Len(texts[id]) : full(n)[i] = texts[id][i]
    BY <1>2, <1>3, Concat
  <2>2. Len(chars(n)) \in Nat /\ Len(texts[id]) \in Nat /\ DOMAIN texts[id] = 1 .. Len(texts[id])
    BY <1>2, <1>3
  <2> HIDE DEF full
  <2> QED BY <2>1, <2>2
<1>5. ParseStreamLine(id, line) /\ texts' = [texts EXCEPT ![id] = line]
  BY <1>1, <1>4
<1>6. letters' \in Nat /\ plain' \in BOOLEAN /\ (plain' => plain /\ id >= lastMsgID)
  <2>1. plain' = (plain /\ id >= lastMsgID)
    BY DEF Grow
  <2>2. letters' = letters + n
    BY <1>1
  <2>3. letters' \in Nat
    BY <1>2, <2>2
  <2>4. plain' \in BOOLEAN /\ (plain' => plain /\ id >= lastMsgID)
    BY <2>1, Zenon
  <2> QED BY <2>3, <2>4
<1>7. id = lastMsgID => lastTextLen <= Len(line)
  <2>1. id # 0
    BY TextAssumption
  <2> QED BY <1>4, <2>1 DEF DeltasInv
<1> HIDE DEF full
<1> QED BY <1>4, <1>5, <1>6, <1>7, LineTold

LEMMA CutBackStep ==
  ASSUME DeltasInv, NEW id \in MessageIDs, CutBack(id)
  PROVE  DeltasInv'
<1>1. PICK k \in 0 .. Len(texts[id]) - 1 :
        /\ ParseStreamLine(id, SubSeq(texts[id], 1, k))
        /\ texts' = [texts EXCEPT ![id] = SubSeq(texts[id], 1, k)]
  BY DEF CutBack
<1>2. /\ texts[id] \in Seq(Nat) /\ letters' \in Nat /\ plain' = FALSE
      /\ id = lastMsgID /\ id # 0 /\ lastTextLen = Len(texts[id]) /\ Len(texts[id]) \in Nat
  BY TextAssumption DEF DeltasInv, CutBack
<1>3. PICK line \in Seq(Nat) : line = SubSeq(texts[id], 1, k) /\ Len(line) = k
  <2>1. k \in Nat /\ k < Len(texts[id])
    BY <1>2
  <2>2. /\ SubSeq(texts[id], 1, k) \in Seq(Nat)
        /\ Len(SubSeq(texts[id], 1, k)) = k
    BY <1>2, <2>1, Front
  <2> QED BY <2>2
<1>4. ~(lastTextLen <= Len(line))
  BY <1>2, <1>3
<1>5. ParseStreamLine(id, line) /\ texts' = [texts EXCEPT ![id] = line]
  BY <1>1, <1>3
<1> QED BY <1>2, <1>4, <1>5, LineTold

\* The text of every message of the CLI is in the answer in one piece, and unless lines of two
\* messages alternated or a text was cut back, nothing is said twice (parseStreamLine).
THEOREM AllTold == TextSpec => []DeltasTellAll
<1>1. ASSUME DeltasInv, UNCHANGED textVars PROVE DeltasInv'
  <2>1. /\ texts' = texts /\ lastMsgID' = lastMsgID /\ lastTextLen' = lastTextLen
        /\ answer' = answer /\ letters' = letters /\ plain' = plain
    BY <1>1 DEF textVars
  <2>2. \A at : Placed(at)' <=> Placed(at)
    BY <2>1 DEF Placed, Stands, InARow
  <2> QED BY <1>1, <2>1, <2>2 DEF DeltasInv
<1>2. DeltasInv /\ [TextNext]_textVars => DeltasInv'
  BY <1>1, GrowStep, CutBackStep DEF TextNext
<1>3. DeltasInv => DeltasTellAll
  <2> SUFFICES ASSUME DeltasInv PROVE DeltasTellAll
    OBVIOUS
  <2>1. PICK at \in [MessageIDs -> Nat] : Placed(at)
    BY DEF DeltasInv
  <2>2. \A id \in MessageIDs : Len(texts[id]) \in Nat
    <3> TAKE id \in MessageIDs
    <3>1. texts[id] \in Seq(Nat)
      BY DEF DeltasInv
    <3> QED BY <3>1
  <2>3. Len(answer) \in Nat
    BY DEF DeltasInv
  <2>4. \A id \in MessageIDs : at[id] \in 0 .. Len(answer)
    <3> TAKE id \in MessageIDs
    <3>1. at[id] + Len(texts[id]) <= Len(answer)
      BY <2>1 DEF Placed, Stands
    <3>2. at[id] \in Nat /\ Len(texts[id]) \in Nat
      BY <2>1, <2>2
    <3> QED BY <2>3, <3>1, <3>2
  <2>5. at \in [MessageIDs -> 0 .. Len(answer)]
    BY <2>4
  <2> QED BY <2>1, <2>5 DEF DeltasTellAll, Placed
<1> QED BY InitDeltas, <1>2, <1>3, PTL DEF TextSpec

-----------------------------------------------------------------------------
(* SplitMessage *)

Text == Seq(Int)

\* A text has its characters at the places from 1 on.
LEMMA TextLength == \A s \in Text : Len(s) \in Nat /\ DOMAIN s = 1 .. Len(s)
BY DEF Text

\* What is left of the text begins after `rest`; the parts before it lack only spaces.
Laid(at, rest) ==
  /\ Pieces(at)
  /\ rest + Len(text) <= Len(whole) /\ \A k \in DOMAIN text : text[k] = whole[rest + k]
  /\ \A i \in DOMAIN parts : at[i] + Len(parts[i]) <= rest
  /\ \A p \in DOMAIN whole : \/ IsSpace(whole[p]) \/ InPieces(p, at)
                             \/ p \in rest + 1 .. rest + Len(text)

SplitTyping == whole \in Text /\ text \in Text /\ parts \in Seq(Text)

\* What SplitKeepsText says of each part.
PartsFit ==
  /\ \A i \in DOMAIN parts : Len(parts[i]) <= MaxLen
  /\ \A i \in DOMAIN parts : parts[i] = <<>> => i = 1 /\ (whole = <<>> \/ IsSpace(Head(whole)))

SplitInv ==
  /\ SplitTyping /\ PartsFit
  /\ split \in {"entered", "cutting", "returned"}
  /\ split = "entered" => parts = <<>> /\ text = whole
  /\ split = "cutting" =>
       /\ parts = <<>> => text = whole /\ Len(text) > MaxLen
       /\ parts # <<>> => text = <<>> \/ ~IsSpace(text[1])
  /\ split # "returned" => \E at \in [DOMAIN parts -> Nat], rest \in Nat : Laid(at, rest)
  /\ split = "returned" =>
       /\ parts # <<>>
       /\ \E at \in [DOMAIN parts -> Nat] :
            Pieces(at) /\ \A p \in DOMAIN whole : IsSpace(whole[p]) \/ InPieces(p, at)

\* A piece of a text.
LEMMA SubText ==
  ASSUME NEW t \in Text, NEW a \in Nat, NEW b \in Nat, a <= b, b <= Len(t)
  PROVE  LET u == SubSeq(t, a + 1, b) IN
         u \in Text /\ Len(u) = b - a /\ DOMAIN u = 1 .. b - a
         /\ \A k \in 1 .. b - a : u[k] = t[a + k]
<1>1. Len(t) \in Nat /\ \A i \in 1 .. Len(t) : t[i] \in Int
  BY DEF Text
<1>2. \A i \in a + 1 .. b : t[i] \in Int
  BY <1>1
<1> DEFINE u == SubSeq(t, a + 1, b)
<1>3. u \in Text /\ Len(u) = IF a + 1 <= b THEN b - (a + 1) + 1 ELSE 0
  BY <1>2, SubSeqProperties DEF Text
<1>4. \A k \in 1 .. Len(u) : u[k] = t[(a + 1) + k - 1]
  BY <1>2, SubSeqProperties
<1>5. Len(u) = b - a /\ DOMAIN u = 1 .. Len(u)
  BY <1>3 DEF Text
<1> HIDE DEF u
<1>6. \A k \in 1 .. b - a : u[k] = t[a + k]
  BY <1>4, <1>5
<1> QED BY <1>3, <1>5, <1>6 DEF u

\* What is left of a text without the spaces around it, and where it begins.
LEMMA Trimmed ==
  ASSUME NEW t \in Text
  PROVE  \E a \in Nat :
           LET u == TrimSpace(t) IN
           /\ u \in Text /\ a + Len(u) <= Len(t)
           /\ \A k \in 1 .. Len(u) : u[k] = t[a + k]
           /\ \A p \in 1 .. Len(t) : IsSpace(t[p]) \/ p \in a + 1 .. a + Len(u)
           /\ u = <<>> => \A p \in 1 .. Len(t) : IsSpace(t[p])
           /\ u # <<>> => ~IsSpace(u[1])
<1> DEFINE inked == {i \in DOMAIN t : ~IsSpace(t[i])}
           u == TrimSpace(t)
<1>1. Len(t) \in Nat /\ DOMAIN t = 1 .. Len(t)
  BY DEF Text
<1>2. \A p \in 1 .. Len(t) : IsSpace(t[p]) \/ p \in inked
  BY <1>1
<1>3. inked \subseteq 0 .. Len(t) /\ inked \subseteq Nat /\ inked \subseteq 1 .. Len(t)
  BY <1>1
<1>4. u = IF inked = {} THEN <<>> ELSE SubSeq(t, Min(inked), Max(inked))
  BY DEF TrimSpace
<1>5. \A i \in inked : ~IsSpace(t[i])
  OBVIOUS
<1> HIDE DEF inked, u
<1>6. CASE inked = {}
  <2>1. u = <<>> /\ u \in Text /\ Len(u) = 0
    BY <1>4, <1>6 DEF Text
  <2>2. 0 \in Nat /\ 0 + Len(u) <= Len(t) /\ \A k \in 1 .. Len(u) : u[k] = t[0 + k]
    BY <1>1, <2>1
  <2>3. \A p \in 1 .. Len(t) : IsSpace(t[p])
    BY <1>2, <1>6
  <2> QED BY <2>1, <2>2, <2>3 DEF u
<1>7. CASE inked # {}
  <2>1. PICK lo \in inked : lo = Min(inked) /\ \A m \in inked : lo <= m
    BY <1>3, <1>7, NatMin
  <2>2. PICK hi \in inked : hi = Max(inked) /\ \A m \in inked : m <= hi
    BY <1>1, <1>3, <1>7, NatMax
  <2>3. lo \in 1 .. Len(t) /\ hi \in 1 .. Len(t) /\ lo <= hi
    BY <1>3, <2>1, <2>2
  <2>4. PICK a \in Nat : a + 1 = lo
    BY <1>1, <2>3
  <2>5. u = SubSeq(t, a + 1, hi) /\ a <= hi /\ hi <= Len(t) /\ hi \in Nat /\ a < hi
    <3>1. u = SubSeq(t, a + 1, hi)
      BY <1>4, <1>7, <2>1, <2>2, <2>4
    <3>2. a <= hi /\ hi <= Len(t) /\ hi \in Nat /\ a < hi
      BY <1>1, <2>3, <2>4
    <3> QED BY <3>1, <3>2
  <2>6. u \in Text /\ Len(u) = hi - a /\ \A k \in 1 .. hi - a : u[k] = t[a + k]
    BY <2>5, SubText
  <2>7. a + Len(u) = hi /\ Len(u) >= 1 /\ 1 \in 1 .. hi - a
    BY <2>5, <2>6
  <2>8. u # <<>> /\ ~IsSpace(u[1])
    BY <1>5, <2>1, <2>4, <2>6, <2>7
  <2>9. \A p \in 1 .. Len(t) : IsSpace(t[p]) \/ p \in a + 1 .. hi
    BY <1>1, <1>2, <2>1, <2>2, <2>4, <2>5
  <2> QED BY <2>5, <2>6, <2>7, <2>8, <2>9 DEF u
<1> QED BY <1>6, <1>7

\* A part takes something, and no more than fits.
LEMMA CutFits ==
  ASSUME NEW t \in Text, Len(t) > MaxLen
  PROVE  Cut(t) \in 1 .. MaxLen
<1> DEFINE head == SubSeq(t, 1, MaxLen)
<1>1. MaxLen \in Nat \ {0} /\ Len(t) \in Nat
  BY SplitAssumption DEF Text
<1>2. head \in Text /\ Len(head) = MaxLen
  <2>1. /\ SubSeq(t, 0 + 1, MaxLen) \in Text
        /\ Len(SubSeq(t, 0 + 1, MaxLen)) = MaxLen - 0
    BY <1>1, SubText
  <2>2. 0 + 1 = 1 /\ MaxLen - 0 = MaxLen
    BY <1>1
  <2> QED BY <2>1, <2>2
<1>3. Cut(t) = IF ParagraphEnds(head) # {} THEN Max(ParagraphEnds(head))
               ELSE IF LineEnds(head) # {} THEN Max(LineEnds(head)) ELSE MaxLen
  BY DEF Cut
<1> HIDE DEF head
<1>4. ParagraphEnds(head) \subseteq 2 .. MaxLen /\ LineEnds(head) \subseteq 2 .. MaxLen
  BY <1>2 DEF ParagraphEnds, LineEnds
<1>5. ASSUME NEW S, S \subseteq 2 .. MaxLen, S # {} PROVE Max(S) \in 1 .. MaxLen
  <2>1. S \subseteq 0 .. MaxLen
    BY <1>1, <1>5
  <2>2. Max(S) \in S
    BY <1>1, <1>5, <2>1, NatMax
  <2>3. \A x \in S : x \in 1 .. MaxLen
    BY <1>1, <1>5
  <2> QED BY <2>2, <2>3
<1>6. MaxLen \in 1 .. MaxLen
  BY <1>1
<1> QED BY <1>3, <1>4, <1>5, <1>6

\* One more part, after the others.
LEMMA OneMore ==
  ASSUME parts \in Seq(Text), NEW part \in Text, NEW at \in [DOMAIN parts -> Nat], NEW start \in Nat,
         Pieces(at), \A i \in DOMAIN parts : at[i] + Len(parts[i]) <= start,
         start + Len(part) <= Len(whole), \A k \in 1 .. Len(part) : part[k] = whole[start + k],
         parts' = Append(parts, part), whole' = whole
  PROVE  \E at2 \in [DOMAIN parts' -> Nat] :
           /\ Pieces(at2)'
           /\ \A p : InPieces(p, at) \/ p \in start + 1 .. start + Len(part) => InPieces(p, at2)'
           /\ \A i \in DOMAIN parts' : at2[i] + Len(parts'[i]) <= start + Len(part)
<1> DEFINE n == Len(parts)
<1>1. /\ n \in Nat /\ DOMAIN parts = 1 .. n /\ DOMAIN parts' = 1 .. n + 1
      /\ parts'[n + 1] = part /\ \A i \in 1 .. n : parts'[i] = parts[i] /\ parts[i] \in Text
  OBVIOUS
<1>2. PICK last : last = n + 1
  OBVIOUS
<1>3. /\ last \in DOMAIN parts' /\ parts'[last] = part /\ DOMAIN parts' = DOMAIN parts \union {last}
      /\ \A i \in DOMAIN parts : i < last /\ i \in DOMAIN parts' /\ ~(last < i) /\ parts'[i] = parts[i]
      /\ ~(last < last)
  BY <1>1, <1>2
<1>4. \A i \in DOMAIN parts : parts[i] \in Text
  BY <1>1
<1> HIDE DEF n
<1>5. PICK at2 \in [DOMAIN parts' -> Nat] : at2[last] = start /\ \A i \in DOMAIN parts : at2[i] = at[i]
  <2> DEFINE f == [i \in DOMAIN parts' |-> IF i = last THEN start ELSE at[i]]
  <2>1. f \in [DOMAIN parts' -> Nat] /\ f[last] = start /\ \A i \in DOMAIN parts : f[i] = at[i]
    BY <1>3
  <2> QED BY <2>1
<1>6. Len(part) \in Nat /\ DOMAIN part = 1 .. Len(part) /\ \A i \in DOMAIN parts : Len(parts[i]) \in Nat
  BY <1>4 DEF Text
<1>7. Pieces(at2)'
  <2>1. ASSUME NEW i \in DOMAIN parts'
        PROVE  /\ at2[i] + Len(parts'[i]) <= Len(whole)
               /\ \A k \in DOMAIN parts'[i] : parts'[i][k] = whole[at2[i] + k]
    <3>1. CASE i = last
      BY <1>3, <1>5, <1>6, <3>1
    <3>2. CASE i \in DOMAIN parts
      BY <1>3, <1>5, <3>2 DEF Pieces
    <3> QED BY <1>3, <3>1, <3>2
  <2>2. ASSUME NEW i \in DOMAIN parts', NEW j \in DOMAIN parts', i < j
        PROVE  at2[i] + Len(parts'[i]) <= at2[j]
    <3>1. i \in DOMAIN parts
      BY <1>3, <2>2
    <3>2. CASE j = last
      BY <1>3, <1>5, <3>1, <3>2
    <3>3. CASE j \in DOMAIN parts
      BY <1>3, <1>5, <2>2, <3>1, <3>3 DEF Pieces
    <3> QED BY <1>3, <3>2, <3>3
  <2> QED BY <2>1, <2>2 DEF Pieces
<1>8. \A p : InPieces(p, at) \/ p \in start + 1 .. start + Len(part) => InPieces(p, at2)'
  BY <1>3, <1>5 DEF InPieces
<1>9. \A i \in DOMAIN parts' : at2[i] + Len(parts'[i]) <= start + Len(part)
  <2> SUFFICES ASSUME NEW i \in DOMAIN parts' PROVE at2[i] + Len(parts'[i]) <= start + Len(part)
    OBVIOUS
  <2>1. CASE i = last
    BY <1>3, <1>5, <1>6, <2>1
  <2>2. CASE i \in DOMAIN parts
    <3>1. at[i] + Len(parts[i]) <= start /\ at2[i] = at[i] /\ parts'[i] = parts[i] /\ at[i] \in Nat
      BY <1>3, <1>5, <2>2
    <3> QED BY <1>6, <2>2, <3>1
  <2> QED BY <1>3, <2>1, <2>2
<1> QED BY <1>7, <1>8, <1>9

LEMMA InitSplit == SplitInit => SplitInv
<1> SUFFICES ASSUME SplitInit PROVE SplitInv
  OBVIOUS
<1>1. PICK n \in 0 .. MaxText : \E shape \in Shapes(n) : SplitStart(Written(shape))
  BY DEF SplitInit
<1>2. n \in Nat
  BY SplitAssumption
<1>3. whole \in [1 .. n -> Int]
  <2>1. \A shape \in Shapes(n) : Written(shape) \in [1 .. n -> Int]
    BY <1>2 DEF Written, Shapes, Space, Newline
  <2> QED BY <1>1, <2>1 DEF SplitStart
<1>4. whole \in Text /\ text = whole /\ parts = <<>> /\ split = "entered"
  BY <1>1, <1>2, <1>3, SeqDef DEF Text, SplitStart
<1>5. SplitTyping /\ PartsFit
  BY <1>4 DEF SplitTyping, PartsFit
<1>6. PICK at : at \in [DOMAIN parts -> Nat]
  <2>1. [i \in DOMAIN parts |-> 0] \in [DOMAIN parts -> Nat]
    OBVIOUS
  <2> QED BY <2>1
<1>7. Laid(at, 0)
  <2>1. Len(whole) \in Nat /\ DOMAIN whole = 1 .. Len(whole) /\ DOMAIN parts = {}
    BY <1>4 DEF Text
  <2>2. 0 + Len(text) <= Len(whole) /\ \A k \in DOMAIN text : text[k] = whole[0 + k]
    BY <1>4, <2>1
  <2>3. \A p \in DOMAIN whole : p \in 0 + 1 .. 0 + Len(text)
    BY <1>4, <2>1
  <2>4. Pieces(at) /\ \A i \in DOMAIN parts : at[i] + Len(parts[i]) <= 0
    BY <2>1 DEF Pieces
  <2> QED BY <2>2, <2>3, <2>4 DEF Laid
<1> QED BY <1>4, <1>5, <1>6, <1>7 DEF SplitInv

LEMMA EnterStep == SplitInv /\ Enter => SplitInv'
<1> SUFFICES ASSUME SplitInv, Enter PROVE SplitInv'
  OBVIOUS
<1>1. /\ parts = <<>> /\ text = whole /\ whole' = whole /\ text' = text
      /\ whole \in Text /\ MaxLen \in Nat /\ Len(whole) \in Nat
      /\ parts \in Seq(Text)
  BY SplitAssumption DEF SplitInv, SplitTyping, Enter, Text
<1>2. PICK at \in [DOMAIN parts -> Nat], rest \in Nat : Laid(at, rest)
  BY DEF SplitInv, Enter
<1>3. CASE Len(text) > MaxLen
  <2>1. parts' = parts /\ split' = "cutting"
    BY <1>1, <1>3 DEF Enter
  <2>2. SplitTyping' /\ PartsFit' /\ Laid(at, rest)'
    BY <1>1, <1>2, <2>1 DEF SplitInv, SplitTyping, PartsFit, Laid, Pieces, InPieces
  <2>3. at \in [DOMAIN parts' -> Nat]
    BY <2>1
  <2> QED BY <1>1, <1>3, <2>1, <2>2, <2>3 DEF SplitInv
<1>4. CASE Len(text) <= MaxLen
  <2>1. parts' = <<text>> /\ split' = "returned"
    BY <1>1, <1>4 DEF Enter
  <2>2. parts' = Append(parts, text)
    BY <1>1, <2>1
  <2>3. /\ text \in Text /\ rest + Len(text) <= Len(whole)
        /\ \A k \in 1 .. Len(text) : text[k] = whole[rest + k]
        /\ Pieces(at) /\ \A i \in DOMAIN parts : at[i] + Len(parts[i]) <= rest
    BY <1>1, <1>2 DEF Laid, Text
  <2>4. PICK at2 \in [DOMAIN parts' -> Nat] :
          /\ Pieces(at2)'
          /\ \A p : InPieces(p, at) \/ p \in rest + 1 .. rest + Len(text) => InPieces(p, at2)'
    BY <1>1, <2>2, <2>3, OneMore
  <2>5. \A p \in DOMAIN whole' : IsSpace(whole'[p]) \/ InPieces(p, at2)'
    BY <1>1, <1>2, <2>4 DEF Laid
  <2>6. SplitTyping'
    BY <1>1, <2>2, <2>3 DEF SplitTyping
  <2>7. PartsFit'
    BY <1>1, <1>4, <2>1 DEF PartsFit
  <2>8. parts' # <<>>
    BY <2>1
  <2> QED BY <2>1, <2>4, <2>5, <2>6, <2>7, <2>8 DEF SplitInv
<1> QED BY <1>1, <1>3, <1>4

LEMMA FinishStep == SplitInv /\ Finish => SplitInv'
<1> SUFFICES ASSUME SplitInv, Finish PROVE SplitInv'
  OBVIOUS
<1>1. /\ whole' = whole /\ text' = text /\ split' = "returned"
      /\ whole \in Text /\ text \in Text /\ parts \in Seq(Text)
      /\ MaxLen \in Nat /\ Len(text) \in Nat /\ Len(text) <= MaxLen
      /\ parts # <<>> /\ DOMAIN text = 1 .. Len(text)
  BY SplitAssumption DEF SplitInv, SplitTyping, Finish, Text
<1>2. PICK at \in [DOMAIN parts -> Nat], rest \in Nat : Laid(at, rest)
  BY DEF SplitInv, Finish
<1>3. CASE text = <<>>
  <2>1. parts' = parts /\ Len(text) = 0
    BY <1>3 DEF Finish
  <2>2. SplitTyping' /\ PartsFit' /\ Pieces(at)'
    BY <1>1, <1>2, <2>1 DEF SplitInv, SplitTyping, PartsFit, Laid, Pieces
  <2>3. \A p \in DOMAIN whole : IsSpace(whole[p]) \/ InPieces(p, at)
    <3>1. \A p : ~(p \in rest + 1 .. rest + Len(text))
      BY <2>1
    <3> QED BY <1>2, <3>1 DEF Laid
  <2>4. \A p \in DOMAIN whole' : IsSpace(whole'[p]) \/ InPieces(p, at)'
    BY <1>1, <2>1, <2>3 DEF InPieces
  <2>5. at \in [DOMAIN parts' -> Nat]
    BY <2>1
  <2> QED BY <1>1, <2>1, <2>2, <2>4, <2>5 DEF SplitInv
<1>4. CASE text # <<>>
  <2>2. parts' = Append(parts, text)
    BY <1>4 DEF Finish
  <2>3. /\ rest + Len(text) <= Len(whole)
        /\ \A k \in 1 .. Len(text) : text[k] = whole[rest + k]
        /\ Pieces(at) /\ \A i \in DOMAIN parts : at[i] + Len(parts[i]) <= rest
    BY <1>1, <1>2 DEF Laid
  <2>4. PICK at2 \in [DOMAIN parts' -> Nat] :
          /\ Pieces(at2)'
          /\ \A p : InPieces(p, at) \/ p \in rest + 1 .. rest + Len(text) => InPieces(p, at2)'
    BY <1>1, <2>2, <2>3, OneMore
  <2>5. \A p \in DOMAIN whole' : IsSpace(whole'[p]) \/ InPieces(p, at2)'
    BY <1>1, <1>2, <2>4 DEF Laid
  <2>6. SplitTyping' /\ parts' # <<>>
    BY <1>1, <2>2 DEF SplitTyping
  <2>7. PartsFit'
    <3>1. /\ DOMAIN parts' = 1 .. Len(parts) + 1 /\ DOMAIN parts = 1 .. Len(parts) /\ Len(parts) \in Nat
          /\ parts'[Len(parts) + 1] = text
          /\ \A i \in DOMAIN parts : parts'[i] = parts[i]
      BY <1>1, <2>2
    <3>2. \A i \in DOMAIN parts' : i = Len(parts) + 1 \/ i \in DOMAIN parts
      BY <3>1
    <3> QED BY <1>1, <1>4, <3>1, <3>2 DEF PartsFit, SplitInv
  <2> QED BY <1>1, <2>4, <2>5, <2>6, <2>7 DEF SplitInv
<1> QED BY <1>3, <1>4

LEMMA CutPartStep == SplitInv /\ CutPart => SplitInv'
<1> SUFFICES ASSUME SplitInv, CutPart PROVE SplitInv'
  OBVIOUS
<1> DEFINE head == SubSeq(text, 1, Cut(text))
           tail == SubSeq(text, Cut(text) + 1, Len(text))
<1>1. /\ whole' = whole /\ split = "cutting" /\ split' = "cutting"
      /\ whole \in Text /\ text \in Text /\ parts \in Seq(Text)
      /\ MaxLen \in Nat /\ Len(text) \in Nat /\ Len(text) > MaxLen
      /\ parts' = Append(parts, TrimSpace(head)) /\ text' = TrimSpace(tail)
      /\ DOMAIN text = 1 .. Len(text) /\ DOMAIN whole = 1 .. Len(whole) /\ Len(whole) \in Nat
  BY SplitAssumption DEF SplitInv, SplitTyping, CutPart, Text
<1>2. PICK at \in [DOMAIN parts -> Nat], rest \in Nat : Laid(at, rest)
  BY <1>1 DEF SplitInv
<1>3. PICK cut \in 1 .. MaxLen : cut = Cut(text)
  BY <1>1, CutFits
<1>4. cut \in Nat /\ 1 <= cut /\ cut <= MaxLen /\ cut <= Len(text) /\ Len(text) - cut \in Nat
  BY <1>1, <1>3
<1>5. /\ head \in Text /\ Len(head) = cut
      /\ \A k \in 1 .. cut : head[k] = text[k]
  <2>1. /\ SubSeq(text, 0 + 1, cut) \in Text /\ Len(SubSeq(text, 0 + 1, cut)) = cut - 0
        /\ \A k \in 1 .. cut - 0 : SubSeq(text, 0 + 1, cut)[k] = text[0 + k]
    <3> 0 \in Nat /\ 0 <= cut
      BY <1>4
    <3> QED BY <1>1, <1>4, SubText
  <2>2. head = SubSeq(text, 0 + 1, cut) /\ cut - 0 = cut /\ \A k \in 1 .. cut : 0 + k = k
    BY <1>3, <1>4
  <2> HIDE DEF head
  <2> QED BY <2>1, <2>2
<1>6. /\ tail \in Text /\ Len(tail) = Len(text) - cut
      /\ \A k \in 1 .. Len(text) - cut : tail[k] = text[cut + k]
  <2>1. Len(text) <= Len(text)
    BY <1>1
  <2>2. LET u == SubSeq(text, cut + 1, Len(text)) IN
        /\ u \in Text /\ Len(u) = Len(text) - cut
        /\ \A k \in 1 .. Len(text) - cut : u[k] = text[cut + k]
    BY <1>1, <1>4, <2>1, SubText
  <2> QED BY <1>3, <2>2
<1> HIDE DEF head, tail
<1>7. PICK a \in Nat, part \in Text :
        /\ part = TrimSpace(head) /\ a + Len(part) <= cut
        /\ \A k \in 1 .. Len(part) : part[k] = head[a + k]
        /\ \A p \in 1 .. cut : IsSpace(head[p]) \/ p \in a + 1 .. a + Len(part)
        /\ part = <<>> => \A p \in 1 .. cut : IsSpace(head[p])
  <2>1. PICK a \in Nat :
          LET u == TrimSpace(head) IN
          /\ u \in Text /\ a + Len(u) <= Len(head)
          /\ \A k \in 1 .. Len(u) : u[k] = head[a + k]
          /\ \A p \in 1 .. Len(head) : IsSpace(head[p]) \/ p \in a + 1 .. a + Len(u)
          /\ u = <<>> => \A p \in 1 .. Len(head) : IsSpace(head[p])
          /\ u # <<>> => ~IsSpace(u[1])
    BY <1>5, Trimmed
  <2>2. PICK u \in Text : u = TrimSpace(head)
    BY <2>1
  <2>3. Len(head) = cut
    BY <1>5
  <2> QED BY <2>1, <2>2, <2>3
<1>8. PICK b \in Nat, remains \in Text :
        /\ remains = TrimSpace(tail) /\ b + Len(remains) <= Len(text) - cut
        /\ \A k \in 1 .. Len(remains) : remains[k] = tail[b + k]
        /\ \A p \in 1 .. Len(text) - cut : IsSpace(tail[p]) \/ p \in b + 1 .. b + Len(remains)
        /\ remains # <<>> => ~IsSpace(remains[1])
  <2>1. PICK b \in Nat :
          LET u == TrimSpace(tail) IN
          /\ u \in Text /\ b + Len(u) <= Len(tail)
          /\ \A k \in 1 .. Len(u) : u[k] = tail[b + k]
          /\ \A p \in 1 .. Len(tail) : IsSpace(tail[p]) \/ p \in b + 1 .. b + Len(u)
          /\ u = <<>> => \A p \in 1 .. Len(tail) : IsSpace(tail[p])
          /\ u # <<>> => ~IsSpace(u[1])
    BY <1>6, Trimmed
  <2>2. PICK u \in Text : u = TrimSpace(tail)
    BY <2>1
  <2>3. Len(tail) = Len(text) - cut
    BY <1>6
  <2> QED BY <2>1, <2>2, <2>3
<1>9. /\ parts' = Append(parts, part) /\ text' = remains
      /\ Len(part) \in Nat /\ Len(remains) \in Nat
      /\ DOMAIN part = 1 .. Len(part) /\ DOMAIN remains = 1 .. Len(remains)
  <2>1. parts' = Append(parts, part) /\ text' = remains
    BY <1>1, <1>7, <1>8
  <2>2. part \in Text /\ remains \in Text
    OBVIOUS
  <2> QED BY <2>1, <2>2, TextLength
<1>10. /\ rest + Len(text) <= Len(whole)
       /\ \A k \in 1 .. Len(text) : text[k] = whole[rest + k]
       /\ Pieces(at) /\ \A i \in DOMAIN parts : at[i] + Len(parts[i]) <= rest
       /\ \A p \in DOMAIN whole : \/ IsSpace(whole[p]) \/ InPieces(p, at)
                                  \/ p \in rest + 1 .. rest + Len(text)
  BY <1>1, <1>2 DEF Laid
\* In the whole text, the part begins after rest + a and what is left after rest + cut + b.
<1>11. PICK start \in Nat, next \in Nat :
         /\ start = rest + a /\ next = rest + cut + b
         /\ start + Len(part) <= rest + cut /\ rest <= start
         /\ rest + cut <= next /\ next + Len(remains) <= rest + Len(text)
  <2>1. rest + a \in Nat /\ rest + cut + b \in Nat
    BY <1>4
  <2>2. /\ rest + a + Len(part) <= rest + cut /\ rest <= rest + a
        /\ rest + cut <= rest + cut + b /\ rest + cut + b + Len(remains) <= rest + Len(text)
    BY <1>1, <1>4, <1>7, <1>8, <1>9
  <2> QED BY <2>1, <2>2
<1>12. \A k \in 1 .. Len(part) : part[k] = whole[start + k]
  <2> SUFFICES ASSUME NEW k \in 1 .. Len(part) PROVE part[k] = whole[start + k]
    OBVIOUS
  <2>1. a + k \in 1 .. cut /\ a + k \in 1 .. Len(text) /\ rest + (a + k) = start + k
    BY <1>1, <1>4, <1>7, <1>9, <1>11
  <2> QED BY <1>5, <1>7, <1>10, <2>1
<1>13. \A k \in 1 .. Len(remains) : remains[k] = whole[next + k]
  <2> SUFFICES ASSUME NEW k \in 1 .. Len(remains) PROVE remains[k] = whole[next + k]
    OBVIOUS
  <2>1. /\ b + k \in 1 .. Len(text) - cut /\ cut + (b + k) \in 1 .. Len(text)
        /\ rest + (cut + (b + k)) = next + k
    BY <1>1, <1>4, <1>8, <1>9, <1>11
  <2> QED BY <1>6, <1>8, <1>10, <2>1
<1>14. start + Len(part) <= Len(whole) /\ next + Len(remains) <= Len(whole)
       /\ start + Len(part) <= next
       /\ \A i \in DOMAIN parts : at[i] + Len(parts[i]) <= start
  <2>1. \A i \in DOMAIN parts : Len(parts[i]) \in Nat
    BY <1>1 DEF Text
  <2> QED BY <1>1, <1>4, <1>9, <1>10, <1>11, <2>1, SMTT(30)
<1>15. PICK at2 \in [DOMAIN parts' -> Nat] :
         /\ Pieces(at2)'
         /\ \A p : InPieces(p, at) \/ p \in start + 1 .. start + Len(part) => InPieces(p, at2)'
         /\ \A i \in DOMAIN parts' : at2[i] + Len(parts'[i]) <= start + Len(part)
  <2>1. /\ parts \in Seq(Text) /\ parts' = Append(parts, part) /\ whole' = whole
        /\ Pieces(at) /\ \A i \in DOMAIN parts : at[i] + Len(parts[i]) <= start
        /\ start + Len(part) <= Len(whole) /\ \A k \in 1 .. Len(part) : part[k] = whole[start + k]
    BY <1>1, <1>9, <1>10, <1>12, <1>14
  <2> QED BY <2>1, OneMore
<1>16. SplitTyping' /\ parts' # <<>>
  <2>1. whole' \in Text /\ text' \in Text
    BY <1>1, <1>9
  <2>2. parts \in Seq(Text) /\ parts' = Append(parts, part)
    BY <1>1, <1>9
  <2>3. parts' \in Seq(Text) /\ parts' # <<>>
    BY <2>2
  <2> QED BY <2>1, <2>3 DEF SplitTyping
<1>17. \A i \in DOMAIN parts' : at2[i] + Len(parts'[i]) <= next
  <2>1. \A i \in DOMAIN parts' : Len(parts'[i]) \in Nat
    BY <1>16 DEF SplitTyping, Text
  <2> QED BY <1>9, <1>14, <1>15, <2>1, SMTT(30)
<1>18. \A p \in DOMAIN whole : \/ IsSpace(whole[p]) \/ InPieces(p, at2)'
                                \/ p \in next + 1 .. next + Len(remains)
  <2> SUFFICES ASSUME NEW p \in DOMAIN whole, ~InPieces(p, at),
                      p \in rest + 1 .. rest + Len(text)
               PROVE  IsSpace(whole[p]) \/ InPieces(p, at2)' \/ p \in next + 1 .. next + Len(remains)
    BY <1>10, <1>15
  <2>1. PICK k \in 1 .. Len(text) : p = rest + k
    <3>1. p - rest \in 1 .. Len(text) /\ p = rest + (p - rest)
      BY <1>1
    <3> QED BY <3>1
  <2>2. whole[p] = text[k]
    BY <1>10, <2>1
  <2>3. CASE k <= cut
    <3>1. k \in 1 .. cut
      BY <1>4, <2>3
    <3>2. text[k] = head[k] /\ (IsSpace(head[k]) \/ k \in a + 1 .. a + Len(part))
      BY <1>5, <1>7, <3>1
    <3>3. k \in a + 1 .. a + Len(part) => p \in start + 1 .. start + Len(part)
      BY <1>9, <1>11, <2>1
    <3> QED BY <1>15, <2>2, <3>2, <3>3
  <2>4. CASE k > cut
    <3>1. k - cut \in 1 .. Len(text) - cut /\ cut + (k - cut) = k
      BY <1>1, <1>4, <2>4
    <3>2. text[k] = tail[k - cut] /\ (IsSpace(tail[k - cut]) \/ k - cut \in b + 1 .. b + Len(remains))
      BY <1>6, <1>8, <3>1
    <3>3. k - cut \in b + 1 .. b + Len(remains) => p \in next + 1 .. next + Len(remains)
      BY <1>4, <1>9, <1>11, <2>1
    <3> QED BY <2>2, <3>2, <3>3
  <2> QED BY <1>1, <1>4, <2>3, <2>4
<1>19. Laid(at2, next)'
  BY <1>1, <1>9, <1>13, <1>14, <1>15, <1>17, <1>18 DEF Laid
\* A part is empty only if the text began with a space, and was still whole.
<1>20. PartsFit'
  <2>1. /\ DOMAIN parts' = 1 .. Len(parts) + 1 /\ DOMAIN parts = 1 .. Len(parts) /\ Len(parts) \in Nat
        /\ parts'[Len(parts) + 1] = part
        /\ \A i \in DOMAIN parts : parts'[i] = parts[i]
    BY <1>1, <1>9
  <2>2. \A i \in DOMAIN parts' : i = Len(parts) + 1 \/ i \in DOMAIN parts
    BY <2>1
  <2>3. Len(part) <= MaxLen
    BY <1>1, <1>4, <1>7, <1>9
  <2>4. part = <<>> => Len(parts) + 1 = 1 /\ (whole = <<>> \/ IsSpace(Head(whole)))
    <3> SUFFICES ASSUME part = <<>> PROVE Len(parts) + 1 = 1 /\ IsSpace(Head(whole))
      OBVIOUS
    <3>1. 1 \in 1 .. cut
      BY <1>4
    <3>2. IsSpace(text[1])
      BY <1>5, <1>7, <3>1
    <3>3. text # <<>>
      BY <1>1
    <3>4. parts = <<>> /\ text = whole
      BY <1>1, <3>2, <3>3 DEF SplitInv
    <3> QED BY <3>2, <3>4
  <2> QED BY <1>1, <2>1, <2>2, <2>3, <2>4 DEF PartsFit, SplitInv
<1>21. text' = <<>> \/ ~IsSpace(text'[1])
  BY <1>8, <1>9
<1> QED BY <1>1, <1>15, <1>16, <1>19, <1>20, <1>21 DEF SplitInv

\* However a text is cut, its parts fit, and nothing but spaces and newlines is left out, said
\* twice or out of order (SplitMessage).
THEOREM NothingCutAway == SplitSpec => []SplitKeepsText
<1>1. ASSUME SplitInv, UNCHANGED splitVars PROVE SplitInv'
  <2>1. whole' = whole /\ text' = text /\ parts' = parts /\ split' = split
    BY <1>1 DEF splitVars
  <2>2. \A at, rest : (Laid(at, rest)' <=> Laid(at, rest)) /\ (Pieces(at)' <=> Pieces(at))
    BY <2>1 DEF Laid, Pieces, InPieces
  <2>3. \A p, at : InPieces(p, at)' <=> InPieces(p, at)
    BY <2>1 DEF InPieces
  <2>4. SplitTyping' /\ PartsFit'
    BY <1>1, <2>1 DEF SplitInv, SplitTyping, PartsFit
  <2> QED BY <1>1, <2>1, <2>2, <2>3, <2>4 DEF SplitInv
<1>2. SplitInv /\ [SplitNext]_splitVars => SplitInv'
  BY <1>1, EnterStep, CutPartStep, FinishStep DEF SplitNext
<1>3. SplitInv => SplitKeepsText
  <2> SUFFICES ASSUME SplitInv, split = "returned" PROVE SplitKeepsText
    BY DEF SplitKeepsText
  <2>1. PICK at \in [DOMAIN parts -> Nat] :
          Pieces(at) /\ \A p \in DOMAIN whole : IsSpace(whole[p]) \/ InPieces(p, at)
    BY DEF SplitInv
  <2>2. \A i \in DOMAIN parts : Len(parts[i]) \in Nat
    BY DEF SplitInv, SplitTyping, Text
  <2>3. Len(whole) \in Nat
    BY DEF SplitInv, SplitTyping, Text
  <2>4. \A i \in DOMAIN parts : at[i] \in 0 .. Len(whole)
    BY <2>1, <2>2, <2>3 DEF Pieces
  <2>5. at \in [DOMAIN parts -> 0 .. Len(whole)]
    BY <2>4
  <2> QED BY <2>1, <2>5 DEF SplitKeepsText, SplitInv, PartsFit
<1> QED BY InitSplit, <1>2, <1>3, PTL DEF SplitSpec

-----------------------------------------------------------------------------
(* Resolver.Resolve *)

\* The trigger of the file read under a name has been looked at.
Looked(c, n, i) ==
  /\ n \in Names \ left /\ i \in DOMAIN c[n].triggers
  /\ n < current.name \/ (n = current.name /\ i <= considered)

\* And was found in the message.
Met(c, n, i) == Looked(c, n, i) /\ c[n].triggers[i].found

\* The choice is right for the triggers looked at.
BestSoFar(c) ==
  \/ /\ best = Nothing
     /\ \A n \in Names : \A i \in DOMAIN c[n].triggers : Met(c, n, i) => c[n].triggers[i].length = 0
  \/ \E n \in Names : \E i \in DOMAIN c[n].triggers :
       /\ Met(c, n, i) /\ best.length > 0
       /\ best = [skill |-> Skill(n, c[n].triggers), length |-> c[n].triggers[i].length]
       /\ \A m \in Names : \A j \in DOMAIN c[m].triggers :
            Met(c, m, j) => \/ c[m].triggers[j].length < best.length
                            \/ c[m].triggers[j].length = best.length /\ n <= m

\* The directory as it has been read, as far as it has.
ReadSoFar(c) ==
  /\ \A n \in Names \ left : c[n] \in had[n]
  /\ current = NoSkill \/ (current.name \in Names \ left /\ current = Skill(current.name, c[current.name].triggers))
  /\ \A n \in left : current.name < n
  /\ \A n \in Names \ left : current.name < n => c[n].triggers = <<>>
  /\ BestSoFar(c)

SkillsTyping ==
  /\ skills \in [Names -> Entry] /\ left \subseteq Names
  /\ had \in [Names -> SUBSET Entry]
  /\ considered \in 0 .. Len(current.triggers)

SkillsInv ==
  /\ SkillsTyping
  /\ resolve = "reading" => \A n \in Names : skills[n] \in had[n]
  /\ resolve = "returned" => left = {} /\ considered = Len(current.triggers)
  /\ resolve \in {"reading", "returned"} => \E c \in [Names -> Entry] : ReadSoFar(c)

\* What stands under a name, and a trigger.
LEMMA EntryShape ==
  ASSUME NEW e \in Entry
  PROVE  /\ e.there \in BOOLEAN /\ e.triggers \in Seq(Trigger)
         /\ Len(e.triggers) \in Nat /\ DOMAIN e.triggers = 1 .. Len(e.triggers)
         /\ \A i \in 1 .. Len(e.triggers) : e.triggers[i] \in Trigger
         /\ ~e.there => e.triggers = <<>>
<1>1. PICK k \in 0 .. MaxTriggers : e.triggers \in [1 .. k -> Trigger]
  BY DEF Entry
<1>2. k \in Nat
  BY ResolverAssumption
<1>3. e.triggers \in Seq(Trigger)
  BY <1>1, <1>2, SeqDef
<1> QED BY <1>3 DEF Entry

LEMMA TriggerShape ==
  ASSUME NEW t \in Trigger PROVE t.length \in Nat /\ t.found \in BOOLEAN
BY ResolverAssumption DEF Trigger

LEMMA InitSkills == SkillsInit => SkillsInv
<1> SUFFICES ASSUME SkillsInit PROVE SkillsInv
  OBVIOUS
<1>1. PICK dir \in [Names -> Entry] : SkillsStart(dir)
  BY DEF SkillsInit
<1>2. SkillsTyping
  BY <1>1 DEF SkillsStart, SkillsTyping, NoSkill, Skill
<1> QED BY <1>1, <1>2 DEF SkillsInv, SkillsStart

LEMMA ReadDirStep == SkillsInv /\ ReadDir => SkillsInv'
<1> SUFFICES ASSUME SkillsInv, ReadDir PROVE SkillsInv'
  OBVIOUS
<1>1. current' = NoSkill /\ considered' = 0 /\ best' = Nothing /\ skills' = skills
  BY DEF ReadDir
<1>2. CASE resolve' = "failed"
  <2>1. SkillsTyping'
    BY <1>1, <1>2 DEF SkillsInv, SkillsTyping, ReadDir, NoSkill, Skill
  <2> QED BY <1>2, <2>1 DEF SkillsInv
<1>3. CASE /\ resolve' = "reading" /\ left' = {n \in Names : skills[n].there}
           /\ had' = [n \in Names |-> {skills[n]}]
  <2>1. SkillsTyping'
    BY <1>1, <1>3 DEF SkillsInv, SkillsTyping, NoSkill, Skill
  <2>2. \A n \in Names : skills'[n] \in had'[n]
    BY <1>1, <1>3
  <2>3. skills \in [Names -> Entry] /\ Names \subseteq Nat \ {0}
    BY ResolverAssumption DEF SkillsInv, SkillsTyping
  <2>4. ReadSoFar(skills)'
    <3>1. BestSoFar(skills)'
      BY <1>1, <1>3, <2>3, EntryShape DEF BestSoFar, Met, Looked, NoSkill, Skill
    <3>2. \A n \in Names \ left' : skills'[n].triggers = <<>>
      BY <1>1, <1>3, <2>3, EntryShape
    <3> QED BY <1>1, <1>3, <2>2, <2>3, <3>1, <3>2 DEF ReadSoFar, NoSkill, Skill
  <2>5. \E c \in [Names -> Entry] : ReadSoFar(c)'
    BY <1>1, <2>3, <2>4
  <2> QED BY <1>3, <2>1, <2>2, <2>5 DEF SkillsInv
<1> QED BY <1>2, <1>3 DEF ReadDir

LEMMA ReadSkillStep == SkillsInv /\ ReadSkill => SkillsInv'
<1> SUFFICES ASSUME SkillsInv, ReadSkill PROVE SkillsInv'
  OBVIOUS
<1>1. /\ skills \in [Names -> Entry] /\ Names \subseteq Nat \ {0} /\ left \subseteq Names
      /\ left # {} /\ considered = Len(current.triggers)
      /\ \A m \in Names : skills[m] \in had[m]
      /\ resolve = "reading" /\ resolve' = "reading"
  BY ResolverAssumption DEF SkillsInv, SkillsTyping, ReadSkill
<1>2. PICK n \in left : n = Min(left) /\ \A m \in left : n <= m
  BY <1>1, NatMin
<1>3. /\ current' = Skill(n, skills[n].triggers) /\ left' = left \ {n} /\ considered' = 0
      /\ skills' = skills /\ best' = best /\ had' = had
  BY <1>2 DEF ReadSkill
<1>4. /\ current'.name = n /\ current'.triggers = skills[n].triggers /\ skills[n] \in Entry
      /\ n \in Names /\ n \in Nat \ {0}
  BY <1>1, <1>2, <1>3 DEF Skill
<1>5. SkillsTyping'
  BY <1>1, <1>3, <1>4, EntryShape DEF SkillsInv, SkillsTyping
<1>6. PICK c \in [Names -> Entry] : ReadSoFar(c)
  BY <1>1 DEF SkillsInv
<1>7. PICK d \in [Names -> Entry] : d[n] = skills[n] /\ \A m \in Names \ {n} : d[m] = c[m]
  <2>1. [c EXCEPT ![n] = skills[n]] \in [Names -> Entry]
    BY <1>4
  <2> QED BY <1>4, <2>1
\* Everything read before comes before this name and has been looked at.
<1>8. /\ current.name \in Nat /\ current.name < n
      /\ current.name # 0 => current.name \in Names \ left /\ current.triggers = c[current.name].triggers
  BY <1>1, <1>2, <1>4, <1>6 DEF ReadSoFar, NoSkill, Skill
<1>9. \A m \in Names : \A i : Met(d, m, i)' <=> Met(c, m, i)
  <2> SUFFICES ASSUME NEW m \in Names, NEW i PROVE Met(d, m, i)' <=> Met(c, m, i)
    OBVIOUS
  <2>1. CASE m = n
    <3>1. ~Looked(c, m, i)
      BY <1>2, <2>1 DEF Looked
    <3>2. ~Looked(d, m, i)'
      BY <1>1, <1>3, <1>4, <1>7, <2>1, EntryShape DEF Looked
    <3> QED BY <3>1, <3>2 DEF Met
  <2>2. CASE m # n
    <3>1. d[m] = c[m] /\ c[m] \in Entry /\ m \in Nat
      BY <1>1, <1>7, <2>2
    <3>2. m \in Names \ left /\ current.name < m => c[m].triggers = <<>>
      BY <1>6 DEF ReadSoFar
    <3>3. m \in left => n < m
      BY <1>1, <1>2, <1>4, <2>2, <3>1
    <3>4. m = current.name => c[m].triggers = current.triggers
      BY <1>1, <1>8
    <3>5. DOMAIN c[m].triggers = 1 .. Len(c[m].triggers)
      BY <3>1, EntryShape
    <3>6. Looked(d, m, i)' <=> Looked(c, m, i)
      BY <1>1, <1>3, <1>4, <1>8, <2>2, <3>1, <3>2, <3>3, <3>4, <3>5 DEF Looked
    <3> QED BY <3>1, <3>6 DEF Met
  <2> QED BY <2>1, <2>2
<1>10. BestSoFar(d)'
  <2>1. CASE /\ best = Nothing
             /\ \A m \in Names : \A i \in DOMAIN c[m].triggers : Met(c, m, i) => c[m].triggers[i].length = 0
    <3>1. \A m \in Names : \A i \in DOMAIN d[m].triggers : Met(d, m, i)' => d[m].triggers[i].length = 0
      BY <1>2, <1>7, <1>9, <2>1 DEF Met, Looked
    <3> QED BY <1>3, <2>1, <3>1 DEF BestSoFar
  <2>2. ASSUME NEW b \in Names, NEW i \in DOMAIN c[b].triggers, Met(c, b, i), best.length > 0,
               best = [skill |-> Skill(b, c[b].triggers), length |-> c[b].triggers[i].length],
               \A m \in Names : \A j \in DOMAIN c[m].triggers :
                 Met(c, m, j) => \/ c[m].triggers[j].length < best.length
                                 \/ c[m].triggers[j].length = best.length /\ b <= m
        PROVE  BestSoFar(d)'
    <3>1. b # n /\ d[b] = c[b]
      BY <1>2, <1>7, <2>2 DEF Met, Looked
    <3>2. \A m \in Names : \A j \in DOMAIN d[m].triggers :
            Met(d, m, j)' => \/ d[m].triggers[j].length < best.length
                             \/ d[m].triggers[j].length = best.length /\ b <= m
      <4> TAKE m \in Names
      <4> TAKE j \in DOMAIN d[m].triggers
      <4> HAVE Met(d, m, j)'
      <4>1. Met(c, m, j)
        BY <1>9
      <4>2. m # n
        BY <1>2, <4>1 DEF Met, Looked
      <4>3. d[m] = c[m]
        BY <1>7, <4>2
      <4> QED BY <2>2, <4>1, <4>3
    <3>3. Met(d, b, i)'
      BY <1>9, <2>2
    <3> QED BY <1>3, <2>2, <3>1, <3>2, <3>3 DEF BestSoFar
  <2> QED BY <1>6, <2>1, <2>2 DEF ReadSoFar, BestSoFar
<1>11. ReadSoFar(d)'
  <2>1. \A m \in Names \ left' : d[m] \in had'[m]
    BY <1>1, <1>3, <1>6, <1>7 DEF ReadSoFar
  <2>2. current'.name \in Names \ left' /\ current' = Skill(current'.name, d[current'.name].triggers)
    BY <1>3, <1>4, <1>7
  <2>3. \A m \in left' : current'.name < m
    BY <1>1, <1>2, <1>3, <1>4
  <2>4. \A m \in Names \ left' : current'.name < m => d[m].triggers = <<>>
    BY <1>1, <1>3, <1>4, <1>6, <1>7, <1>8 DEF ReadSoFar
  <2> QED BY <1>10, <2>1, <2>2, <2>3, <2>4 DEF ReadSoFar
<1> QED BY <1>1, <1>3, <1>5, <1>7, <1>11 DEF SkillsInv

LEMMA ConsiderStep == SkillsInv /\ ConsiderTrigger => SkillsInv'
<1> SUFFICES ASSUME SkillsInv, ConsiderTrigger PROVE SkillsInv'
  OBVIOUS
<1>1. /\ Names \subseteq Nat \ {0} /\ considered \in Nat /\ considered < Len(current.triggers)
      /\ \A m \in Names : skills[m] \in had[m]
      /\ resolve = "reading" /\ resolve' = "reading" /\ considered' = considered + 1
      /\ skills' = skills /\ left' = left /\ had' = had /\ current' = current
  BY ResolverAssumption DEF SkillsInv, SkillsTyping, ConsiderTrigger
<1>2. PICK c \in [Names -> Entry] : ReadSoFar(c)
  BY <1>1 DEF SkillsInv
<1>3. PICK n \in Names, i \in Nat : n = current.name /\ i = considered + 1
  <2>1. current # NoSkill
    BY <1>1 DEF NoSkill, Skill
  <2>2. current.name \in Names /\ considered + 1 \in Nat
    BY <1>1, <1>2, <2>1 DEF ReadSoFar
  <2> QED BY <2>2
<1>31. /\ n \in Names \ left /\ current = Skill(n, c[n].triggers) /\ c[n] \in Entry
      /\ current.triggers = c[n].triggers
  <2>1. current # NoSkill
    BY <1>1 DEF NoSkill, Skill
  <2> QED BY <1>2, <1>3, <2>1 DEF ReadSoFar, Skill
<1>4. /\ i \in DOMAIN c[n].triggers /\ c[n].triggers[i].length \in Nat
      /\ n \in Nat \ {0}
      /\ considered' \in 0 .. Len(current'.triggers)
  <2>1. Len(c[n].triggers) \in Nat /\ DOMAIN c[n].triggers = 1 .. Len(c[n].triggers)
    BY <1>31, EntryShape
  <2>2. i \in 1 .. Len(c[n].triggers)
    <3>1. considered < Len(c[n].triggers) /\ considered \in Nat
      BY <1>1, <1>31
    <3>2. i = considered + 1
      BY <1>3
    <3> HIDE <1>3
    <3> QED BY <2>1, <3>1, <3>2
  <2>3. c[n].triggers[i] \in Trigger
    BY <1>31, <2>2, EntryShape
  <2>4. c[n].triggers[i].length \in Nat
    BY <2>3, TriggerShape
  <2>5. n \in Nat \ {0}
    BY <1>1
  <2>6. considered' \in 0 .. Len(current'.triggers)
    <3>1. considered' = i /\ current'.triggers = c[n].triggers
      BY <1>1, <1>3, <1>31
    <3> QED BY <2>1, <2>2, <3>1
  <2> QED BY <2>1, <2>2, <2>4, <2>5, <2>6
<1>5. SkillsTyping'
  BY <1>1, <1>3, <1>31, <1>4 DEF SkillsInv, SkillsTyping
<1>6. best' = IF Better(c[n].triggers[i]) THEN [skill |-> current, length |-> c[n].triggers[i].length]
                                          ELSE best
  BY <1>1, <1>3, <1>31 DEF ConsiderTrigger
<1> DEFINE t == c[n].triggers[i]
<1>7. \A m \in Names : \A j \in DOMAIN c[m].triggers :
        Met(c, m, j)' <=> Met(c, m, j) \/ (m = n /\ j = i /\ t.found)
  <2> SUFFICES ASSUME NEW m \in Names, NEW j \in DOMAIN c[m].triggers
               PROVE  Met(c, m, j)' <=> Met(c, m, j) \/ (m = n /\ j = i /\ t.found)
    OBVIOUS
  <2>1. j \in Nat /\ m \in Nat
    BY <1>1, EntryShape
  <2>2. Looked(c, m, j)' <=> Looked(c, m, j) \/ (m = n /\ j = i)
    <3>1. n = current.name /\ n \in Nat /\ n \in Names \ left /\ i \in DOMAIN c[n].triggers
      BY <1>3, <1>31, <1>4
    <3>2. left' = left /\ current' = current /\ considered' = considered + 1 /\ considered \in Nat /\ i = considered + 1
      BY <1>1, <1>3
    <3>3. j <= considered' <=> j <= considered \/ j = i
      BY <2>1, <3>2
    <3> QED BY <2>1, <3>1, <3>2, <3>3 DEF Looked
  <2> QED BY <2>2 DEF Met
<1>8. ~Met(c, n, i)
  <2>1. n = current.name /\ n \in Nat
    BY <1>3, <1>4
  <2>2. ~(n < n) /\ ~(i <= considered)
    BY <1>1, <1>3, <2>1
  <2> QED BY <2>1, <2>2 DEF Met, Looked
<1>9. \A m \in Names : \A j \in DOMAIN c[m].triggers :
        c[m].triggers[j].length \in Nat /\ (Met(c, m, j) => m <= n)
  <2> TAKE m \in Names
  <2> TAKE j \in DOMAIN c[m].triggers
  <2>1. c[m] \in Entry
    OBVIOUS
  <2>2. c[m].triggers[j] \in Trigger
    BY <2>1, EntryShape
  <2>3. c[m].triggers[j].length \in Nat
    BY <2>2, TriggerShape
  <2>4. m \in Nat /\ n \in Nat /\ n = current.name
    BY <1>1, <1>3
  <2>5. Met(c, m, j) => m < n \/ m = n
    BY <2>4 DEF Met, Looked
  <2> QED BY <2>3, <2>4, <2>5
<1> HIDE DEF t
<1>10. BestSoFar(c)'
  <2>1. CASE ~Better(t)
    <3>1. best' = best /\ (t.found => t.length <= best.length)
      <4>1. best.length \in Nat
        BY <1>2, <1>9 DEF ReadSoFar, BestSoFar, Nothing
      <4> QED BY <1>4, <1>6, <2>1, <4>1 DEF Better, t
    <3>2. CASE /\ best = Nothing
               /\ \A m \in Names : \A j \in DOMAIN c[m].triggers : Met(c, m, j) => c[m].triggers[j].length = 0
      <4>1. t.found => t.length = 0
        BY <1>4, <3>1, <3>2 DEF Nothing, t
      <4>2. \A m \in Names : \A j \in DOMAIN c[m].triggers : Met(c, m, j)' => c[m].triggers[j].length = 0
        BY <1>7, <3>2, <4>1 DEF t
      <4> QED BY <3>1, <3>2, <4>2 DEF BestSoFar
    <3>3. ASSUME NEW b \in Names, NEW k \in DOMAIN c[b].triggers, Met(c, b, k), best.length > 0,
                 best = [skill |-> Skill(b, c[b].triggers), length |-> c[b].triggers[k].length],
                 \A m \in Names : \A j \in DOMAIN c[m].triggers :
                   Met(c, m, j) => \/ c[m].triggers[j].length < best.length
                                   \/ c[m].triggers[j].length = best.length /\ b <= m
          PROVE  BestSoFar(c)'
      <4>1. b <= n /\ best.length \in Nat
        BY <1>9, <3>3
      <4>2. \A m \in Names : \A j \in DOMAIN c[m].triggers :
              Met(c, m, j)' => \/ c[m].triggers[j].length < best.length
                               \/ c[m].triggers[j].length = best.length /\ b <= m
        <5> TAKE m \in Names
        <5> TAKE j \in DOMAIN c[m].triggers
        <5> HAVE Met(c, m, j)'
        <5>1. CASE Met(c, m, j)
          BY <3>3, <5>1
        <5>2. CASE m = n /\ j = i /\ t.found
          <6>1. t.length <= best.length /\ t.length \in Nat /\ t = c[m].triggers[j]
            BY <1>4, <3>1, <5>2 DEF t
          <6> QED BY <4>1, <5>2, <6>1
        <5> QED BY <1>7, <5>1, <5>2
      <4>3. Met(c, b, k)'
        BY <1>7, <3>3
      <4> QED BY <3>1, <3>3, <4>2, <4>3 DEF BestSoFar
    <3> QED BY <1>2, <3>2, <3>3 DEF ReadSoFar, BestSoFar
  <2>2. CASE Better(t)
    <3>1. /\ best' = [skill |-> Skill(n, c[n].triggers), length |-> t.length]
          /\ t.found /\ t.length > best.length
      BY <1>3, <1>31, <1>6, <2>2 DEF Better, t
    <3>2. \A m \in Names : \A j \in DOMAIN c[m].triggers :
            Met(c, m, j) => c[m].triggers[j].length <= best.length
      BY <1>2, <1>9 DEF ReadSoFar, BestSoFar, Nothing
    <3>3. best.length \in Nat
      BY <1>2, <1>9 DEF ReadSoFar, BestSoFar, Nothing
    <3>4. best'.length = t.length /\ t.length > 0 /\ t.length \in Nat
      BY <1>4, <3>1, <3>3 DEF t
    <3>5. \A m \in Names : \A j \in DOMAIN c[m].triggers :
            Met(c, m, j)' => \/ c[m].triggers[j].length < best'.length
                             \/ c[m].triggers[j].length = best'.length /\ n <= m
      <4> TAKE m \in Names
      <4> TAKE j \in DOMAIN c[m].triggers
      <4> HAVE Met(c, m, j)'
      <4>1. CASE Met(c, m, j)
        <5>1. c[m].triggers[j].length <= best.length /\ c[m].triggers[j].length \in Nat
          BY <1>9, <3>2, <4>1
        <5> QED BY <3>1, <3>3, <3>4, <5>1
      <4>2. CASE m = n /\ j = i /\ t.found
        BY <1>4, <3>4, <4>2 DEF t
      <4> QED BY <1>7, <4>1, <4>2
    <3>6. Met(c, n, i)'
      BY <1>3, <1>31, <1>4, <1>7, <3>1 
    <3> QED BY <1>3, <1>31, <1>4, <3>1, <3>4, <3>5, <3>6 DEF BestSoFar, t
  <2> QED BY <2>1, <2>2
<1>11. ReadSoFar(c)'
  BY <1>1, <1>2, <1>10 DEF ReadSoFar
<1> QED BY <1>1, <1>5, <1>11 DEF SkillsInv

\* Returning changes nothing of what was read.
LEMMA OtherStep == SkillsInv /\ (Return \/ NextMessage \/ UNCHANGED skillVars) => SkillsInv'
<1> SUFFICES ASSUME SkillsInv, Return \/ NextMessage \/ UNCHANGED skillVars PROVE SkillsInv'
  OBVIOUS
<1>1. UNCHANGED <<skills, left, current, considered, best, had>>
  BY DEF Return, NextMessage, skillVars
<1>2. \A c : ReadSoFar(c)' <=> ReadSoFar(c)
  BY <1>1 DEF ReadSoFar, BestSoFar, Met, Looked
<1>3. SkillsTyping'
  BY <1>1 DEF SkillsInv, SkillsTyping
<1> QED BY <1>1, <1>2, <1>3 DEF SkillsInv, Return, NextMessage, skillVars

LEMMA ChangeStep == SkillsInv /\ Change => SkillsInv'
<1> SUFFICES ASSUME SkillsInv, Change PROVE SkillsInv'
  OBVIOUS
<1>1. PICK n \in Names, e \in Entry :
        /\ skills' = [skills EXCEPT ![n] = e]
        /\ had' = IF resolve = "reading" THEN [had EXCEPT ![n] = @ \union {e}] ELSE had
  BY DEF Change
<1>2. UNCHANGED <<resolve, left, current, considered, best>>
  BY DEF Change
<1>3. skills \in [Names -> Entry] /\ had \in [Names -> SUBSET Entry]
  BY DEF SkillsInv, SkillsTyping
<1>4. had' \in [Names -> SUBSET Entry] /\ \A m \in Names : had[m] \subseteq had'[m]
  BY <1>1, <1>3
<1>5. SkillsTyping'
  BY <1>1, <1>2, <1>3, <1>4 DEF SkillsInv, SkillsTyping
<1>6. resolve = "reading" => \A m \in Names : skills'[m] \in had'[m]
  BY <1>1, <1>3, <1>4 DEF SkillsInv
<1>7. \A c : ReadSoFar(c) => ReadSoFar(c)'
  <2>1. \A c : BestSoFar(c)' <=> BestSoFar(c)
    BY <1>2 DEF BestSoFar, Met, Looked
  <2> QED BY <1>2, <1>4, <2>1 DEF ReadSoFar
<1> QED BY <1>2, <1>5, <1>6, <1>7 DEF SkillsInv

\* The skill taken is the right one for the directory as it was read, each file at some time
\* since it was listed (Resolver.Resolve).
THEOREM RightSkill == SkillsSpec => []LongestTrigger
<1>1. SkillsInv /\ [SkillsNext]_skillVars => SkillsInv'
  BY ReadDirStep, ReadSkillStep, ConsiderStep, OtherStep, ChangeStep DEF SkillsNext
<1>2. SkillsInv => LongestTrigger
  <2> SUFFICES ASSUME SkillsInv, resolve = "returned"
               PROVE  \E dir \in [Names -> UNION {had[n] : n \in Names}] :
                        (\A n \in Names : dir[n] \in had[n]) /\ Chosen(dir)
    BY DEF LongestTrigger
  <2>1. PICK c \in [Names -> Entry] : ReadSoFar(c)
    BY DEF SkillsInv
  <2>2. left = {} /\ considered = Len(current.triggers) /\ Names \subseteq Nat \ {0}
    BY ResolverAssumption DEF SkillsInv
  <2>3. \A n \in Names : c[n] \in had[n]
    BY <2>1, <2>2 DEF ReadSoFar
  <2>4. c \in [Names -> UNION {had[n] : n \in Names}]
    BY <2>3
  <2>5. \A n \in Names : \A i \in DOMAIN c[n].triggers : Looked(c, n, i)
    <3> SUFFICES ASSUME NEW n \in Names, NEW i \in DOMAIN c[n].triggers PROVE Looked(c, n, i)
      OBVIOUS
    <3>1. i \in 1 .. Len(c[n].triggers) /\ Len(c[n].triggers) \in Nat
      BY EntryShape
    <3>2. ~(current.name < n)
      BY <2>1, <2>2, <3>1 DEF ReadSoFar
    <3>3. current.name \in Nat /\ n \in Nat \ {0}
      BY <2>1, <2>2 DEF ReadSoFar, NoSkill, Skill
    <3>4. n = current.name => c[n].triggers = current.triggers
      BY <2>1, <2>2, <3>3 DEF ReadSoFar, NoSkill, Skill
    <3> QED BY <2>2, <3>1, <3>2, <3>3, <3>4 DEF Looked
  <2>6. Chosen(c)
    <3>1. CASE /\ best = Nothing
               /\ \A n \in Names : \A i \in DOMAIN c[n].triggers : Met(c, n, i) => c[n].triggers[i].length = 0
      BY <2>5, <3>1 DEF Chosen, Matches, Met, Nothing
    <3>2. ASSUME NEW b \in Names, NEW k \in DOMAIN c[b].triggers, Met(c, b, k), best.length > 0,
                 best = [skill |-> Skill(b, c[b].triggers), length |-> c[b].triggers[k].length],
                 \A m \in Names : \A j \in DOMAIN c[m].triggers :
                   Met(c, m, j) => \/ c[m].triggers[j].length < best.length
                                   \/ c[m].triggers[j].length = best.length /\ b <= m
          PROVE  Chosen(c)
      <4>1. best.length \in Matches(c[b].triggers)
        BY <3>2 DEF Matches, Met
      <4>2. \A m \in Names : \A l \in Matches(c[m].triggers) :
              l < best.length \/ (l = best.length /\ b <= m)
        BY <2>5, <3>2 DEF Matches, Met
      <4>3. best.skill = Skill(b, c[b].triggers)
        BY <3>2
      <4> QED BY <3>2, <4>1, <4>2, <4>3 DEF Chosen
    <3> QED BY <2>1, <3>1, <3>2 DEF ReadSoFar, BestSoFar
  <2> QED BY <2>3, <2>4, <2>6
<1> QED BY InitSkills, <1>1, <1>2, PTL DEF SkillsSpec

-----------------------------------------------------------------------------
(* GetContextTurns, ContextAssembler.Build, buildAppendContext *)

\* A session numbers its turns.
Turn == [n : Nat, user : Nat, assistant : Nat]
Session(ts) == ts \in Seq(Turn) /\ \A i \in 1 .. Len(ts) : ts[i].n = i

\* Sums, as they run on.
Runs(f, b, w, n) == f = [i \in 0 .. n |-> IF i = 0 THEN b ELSE f[i - 1] + w[i]]

\* They exist, by a least place where they would not,
LEMMA RunsExist ==
  ASSUME NEW n \in Nat, NEW w \in [1 .. n -> Nat], NEW b \in Nat
  PROVE  \E f : Runs(f, b, w, n)
<1> DEFINE P(m) == \E f \in [0 .. m -> Nat] : f[0] = b /\ \A i \in 1 .. m : f[i] = f[i - 1] + w[i]
           S == {m \in 0 .. n : ~P(m)}
<1>1. P(0)
  <2> DEFINE f == [i \in 0 .. 0 |-> b]
  <2>1. f \in [0 .. 0 -> Nat] /\ f[0] = b /\ \A i \in 1 .. 0 : f[i] = f[i - 1] + w[i]
    OBVIOUS
  <2> HIDE DEF f
  <2> QED BY <2>1
<1>2. ASSUME NEW m \in 1 .. n, P(m - 1) PROVE P(m)
  <2>1. PICK f \in [0 .. m - 1 -> Nat] : f[0] = b /\ \A i \in 1 .. m - 1 : f[i] = f[i - 1] + w[i]
    BY <1>2
  <2> DEFINE g == [i \in 0 .. m |-> IF i = m THEN f[m - 1] + w[m] ELSE f[i]]
  <2>2. f[m - 1] + w[m] \in Nat
    BY <2>1
  <2>3. g \in [0 .. m -> Nat]
    BY <2>2
  <2>4. g[0] = b /\ \A i \in 1 .. m : g[i] = g[i - 1] + w[i]
    BY <2>1
  <2> HIDE DEF g
  <2> QED BY <2>3, <2>4
<1> HIDE DEF P
<1>3. S = {}
  <2> SUFFICES ASSUME S # {} PROVE FALSE
    OBVIOUS
  <2>1. S \subseteq Nat
    OBVIOUS
  <2>2. PICK m \in S : \A k \in S : m <= k
    BY <2>1, NatMin
  <2>3. m \in 1 .. n /\ m - 1 \in 0 .. n /\ m - 1 \notin S
    BY <1>1, <2>2
  <2>4. P(m - 1)
    BY <2>3
  <2> QED BY <1>2, <2>2, <2>3, <2>4
<1>4. PICK f \in [0 .. n -> Nat] : f[0] = b /\ \A i \in 1 .. n : f[i] = f[i - 1] + w[i]
  <2>1. P(n)
    BY <1>3
  <2> QED BY <2>1 DEF P
<1>5. f = [i \in 0 .. n |-> IF i = 0 THEN b ELSE f[i - 1] + w[i]]
  <2>1. \A i \in 0 .. n : f[i] = IF i = 0 THEN b ELSE f[i - 1] + w[i]
    BY <1>4
  <2> QED BY <1>4, <2>1
<1> QED BY <1>5 DEF Runs

\* are numbers, and never fall.
LEMMA RunsRise ==
  ASSUME NEW n \in Nat, NEW w \in [1 .. n -> Nat], NEW b \in Nat, NEW f, Runs(f, b, w, n)
  PROVE  /\ f \in [0 .. n -> Nat] /\ f[0] = b /\ \A i \in 1 .. n : f[i] = f[i - 1] + w[i]
         /\ \A i, j \in 0 .. n : i <= j => f[i] <= f[j]
<1>1. f[0] = b /\ \A i \in 1 .. n : f[i] = f[i - 1] + w[i]
  BY DEF Runs
<1>2. \A i \in 0 .. n : f[i] \in Nat
  <2> DEFINE S == {i \in 0 .. n : f[i] \notin Nat}
  <2> SUFFICES ASSUME S # {} PROVE FALSE
    OBVIOUS
  <2>1. S \subseteq Nat
    OBVIOUS
  <2>2. PICK m \in S : \A k \in S : m <= k
    BY <2>1, NatMin
  <2>3. m \in 1 .. n /\ m - 1 \in 0 .. n /\ m - 1 \notin S
    BY <1>1, <2>2
  <2>4. f[m - 1] \in Nat
    BY <2>3
  <2> QED BY <1>1, <2>2, <2>3, <2>4
<1>3. f \in [0 .. n -> Nat]
  <2> DEFINE g == [i \in 0 .. n |-> IF i = 0 THEN b ELSE f[i - 1] + w[i]]
  <2>1. f = g
    BY DEF Runs
  <2>2. DOMAIN g = 0 .. n /\ g = [i \in 0 .. n |-> g[i]]
    OBVIOUS
  <2> HIDE DEF g
  <2>3. g = [i \in 0 .. n |-> f[i]]
    BY <2>1, <2>2
  <2> QED BY <1>2, <2>1, <2>3
<1>4. ASSUME NEW i \in 0 .. n PROVE \A j \in 0 .. n : i <= j => f[i] <= f[j]
  <2> DEFINE S == {j \in 0 .. n : i <= j /\ ~(f[i] <= f[j])}
  <2> SUFFICES ASSUME S # {} PROVE FALSE
    OBVIOUS
  <2>1. S \subseteq Nat
    OBVIOUS
  <2>2. PICK m \in S : \A k \in S : m <= k
    BY <2>1, NatMin
  <2>3. m \in 1 .. n /\ m - 1 \in 0 .. n /\ i <= m - 1
    BY <1>3, <2>2
  <2>4. f[i] <= f[m - 1]
    BY <2>2, <2>3
  <2>5. f[m] = f[m - 1] + w[m] /\ f[m - 1] \in Nat /\ w[m] \in Nat /\ f[i] \in Nat
    BY <1>1, <1>2, <2>3
  <2>6. f[i] <= f[m]
    BY <2>4, <2>5
  <2> QED BY <2>2, <2>6
<1> QED BY <1>1, <1>3, <1>4

\* Tokens, counted from the newest.
LEMMA TokensRise ==
  ASSUME NEW ts, Session(ts)
  PROVE  /\ Tokens(ts) \in [1 .. Len(ts) + 1 -> Nat]
         /\ \A i, j \in 1 .. Len(ts) + 1 : i <= j => Tokens(ts)[j] <= Tokens(ts)[i]
<1>1. PICK n \in Nat : n = Len(ts)
  BY DEF Session
<1>2. \A i \in 1 .. n : ts[i].user \in Nat /\ ts[i].assistant \in Nat
  <2>1. \A i \in 1 .. n : ts[i] \in Turn
    BY <1>1 DEF Session
  <2> QED BY <2>1 DEF Turn
<1> DEFINE w == [i \in 1 .. n |-> ts[n + 1 - i].user + ts[n + 1 - i].assistant]
           Is(c) == c = [i \in 1 .. n + 1 |->
                           IF i > n THEN 0 ELSE c[i + 1] + (ts[i].user + ts[i].assistant)]
           back(f) == [i \in 1 .. n + 1 |-> f[n + 1 - i]]
           forth(c) == [i \in 0 .. n |-> c[n + 1 - i]]
<1>3. w \in [1 .. n -> Nat]
  BY <1>2
<1>4. \A i \in 1 .. n : w[n + 1 - i] = ts[i].user + ts[i].assistant
  <2>1. \A i \in 1 .. n : n + 1 - i \in 1 .. n /\ n + 1 - (n + 1 - i) = i
    OBVIOUS
  <2> QED BY <2>1
<1> HIDE DEF w
<1>5. PICK f : Runs(f, 0, w, n)
  BY <1>3, RunsExist
<1>6. Is(back(f))
  <2>1. f \in [0 .. n -> Nat] /\ f[0] = 0 /\ \A i \in 1 .. n : f[i] = f[i - 1] + w[i]
    <3> HIDE DEF back, forth, Is
    <3>1. /\ f \in [0 .. n -> Nat] /\ f[0] = 0 /\ \A i \in 1 .. n : f[i] = f[i - 1] + w[i]
          /\ \A i, j \in 0 .. n : i <= j => f[i] <= f[j]
      BY <1>3, <1>5, RunsRise, Zenon
    <3> QED BY <3>1
  <2> DEFINE g == back(f)
  <2>2. \A i \in 1 .. n : g[i] = g[i + 1] + (ts[i].user + ts[i].assistant)
    <3> SUFFICES ASSUME NEW i \in 1 .. n PROVE g[i] = g[i + 1] + (ts[i].user + ts[i].assistant)
      OBVIOUS
    <3>1. g[i] = f[n + 1 - i] /\ g[i + 1] = f[n - i]
      OBVIOUS
    <3>2. f[n + 1 - i] = f[n - i] + w[n + 1 - i]
      BY <2>1
    <3>3. ts[i].user \in Nat /\ ts[i].assistant \in Nat /\ f[n - i] \in Nat
      BY <1>2, <2>1
    <3> QED BY <1>4, <3>1, <3>2, <3>3
  <2>3. g[n + 1] = 0
    BY <2>1
  <2>4. g = [i \in 1 .. n + 1 |-> g[i]]
    OBVIOUS
  <2> HIDE DEF g
  <2>5. \A i \in 1 .. n + 1 : g[i] = IF i > n THEN 0 ELSE g[i + 1] + (ts[i].user + ts[i].assistant)
    BY <2>2, <2>3
  <2>6. Is(g)
    BY <2>4, <2>5
  <2> QED BY <2>6 DEF g
<1>7. Is(Tokens(ts))
  <2> HIDE DEF back
  <2>1. Tokens(ts) = CHOOSE c : Is(c)
    BY <1>1 DEF Tokens
  <2> QED BY <1>6, <2>1
<1>8. PICK c : c = Tokens(ts)
  OBVIOUS
<1>9. Runs(forth(c), 0, w, n)
  <2> DEFINE f1 == forth(c)
  <2>1. \A i \in 1 .. n : f1[i] = f1[i - 1] + w[i]
    <3> SUFFICES ASSUME NEW i \in 1 .. n PROVE f1[i] = f1[i - 1] + w[i]
      OBVIOUS
    <3>1. f1[i] = c[n + 1 - i] /\ f1[i - 1] = c[n + 2 - i] /\ n + 1 - i \in 1 .. n
      OBVIOUS
    <3>2. PICK k \in 1 .. n : k = n + 1 - i /\ i = n + 1 - k
      BY <3>1
    <3>3. c[k] = c[k + 1] + (ts[k].user + ts[k].assistant)
      BY <1>7, <1>8
    <3>4. w[i] = ts[k].user + ts[k].assistant
      BY <1>4, <3>2
    <3>5. n + 1 - i = k /\ n + 2 - i = k + 1
      BY <3>2
    <3> HIDE DEF f1
    <3> QED BY <3>1, <3>3, <3>4, <3>5
  <2>2. f1[0] = 0
    BY <1>7, <1>8
  <2>3. f1 = [i \in 0 .. n |-> f1[i]]
    OBVIOUS
  <2> HIDE DEF f1
  <2>4. \A i \in 0 .. n : f1[i] = IF i = 0 THEN 0 ELSE f1[i - 1] + w[i]
    BY <2>1, <2>2
  <2>5. f1 = [i \in 0 .. n |-> IF i = 0 THEN 0 ELSE f1[i - 1] + w[i]]
    BY <2>3, <2>4
  <2> QED BY <2>5 DEF Runs, f1
<1>10. PICK d : d = forth(c)
  OBVIOUS
<1>11. /\ d \in [0 .. n -> Nat] /\ d[0] = 0 /\ \A i \in 1 .. n : d[i] = d[i - 1] + w[i]
       /\ \A i, j \in 0 .. n : i <= j => d[i] <= d[j]
  <2>1. Runs(d, 0, w, n)
    BY <1>9, <1>10
  <2> HIDE DEF forth
  <2> QED BY <1>3, <2>1, RunsRise, Zenon
<1>12. \A i \in 1 .. n + 1 : n + 1 - i \in 0 .. n /\ d[n + 1 - i] = c[i]
  <2>1. \A k \in 0 .. n : d[k] = c[n + 1 - k]
    BY <1>10
  <2> SUFFICES ASSUME NEW i \in 1 .. n + 1 PROVE n + 1 - i \in 0 .. n /\ d[n + 1 - i] = c[i]
    OBVIOUS
  <2>2. PICK k \in 0 .. n : k = n + 1 - i /\ i = n + 1 - k
    OBVIOUS
  <2> QED BY <2>1, <2>2
<1>13. c \in [1 .. n + 1 -> Nat]
  <2> DEFINE g == [i \in 1 .. n + 1 |-> IF i > n THEN 0 ELSE c[i + 1] + (ts[i].user + ts[i].assistant)]
  <2>1. c = g
    BY <1>7, <1>8
  <2>2. g = [i \in 1 .. n + 1 |-> g[i]]
    OBVIOUS
  <2> HIDE DEF g
  <2>3. g = [i \in 1 .. n + 1 |-> c[i]]
    BY <2>1, <2>2
  <2>4. \A i \in 1 .. n + 1 : c[i] \in Nat
    BY <1>11, <1>12
  <2> QED BY <2>1, <2>3, <2>4
<1>14. ASSUME NEW i \in 1 .. n + 1, NEW j \in 1 .. n + 1, i <= j PROVE c[j] <= c[i]
  <2>1. d[n + 1 - j] <= d[n + 1 - i]
    BY <1>11, <1>12, <1>14
  <2> QED BY <1>12, <2>1
<1> QED BY <1>1, <1>8, <1>13, <1>14

\* The ends of texts are such sums.
LEMMA EndsRise ==
  ASSUME NEW ts \in Seq(Turn)
  PROVE  LET e == Ends(ts) IN
         /\ e \in [0 .. Len(ts) -> Nat] /\ e[0] = 1
         /\ \A i \in 1 .. Len(ts) : e[i] = e[i - 1] + Shown(ts[i])
         /\ \A i, j \in 0 .. Len(ts) : i <= j => e[i] <= e[j]
<1>1. PICK n \in Nat : n = Len(ts)
  OBVIOUS
<1>2. \A i \in 1 .. n : Shown(ts[i]) \in Nat
  <2>1. \A i \in 1 .. n : ts[i] \in Turn
    BY <1>1
  <2> QED BY <2>1, PromptAssumption DEF Turn, Shown, Least
<1> DEFINE w == [i \in 1 .. n |-> Shown(ts[i])]
<1>3. w \in [1 .. n -> Nat] /\ \A i \in 1 .. n : w[i] = Shown(ts[i])
  BY <1>2
<1> HIDE DEF w
<1>4. PICK f : Runs(f, 1, w, n)
  BY <1>3, RunsExist
<1>5. \A g : Runs(g, 1, w, n) <=> g = [i \in 0 .. n |-> IF i = 0 THEN 1 ELSE g[i - 1] + Shown(ts[i])]
  <2> SUFFICES ASSUME NEW g
               PROVE  [i \in 0 .. n |-> IF i = 0 THEN 1 ELSE g[i - 1] + w[i]]
                      = [i \in 0 .. n |-> IF i = 0 THEN 1 ELSE g[i - 1] + Shown(ts[i])]
    BY DEF Runs
  <2>1. \A i \in 0 .. n : i # 0 => w[i] = Shown(ts[i])
    BY <1>3
  <2> QED BY <2>1
<1>6. Ends(ts) = CHOOSE g : g = [i \in 0 .. n |-> IF i = 0 THEN 1 ELSE g[i - 1] + Shown(ts[i])]
  BY <1>1 DEF Ends
<1>7. PICK e : e = Ends(ts)
  OBVIOUS
<1>8. Runs(e, 1, w, n)
  BY <1>4, <1>5, <1>6, <1>7
<1>9. /\ e \in [0 .. n -> Nat] /\ e[0] = 1 /\ \A i \in 1 .. n : e[i] = e[i - 1] + w[i]
      /\ \A i, j \in 0 .. n : i <= j => e[i] <= e[j]
  <2>1. 1 \in Nat
    OBVIOUS
  <2> QED BY <1>3, <1>8, <2>1, RunsRise, Zenon
<1>10. \A i \in 1 .. n : e[i] = e[i - 1] + Shown(ts[i])
  BY <1>3, <1>9
<1> QED BY <1>1, <1>7, <1>9, <1>10

\* The window is the end of the session that both limits allow.
LEMMA WindowIsEnd ==
  ASSUME NEW ts, Session(ts)
  PROVE  \E w \in 1 .. Len(ts) + 1 : GetContextTurns(ts) = From(ts, w) /\ Window(ts) = w .. Len(ts)
<1>1. PICK n \in Nat : n = Len(ts) /\ DOMAIN ts = 1 .. n
  BY DEF Session
<1>2. PICK t : t = Tokens(ts)
  OBVIOUS
<1>3. t \in [1 .. n + 1 -> Nat] /\ \A i, j \in 1 .. n + 1 : i <= j => t[j] <= t[i]
  BY <1>1, <1>2, TokensRise
<1>4. PICK first \in 1 .. n + 1 :
        first = IF MaxTurnsInContext > 0 /\ n > MaxTurnsInContext THEN n - MaxTurnsInContext + 1 ELSE 1
  <2> DEFINE f == IF MaxTurnsInContext > 0 /\ n > MaxTurnsInContext THEN n - MaxTurnsInContext + 1 ELSE 1
  <2>1. f \in 1 .. n + 1
    BY PromptAssumption
  <2>2. PICK g : g = f
    OBVIOUS
  <2> QED BY <2>1, <2>2
<1>5. \A i \in 1 .. n : Within(i, ts) <=> i >= first /\ (MaxContextTokens > 0 => t[i] <= MaxContextTokens)
  BY <1>1, <1>2, <1>4, PromptAssumption DEF Within
<1>6. ASSUME NEW w \in 1 .. n + 1, \A i \in 1 .. n : i >= w <=> Within(i, ts)
      PROVE  Window(ts) = w .. n
  <2>1. w .. n = {i \in 1 .. n : i >= w}
    OBVIOUS
  <2> QED BY <1>1, <1>6, <2>1 DEF Window
<1> DEFINE exceeding == {i \in first .. n : t[i] > MaxContextTokens}
<1>7. GetContextTurns(ts) =
        From(ts, IF MaxContextTokens <= 0 \/ exceeding = {} THEN first ELSE Max(exceeding) + 1)
  BY <1>1, <1>2, <1>4 DEF GetContextTurns
<1>8. CASE MaxContextTokens <= 0 \/ exceeding = {}
  <2>1. \A i \in 1 .. n : i >= first => (MaxContextTokens > 0 => t[i] <= MaxContextTokens)
    BY <1>3, <1>8, PromptAssumption
  <2>2. \A i \in 1 .. n : i >= first <=> Within(i, ts)
    BY <1>5, <2>1
  <2>3. Window(ts) = first .. n
    BY <1>6, <2>2
  <2>4. GetContextTurns(ts) = From(ts, first)
    BY <1>7, <1>8
  <2> QED BY <1>1, <2>3, <2>4
<1>9. CASE ~(MaxContextTokens <= 0 \/ exceeding = {})
  <2>1. exceeding \subseteq 0 .. n /\ exceeding # {} /\ MaxContextTokens > 0
    BY <1>9, PromptAssumption
  <2>2. PICK e \in exceeding : e = Max(exceeding) /\ \A i \in exceeding : i <= e
    <3> HIDE DEF exceeding
    <3>1. Max(exceeding) \in exceeding /\ \A m \in exceeding : m <= Max(exceeding)
      BY <2>1, NatMax
    <3> QED BY <3>1
  <2>3. e \in first .. n /\ t[e] > MaxContextTokens
    OBVIOUS
  <2>4. \A i \in first .. n : i > e => t[i] <= MaxContextTokens
    <3> SUFFICES ASSUME NEW i \in first .. n, i > e, ~(t[i] <= MaxContextTokens) PROVE FALSE
      OBVIOUS
    <3>1. i \in exceeding
      BY <1>3, PromptAssumption
    <3> QED BY <2>2, <2>3, <3>1
  <2>5. \A i \in 1 .. n : i <= e => t[i] > MaxContextTokens
    <3> TAKE i \in 1 .. n
    <3> HAVE i <= e
    <3>1. t[e] <= t[i] /\ t[e] \in Nat /\ t[i] \in Nat
      BY <1>3, <2>3
    <3> QED BY <2>3, <3>1, PromptAssumption
  <2>6. \A i \in 1 .. n : i >= e + 1 <=> Within(i, ts)
    <3> TAKE i \in 1 .. n
    <3>1. CASE i <= e
      <4>1. t[i] > MaxContextTokens /\ t[i] \in Nat
        BY <1>3, <2>5, <3>1
      <4> QED BY <1>5, <2>1, <2>3, <3>1, <4>1, PromptAssumption
    <3>2. CASE i > e
      BY <1>5, <2>3, <2>4, <3>2
    <3> QED BY <2>3, <3>1, <3>2
  <2>7. Window(ts) = e + 1 .. n
    <3>1. e + 1 \in 1 .. n + 1
      BY <2>3
    <3> QED BY <1>6, <2>6, <3>1
  <2>8. GetContextTurns(ts) = From(ts, e + 1)
    BY <1>7, <1>9, <2>2
  <2> QED BY <1>1, <2>3, <2>7, <2>8
<1> QED BY <1>8, <1>9

\* A part of some turns, place by place.
LEMMA Slice ==
  ASSUME NEW ts \in Seq(Turn), NEW i \in 1 .. Len(ts) + 1, NEW j \in i - 1 .. Len(ts)
  PROVE  LET s == SubSeq(ts, i, j) IN
         /\ s \in Seq(Turn) /\ Len(s) = j - i + 1
         /\ \A k \in 1 .. j - i + 1 : s[k] = ts[i + k - 1]
<1>1. \A k \in i .. j : ts[k] \in Turn
  OBVIOUS
<1> QED BY <1>1, SubSeqProperties, Z3

\* Of a session, from one turn on.
LEMMA SliceOfSession ==
  ASSUME NEW ts, Session(ts), NEW w \in 1 .. Len(ts) + 1
  PROVE  /\ From(ts, w) \in Seq(Turn) /\ Len(From(ts, w)) = Len(ts) - w + 1
         /\ \A k \in 1 .. Len(ts) - w + 1 : From(ts, w)[k] = ts[w - 1 + k] /\ From(ts, w)[k].n = w - 1 + k
<1>1. ts \in Seq(Turn) /\ Len(ts) \in w - 1 .. Len(ts)
  BY DEF Session
<1>2. /\ From(ts, w) \in Seq(Turn) /\ Len(From(ts, w)) = Len(ts) - w + 1
      /\ \A k \in 1 .. Len(ts) - w + 1 : From(ts, w)[k] = ts[w + k - 1]
  BY <1>1, Slice DEF From
<1>3. \A k \in 1 .. Len(ts) - w + 1 : w + k - 1 = w - 1 + k /\ w - 1 + k \in 1 .. Len(ts)
  BY <1>1
<1> QED BY <1>2, <1>3 DEF Session

\* Two messages of each turn.
Half(k) == (k + 1) \div 2
Role(k) == IF k % 2 = 1 THEN "user" ELSE "assistant"
Messages == [role : {"user", "assistant"}, of : Int]

\* Messages come in pairs, the user's and the assistant's.
LEMMA Pairs ==
  \A k \in Nat \ {0} :
     /\ Half(k) \in Nat \ {0} /\ (k = 2 * Half(k) - 1 \/ k = 2 * Half(k))
     /\ Role(k) = "user" <=> k = 2 * Half(k) - 1
     /\ Role(k) = "assistant" <=> k = 2 * Half(k)
<1> TAKE k \in Nat \ {0}
<1>1. /\ (k + 1) \div 2 \in Nat \ {0} /\ (k = 2 * ((k + 1) \div 2) - 1 \/ k = 2 * ((k + 1) \div 2))
      /\ k % 2 = 1 <=> k = 2 * ((k + 1) \div 2) - 1
  BY SMT
<1>2. PICK h \in Nat \ {0} : h = (k + 1) \div 2
  BY <1>1
<1>3. PICK odd \in BOOLEAN : odd <=> k % 2 = 1
  OBVIOUS
<1>4. Half(k) = h /\ Role(k) = IF odd THEN "user" ELSE "assistant"
  BY <1>2, <1>3 DEF Half, Role
<1>5. (k = 2 * h - 1 \/ k = 2 * h) /\ (odd <=> k = 2 * h - 1)
  BY <1>1, <1>2, <1>3
<1> QED BY <1>4, <1>5

\* What TurnsToMessages makes of turns numbered behind a.
LEMMA MessagesOfTurns ==
  ASSUME NEW s \in Seq(Turn), NEW a \in Int, \A k \in 1 .. Len(s) : s[k].n = a + k
  PROVE  /\ TurnsToMessages(s) \in Seq(Messages) /\ Len(TurnsToMessages(s)) = 2 * Len(s)
         /\ \A k \in 1 .. 2 * Len(s) : TurnsToMessages(s)[k] = Message(Role(k), a + Half(k))
<1>1. PICK l \in Nat : l = Len(s)
  OBVIOUS
<1>2. TurnsToMessages(s) = [k \in 1 .. 2 * l |-> Message(Role(k), s[Half(k)].n)]
  BY <1>1 DEF TurnsToMessages, Role, Half
<1>3. \A k \in 1 .. 2 * l : Half(k) \in 1 .. l
  <2> TAKE k \in 1 .. 2 * l
  <2>1. Half(k) \in Nat \ {0} /\ (k = 2 * Half(k) - 1 \/ k = 2 * Half(k))
    <3>1. k \in Nat \ {0}
      OBVIOUS
    <3> QED BY <3>1, Pairs
  <2> QED BY <2>1
<1>4. \A k \in 1 .. 2 * l : s[Half(k)].n = a + Half(k)
  BY <1>1, <1>3
<1>5. \A k \in 1 .. 2 * l : Message(Role(k), a + Half(k)) \in Messages
  BY <1>3, <1>1 DEF Message, Role, Messages
<1> DEFINE m == [k \in 1 .. 2 * l |-> Message(Role(k), s[Half(k)].n)]
<1>6. m \in [1 .. 2 * l -> Messages] /\ \A k \in 1 .. 2 * l : m[k] = Message(Role(k), a + Half(k))
  BY <1>4, <1>5
<1> HIDE DEF m
<1>7. m \in Seq(Messages) /\ Len(m) = 2 * l
  BY <1>6
<1> QED BY <1>1, <1>2, <1>6, <1>7 DEF m

\* One message more.
LEMMA Add ==
  ASSUME NEW s \in Seq(Messages), NEW z \in Messages, NEW p \in Nat, Len(s) = p
  PROVE  /\ Append(s, z) \in Seq(Messages) /\ Len(Append(s, z)) = p + 1
         /\ \A k \in 1 .. p : Append(s, z)[k] = s[k]
         /\ Append(s, z)[p + 1] = z
OBVIOUS

\* Messages of turns from w on, o of them before r messages that were recalled and l behind
\* these, and the new one.
LaidOut(m, w, o, l, r) ==
  /\ Len(m) = 2 * o + r + 2 * l + 1 /\ DOMAIN m = 1 .. Len(m)
  /\ \A k \in 1 .. 2 * o : m[k] = Message(Role(k), w - 1 + Half(k))
  /\ \A k \in 1 .. r : m[2 * o + k] = Message(Role(k), Memory)
  /\ \A k \in 1 .. 2 * l : m[2 * o + r + k] = Message(Role(k), w - 1 + o + Half(k))
  /\ m[2 * o + r + 2 * l + 1] = Message("user", NewMessage)

\* The messages of n turns behind a, and what was recalled.
Pair(s, a, n) ==
  s \in Seq(Messages) /\ Len(s) = 2 * n /\ \A k \in 1 .. 2 * n : s[k] = Message(Role(k), a + Half(k))

Memories(s, r) == s \in Seq(Messages) /\ Len(s) = r /\ \A k \in 1 .. r : s[k] = Message(Role(k), Memory)

\* Older turns, what was recalled, the last turns and the new message, joined.
LEMMA JoinLaid ==
  ASSUME NEW w \in Nat, NEW o \in Nat, NEW l \in Nat, NEW r \in Nat, NEW A, NEW B, NEW C,
         Pair(A, w - 1, o), Memories(B, r), Pair(C, w - 1 + o, l)
  PROVE  LaidOut(Append((A \o B) \o C, Message("user", NewMessage)), w, o, l, r)
<1>1. PICK z : z = Message("user", NewMessage)
  OBVIOUS
<1>2. z \in Messages
  BY <1>1 DEF Message, Messages, NewMessage
<1>3. PICK AB : AB = A \o B
  OBVIOUS
<1>4. PICK a \in Nat, c \in Nat : a = 2 * o /\ c = 2 * l
  OBVIOUS
<1>5. /\ AB \in Seq(Messages) /\ Len(AB) = a + r
      /\ \A k \in 1 .. a : AB[k] = A[k]
      /\ \A k \in 1 .. r : AB[a + k] = B[k]
  <2>1. A \in Seq(Messages) /\ B \in Seq(Messages) /\ Len(A) = a /\ Len(B) = r
    BY <1>4 DEF Pair, Memories
  <2>2. A \o B \in Seq(Messages) /\ Len(A \o B) = a + r
    BY <2>1
  <2>3. \A k \in 1 .. a : (A \o B)[k] = A[k]
    BY <1>4, <2>1
  <2>4. \A k \in 1 .. r : (A \o B)[a + k] = B[k]
    BY <1>4, <2>1
  <2> QED BY <1>3, <2>2, <2>3, <2>4
<1>6. PICK ABC : ABC = AB \o C
  OBVIOUS
<1>7. PICK b \in Nat : b = a + r
  BY <1>4
<1>8. /\ ABC \in Seq(Messages) /\ Len(ABC) = b + c
      /\ \A k \in 1 .. b : ABC[k] = AB[k]
      /\ \A k \in 1 .. c : ABC[b + k] = C[k]
  <2>1. AB \in Seq(Messages) /\ C \in Seq(Messages) /\ Len(AB) = b /\ Len(C) = c
    BY <1>4, <1>5, <1>7 DEF Pair
  <2>2. AB \o C \in Seq(Messages) /\ Len(AB \o C) = b + c
    BY <2>1, SMTT(30)
  <2>3. \A k \in 1 .. b : (AB \o C)[k] = AB[k]
    BY <1>4, <1>7, <2>1
  <2>4. \A k \in 1 .. c : (AB \o C)[b + k] = C[k]
    BY <1>4, <1>7, <2>1
  <2> QED BY <1>6, <2>2, <2>3, <2>4
<1>9. PICK d \in Nat : d = b + c
  BY <1>4, <1>7
<1>10. PICK m : m = Append(ABC, z)
  OBVIOUS
<1>11. /\ Len(m) = d + 1
       /\ \A k \in 1 .. d : m[k] = ABC[k]
       /\ m[d + 1] = z
  <2>1. ABC \in Seq(Messages) /\ Len(ABC) = d
    BY <1>8, <1>9
  <2> QED BY <1>2, <1>9, <1>10, <2>1, Add
<1>12. \A k \in 1 .. a : m[k] = A[k]
  <2>1. \A k \in 1 .. a : k \in 1 .. b /\ k \in 1 .. d
    BY <1>4, <1>7, <1>9
  <2> QED BY <1>5, <1>8, <1>11, <2>1
<1>13. \A k \in 1 .. r : m[a + k] = B[k]
  <2>1. \A k \in 1 .. r : a + k \in 1 .. b /\ a + k \in 1 .. d
    BY <1>4, <1>7, <1>9
  <2> QED BY <1>5, <1>8, <1>11, <2>1
<1>14. \A k \in 1 .. c : m[b + k] = C[k]
  <2>1. \A k \in 1 .. c : b + k \in 1 .. d
    BY <1>4, <1>7, <1>9
  <2> QED BY <1>8, <1>11, <2>1
<1>15. a = 2 * o /\ c = 2 * l /\ b = 2 * o + r /\ d = 2 * o + r + 2 * l
  BY <1>4, <1>7, <1>9
<1>16. /\ \A k \in 1 .. a : m[k] = Message(Role(k), w - 1 + Half(k))
       /\ \A k \in 1 .. r : m[a + k] = Message(Role(k), Memory)
       /\ \A k \in 1 .. c : m[b + k] = Message(Role(k), w - 1 + o + Half(k))
  BY <1>12, <1>13, <1>14, <1>15 DEF Pair, Memories
<1>17. LaidOut(m, w, o, l, r)
  <2>1. ABC \in Seq(Messages)
    BY <1>8
  <2>2. DOMAIN m = 1 .. Len(m)
    BY <1>2, <1>10, <2>1
  <2> QED BY <2>2, <1>1, <1>11, <1>15, <1>16 DEF LaidOut
<1> QED BY <1>1, <1>3, <1>6, <1>10, <1>17

\* Where Build lays them.
LEMMA BuildLaid ==
  ASSUME NEW ts, Session(ts), NEW recalled \in BOOLEAN,
         NEW w \in 1 .. Len(ts) + 1, GetContextTurns(ts) = From(ts, w)
  PROVE  \E o \in Nat, l \in 0 .. 2, r \in {0, 2} :
           /\ Len(ts) - w + 1 = o + l /\ (l < 2 => o = 0)
           /\ LaidOut(Append(Build(ts, recalled), Message("user", NewMessage)), w, o, l, r)
<1>1. PICK x : x = From(ts, w)
  OBVIOUS
<1>2. PICK c \in Nat : c = Len(ts) - w + 1
  BY DEF Session
<1>3. x \in Seq(Turn) /\ Len(x) = c /\ \A k \in 1 .. c : x[k].n = w - 1 + k
  BY <1>1, <1>2, SliceOfSession
<1>4. PICK l : l = Least(2, c)
  OBVIOUS
<1>5. PICK o : o = c - l
  OBVIOUS
<1>6. l \in 0 .. 2 /\ o \in Nat /\ (l < 2 => o = 0) /\ c = o + l /\ c - l + 1 = o + 1
  BY <1>4, <1>5 DEF Least
<1>7. PICK old : old = SubSeq(x, 1, o)
  OBVIOUS
<1>8. old \in Seq(Turn) /\ Len(old) = o /\ \A k \in 1 .. o : old[k].n = w - 1 + k
  <2>1. 1 \in 1 .. Len(x) + 1 /\ o \in 1 - 1 .. Len(x) /\ o - 1 + 1 = o
    BY <1>3, <1>6
  <2>2. /\ old \in Seq(Turn) /\ Len(old) = o - 1 + 1
        /\ \A k \in 1 .. o - 1 + 1 : old[k] = x[1 + k - 1]
    BY <1>3, <1>7, <2>1, Slice
  <2>3. \A k \in 1 .. o : 1 + k - 1 = k /\ k \in 1 .. c
    BY <1>6
  <2>4. \A k \in 1 .. o : old[k] = x[k]
    BY <2>1, <2>2, <2>3
  <2> QED BY <1>3, <2>1, <2>2, <2>3, <2>4
<1>9. PICK new : new = SubSeq(x, o + 1, c)
  OBVIOUS
<1>10. new \in Seq(Turn) /\ Len(new) = l /\ \A k \in 1 .. l : new[k].n = w - 1 + o + k
  <2>1. o + 1 \in 1 .. Len(x) + 1 /\ c \in o + 1 - 1 .. Len(x) /\ c - (o + 1) + 1 = l
    BY <1>3, <1>6
  <2>2. /\ new \in Seq(Turn) /\ Len(new) = c - (o + 1) + 1
        /\ \A k \in 1 .. c - (o + 1) + 1 : new[k] = x[o + 1 + k - 1]
    BY <1>3, <1>9, <2>1, Slice, SMTT(30)
  <2>3. \A k \in 1 .. l : o + 1 + k - 1 = o + k /\ o + k \in 1 .. c /\ w - 1 + (o + k) = w - 1 + o + k
    BY <1>6
  <2>4. \A k \in 1 .. l : new[k] = x[o + k]
    BY <2>1, <2>2, <2>3
  <2> QED BY <1>3, <2>1, <2>2, <2>3, <2>4, SMTT(30)
<1>11. LastOf(x, 2) = new
  BY <1>3, <1>4, <1>6, <1>9 DEF LastOf, From
<1>12. PICK A : A = TurnsToMessages(old)
  OBVIOUS
<1>13. A \in Seq(Messages) /\ Len(A) = 2 * o /\ \A k \in 1 .. 2 * o : A[k] = Message(Role(k), w - 1 + Half(k))
  <2>1. w - 1 \in Int
    OBVIOUS
  <2> QED BY <1>8, <1>12, <2>1, MessagesOfTurns
<1>14. PICK C : C = TurnsToMessages(new)
  OBVIOUS
<1>15. C \in Seq(Messages) /\ Len(C) = 2 * l /\ \A k \in 1 .. 2 * l : C[k] = Message(Role(k), w - 1 + o + Half(k))
  <2>1. w - 1 + o \in Int
    BY <1>6
  <2> QED BY <1>10, <1>14, <2>1, MessagesOfTurns
<1>16. PICK B : B = IF recalled THEN Recalled ELSE <<>>
  OBVIOUS
<1>17. PICK r : r = IF recalled THEN 2 ELSE 0
  OBVIOUS
<1>18. r \in {0, 2} /\ B \in Seq(Messages) /\ Len(B) = r /\ \A k \in 1 .. r : B[k] = Message(Role(k), Memory)
  <2>1. Recalled \in Seq(Messages) /\ Len(Recalled) = 2
    BY DEF Recalled, Messages, Message, Memory
  <2>2. \A k \in 1 .. 2 : Recalled[k] = Message(Role(k), Memory)
    <3>1. 1 % 2 = 1 /\ 2 % 2 = 0
      BY SMT
    <3>2. Recalled[1] = Message(Role(1), Memory) /\ Recalled[2] = Message(Role(2), Memory)
      BY <3>1 DEF Recalled, Role
    <3> QED BY <3>2
  <2>4. CASE recalled
    BY <1>16, <1>17, <2>1, <2>2, <2>4
  <2>5. CASE ~recalled
    <3>1. B = <<>> /\ r = 0
      BY <1>16, <1>17, <2>5
    <3> QED BY <3>1
  <2> QED BY <2>4, <2>5
<1>19. Append(Build(ts, recalled), Message("user", NewMessage)) = Append((A \o B) \o C, Message("user", NewMessage))
  BY <1>1, <1>3, <1>4, <1>5, <1>7, <1>11, <1>12, <1>14, <1>16 DEF Build
<1>20. LaidOut(Append(Build(ts, recalled), Message("user", NewMessage)), w, o, l, r)
  <2>1. w \in Nat /\ o \in Nat /\ l \in Nat /\ r \in Nat
    BY <1>6, <1>18
  <2>2. LaidOut(Append((A \o B) \o C, Message("user", NewMessage)), w, o, l, r)
    <3>1. Pair(A, w - 1, o) /\ Memories(B, r) /\ Pair(C, w - 1 + o, l)
      BY <1>13, <1>15, <1>18 DEF Pair, Memories
    <3> QED BY <1>13, <1>15, <1>18, <2>1, <3>1, JoinLaid
  <2> QED BY <1>19, <2>2
<1> QED BY <1>2, <1>6, <1>18, <1>20

\* Places that are an even number apart.
LEMMA PairsApart ==
  ASSUME NEW k \in Nat \ {0}, NEW o \in Nat
  PROVE  Half(2 * o + k) = o + Half(k) /\ Role(2 * o + k) = Role(k)
<1>1. PICK j : j = 2 * o + k
  OBVIOUS
<1>2. j \in Nat \ {0}
  BY <1>1
<1>3. PICK g : g = Half(k)
  OBVIOUS
<1>4. PICK h : h = Half(j)
  OBVIOUS
<1>5. /\ g \in Nat \ {0} /\ (k = 2 * g - 1 \/ k = 2 * g)
      /\ Role(k) = "user" <=> k = 2 * g - 1
      /\ Role(k) = "assistant" <=> k = 2 * g
  BY <1>3, Pairs
<1>6. /\ h \in Nat \ {0} /\ (j = 2 * h - 1 \/ j = 2 * h)
      /\ Role(j) = "user" <=> j = 2 * h - 1
      /\ Role(j) = "assistant" <=> j = 2 * h
  BY <1>2, <1>4, Pairs
<1>7. h = o + g /\ (j = 2 * h - 1 <=> k = 2 * g - 1) /\ (j = 2 * h <=> k = 2 * g)
  BY <1>1, <1>5, <1>6
<1>8. Role(j) = Role(k)
  BY <1>5, <1>6, <1>7
<1> QED BY <1>1, <1>3, <1>4, <1>7, <1>8

\* Where messages of turns are, and how manieth they are of these.
Places(o, l, r) == (1 .. 2 * o) \union (2 * o + r + 1 .. 2 * o + r + 2 * l)
Order(p, o, r) == IF p <= 2 * o THEN p ELSE p - r

\* Each turn has its two messages, in order, and roles go by place.
LEMMA LaidInOrder ==
  ASSUME NEW w \in Nat, NEW o \in Nat, NEW l \in Nat, NEW r \in {0, 2}, NEW m, LaidOut(m, w, o, l, r)
  PROVE  /\ \A p \in Places(o, l, r) :
              LET x == Order(p, o, r) IN
              x \in 1 .. 2 * (o + l) /\ Role(x) = Role(p) /\ m[p] = Message(Role(x), w - 1 + Half(x))
         /\ \A p \in 2 * o + 1 .. 2 * o + r : m[p] = Message(Role(p), Memory)
<1>1. ASSUME NEW p \in 1 .. 2 * o
      PROVE  LET x == Order(p, o, r) IN
             x \in 1 .. 2 * (o + l) /\ Role(x) = Role(p) /\ m[p] = Message(Role(x), w - 1 + Half(x))
  <2>1. Order(p, o, r) = p /\ p \in 1 .. 2 * (o + l)
    BY DEF Order
  <2> QED BY <2>1 DEF LaidOut
<1>2. ASSUME NEW p \in 2 * o + r + 1 .. 2 * o + r + 2 * l
      PROVE  LET x == Order(p, o, r) IN
             x \in 1 .. 2 * (o + l) /\ Role(x) = Role(p) /\ m[p] = Message(Role(x), w - 1 + Half(x))
  <2>1. PICK k \in 1 .. 2 * l : p = 2 * o + r + k
    <3>1. p - 2 * o - r \in 1 .. 2 * l /\ p = 2 * o + r + (p - 2 * o - r)
      OBVIOUS
    <3> QED BY <3>1
  <2>2. PICK x : x = 2 * o + k
    OBVIOUS
  <2>3. Order(p, o, r) = x /\ x \in 1 .. 2 * (o + l)
    BY <2>1, <2>2 DEF Order
  <2>4. Half(x) = o + Half(k) /\ Role(x) = Role(k)
    <3>1. k \in Nat \ {0}
      BY <2>1
    <3> QED BY <2>2, <3>1, PairsApart
  <2>5. PICK s \in Nat : p = 2 * s + k
    <3>1. CASE r = 0
      BY <2>1, <3>1
    <3>2. CASE r = 2
      <4>1. p = 2 * (o + 1) + k /\ o + 1 \in Nat
        BY <2>1, <3>2
      <4> QED BY <4>1
    <3> QED BY <3>1, <3>2
  <2>6. Role(p) = Role(k)
    <3>1. k \in Nat \ {0} /\ s \in Nat
      BY <2>1, <2>5
    <3> QED BY <2>5, <3>1, PairsApart
  <2>7. m[p] = Message(Role(k), w - 1 + o + Half(k))
    BY <2>1 DEF LaidOut
  <2>8. Half(k) \in Nat
    BY <2>1, Pairs
  <2>9. w - 1 + o + Half(k) = w - 1 + (o + Half(k))
    BY <2>8
  <2> QED BY <2>3, <2>4, <2>6, <2>7, <2>9
<1>3. ASSUME NEW p \in 2 * o + 1 .. 2 * o + r PROVE m[p] = Message(Role(p), Memory)
  <2>1. PICK k \in 1 .. r : p = 2 * o + k
    <3>1. p - 2 * o \in 1 .. r /\ p = 2 * o + (p - 2 * o)
      OBVIOUS
    <3> QED BY <3>1
  <2>2. Role(p) = Role(k)
    <3>1. k \in Nat \ {0}
      BY <2>1
    <3> QED BY <2>1, <3>1, PairsApart
  <2> QED BY <2>1, <2>2 DEF LaidOut
<1> QED BY <1>1, <1>2, <1>3 DEF Places

\* A message has its role and its turn.
LEMMA MessageParts ==
  \A s, i : Message(s, i).role = s /\ Message(s, i).of = i
BY DEF Message

\* The place behind pairs is the user's.
LEMMA Even ==
  ASSUME NEW r \in {0, 2}, NEW a \in Nat
  PROVE  Role(2 * a + r + 1) = "user"
<1>1. PICK k : k = 2 * a + r + 1
  OBVIOUS
<1>2. PICK j \in Nat : k = 2 * j + 1
  <2>1. CASE r = 0
    BY <1>1, <2>1
  <2>2. CASE r = 2
    <3>1. k = 2 * (a + 1) + 1 /\ a + 1 \in Nat
      BY <1>1, <2>2
    <3> QED BY <3>1
  <2> QED BY <2>1, <2>2
<1>3. k \in Nat \ {0}
  BY <1>2
<1>4. PICK h : h = Half(k)
  OBVIOUS
<1>5. /\ h \in Nat \ {0} /\ (k = 2 * h - 1 \/ k = 2 * h)
      /\ Role(k) = "user" <=> k = 2 * h - 1
  BY <1>3, <1>4, Pairs
<1>6. k = 2 * h - 1
  BY <1>2, <1>5
<1> QED BY <1>1, <1>5, <1>6

\* A conversation of the turns from w to n.
Tells(m, w, n) ==
  /\ m[Len(m)] = Message("user", NewMessage)
  /\ \A p \in 1 .. Len(m) : (m[p].role = "user") <=> (p % 2 = 1)
  /\ \A i \in TellingTurns(m) : \E s \in Roles, t \in w .. n : m[i] = Message(s, t)
  /\ \A s \in Roles, t \in w .. n : \E i \in TellingTurns(m) : m[i] = Message(s, t)
  /\ \A i, j \in TellingTurns(m) : i < j => m[i].of <= m[j].of /\ m[i] # m[j]
  /\ TellingMemory(m) = {} \/ \E i \in 1 .. Len(m) : TellingMemory(m) = {i, i + 1}
  /\ \A i \in TellingMemory(m), j \in TellingTurns(m) : j < i <=> m[j].of <= n - 2

\* What is laid out so is a conversation,
LEMMA LaidTells ==
  ASSUME NEW n \in Nat, NEW w \in 1 .. n + 1, NEW o \in Nat, NEW l \in 0 .. 2, NEW r \in {0, 2},
         n - w + 1 = o + l, l < 2 => o = 0, NEW m, LaidOut(m, w, o, l, r)
  PROVE  Tells(m, w, n)
<1>2. n - w + 1 = o + l /\ w \in 1 .. n + 1 /\ (l < 2 => o = 0) /\ l \in 0 .. 2 /\ o \in Nat
  OBVIOUS
<1>3. PICK k \in Nat : k = 2 * o + r + 2 * l + 1
  OBVIOUS
<1>4. PICK D : D = Places(o, l, r)
  OBVIOUS
<1>5. PICK Rec : Rec = 2 * o + 1 .. 2 * o + r
  OBVIOUS
<1>6. PICK x \in [D -> 1 .. 2 * (o + l)] : \A p \in D : x[p] = Order(p, o, r)
  <2>1. \A p \in D : Order(p, o, r) \in 1 .. 2 * (o + l)
    BY <1>4, LaidInOrder
  <2>2. [p \in D |-> Order(p, o, r)] \in [D -> 1 .. 2 * (o + l)]
    BY <2>1
  <2> QED BY <2>2
<1>7. PICK h \in [D -> 1 .. o + l] :
        \A p \in D : /\ h[p] = Half(x[p]) /\ (x[p] = 2 * h[p] - 1 \/ x[p] = 2 * h[p])
                     /\ Role(p) = "user" <=> x[p] = 2 * h[p] - 1
                     /\ Role(p) = "assistant" <=> x[p] = 2 * h[p]
  <2>1. \A p \in D : x[p] \in 1 .. 2 * (o + l) /\ Role(x[p]) = Role(p)
    BY <1>4, <1>6, LaidInOrder
  <2>2. ASSUME NEW p \in D
        PROVE  /\ Half(x[p]) \in 1 .. o + l /\ (x[p] = 2 * Half(x[p]) - 1 \/ x[p] = 2 * Half(x[p]))
               /\ Role(p) = "user" <=> x[p] = 2 * Half(x[p]) - 1
               /\ Role(p) = "assistant" <=> x[p] = 2 * Half(x[p])
    <3>1. x[p] \in Nat \ {0} /\ x[p] <= 2 * (o + l) /\ Role(x[p]) = Role(p)
      BY <2>1
    <3>2. /\ Half(x[p]) \in Nat \ {0} /\ (x[p] = 2 * Half(x[p]) - 1 \/ x[p] = 2 * Half(x[p]))
          /\ Role(p) = "user" <=> x[p] = 2 * Half(x[p]) - 1
          /\ Role(p) = "assistant" <=> x[p] = 2 * Half(x[p])
      BY <3>1, Pairs
    <3> QED BY <3>1, <3>2
  <2>3. [p \in D |-> Half(x[p])] \in [D -> 1 .. o + l]
    BY <2>2
  <2> QED BY <2>2, <2>3
<1>8. Len(m) = k /\ DOMAIN m = 1 .. k /\ m[k] = Message("user", NewMessage)
  BY <1>3 DEF LaidOut
<1>9. ASSUME NEW p \in D
      PROVE  m[p] = Message(Role(p), w - 1 + h[p]) /\ m[p].of = w - 1 + h[p] /\ m[p].role = Role(p)
  <2>1. h[p] = Half(x[p]) /\ x[p] = Order(p, o, r)
    BY <1>6, <1>7
  <2>2. p \in Places(o, l, r)
    BY <1>4
  <2>3. Role(x[p]) = Role(p) /\ m[p] = Message(Role(x[p]), w - 1 + Half(x[p]))
    BY <2>1, <2>2, LaidInOrder
  <2>4. m[p] = Message(Role(p), w - 1 + h[p])
    BY <2>1, <2>3
  <2> QED BY <2>4, MessageParts
<1>10. \A p \in Rec : m[p] = Message(Role(p), Memory)
  BY <1>5, LaidInOrder
<1>11. /\ 1 .. k = D \union Rec \union {k}
       /\ D \subseteq Nat \ {0} /\ Rec \subseteq Nat \ {0}
       /\ D \intersect Rec = {} /\ k \notin D /\ k \notin Rec
  <2>1. PICK a \in Nat, b \in Nat, c \in Nat : a = 2 * o /\ b = 2 * o + r /\ c = 2 * o + r + 2 * l
    OBVIOUS
  <2>2. a <= b /\ b <= c /\ k = c + 1 /\ k \in Nat
    BY <1>3, <2>1
  <2>3. \A p : p \in D <=> p \in Nat /\ ((1 <= p /\ p <= a) \/ (b + 1 <= p /\ p <= c))
    BY <1>4, <2>1 DEF Places
  <2>4. \A p : p \in Rec <=> p \in Nat /\ a + 1 <= p /\ p <= b
    BY <1>5, <2>1
  <2>5. \A p : p \in 1 .. k <=> p \in D \/ p \in Rec \/ p = k
    BY <2>1, <2>2, <2>3, <2>4
  <2>6. \A p : p \in D \/ p \in Rec => p \in Nat \ {0} /\ p # k /\ ~(p \in D /\ p \in Rec)
    BY <2>1, <2>2, <2>3, <2>4
  <2> HIDE <2>3, <2>4
  <2> QED BY <2>5, <2>6
<1>12. \A p \in D : m[p].of \in w .. n
  <2> TAKE p \in D
  <2>1. PICK g : g = h[p]
    OBVIOUS
  <2>2. g \in 1 .. o + l
    BY <1>7, <2>1
  <2>3. w - 1 + g \in w .. n
    BY <1>2, <2>2
  <2> QED BY <1>9, <2>1, <2>3
<1>13. \A p \in Rec : m[p].of = Memory /\ m[p].role = Role(p)
  BY <1>10, MessageParts
<1>14. m[k].of = 0 /\ m[k].role = "user"
  BY <1>8, MessageParts DEF NewMessage
<1>15. {p \in 1 .. k : m[p].of \in Nat \ {NewMessage}} = D
  <2>1. \A p \in D : m[p].of \in Nat \ {NewMessage}
    BY <1>2, <1>12 DEF NewMessage
  <2>2. \A p \in Rec : ~(m[p].of \in Nat \ {NewMessage})
    BY <1>13 DEF Memory
  <2>3. ~(m[k].of \in Nat \ {NewMessage})
    BY <1>14 DEF NewMessage
  <2> QED BY <1>11, <2>1, <2>2, <2>3
<1>16. {p \in 1 .. k : m[p].of = Memory} = Rec
  <2>1. \A p \in D : m[p].of # Memory
    BY <1>2, <1>12 DEF Memory
  <2>2. \A p \in Rec : m[p].of = Memory
    BY <1>13
  <2>3. m[k].of # Memory
    BY <1>14 DEF Memory
  <2> QED BY <1>11, <2>1, <2>2, <2>3
<1>17. \A p \in 1 .. k : (m[p].role = "user") <=> (p % 2 = 1)
  <2>1. \A p \in 1 .. k : Role(p) = "user" <=> p % 2 = 1
    BY DEF Role
  <2>2. Role(k) = "user"
    <3>1. PICK a \in Nat : a = o + l
      BY <1>2
    <3>2. k = 2 * a + r + 1
      BY <1>2, <1>3, <3>1
    <3> QED BY <3>1, <3>2, Even
  <2>3. \A p \in 1 .. k : m[p].role = Role(p)
    BY <1>9, <1>11, <1>13, <1>14, <2>2
  <2> QED BY <2>1, <2>3
<1>18. \A p \in D : \E s \in Roles, i \in w .. n : m[p] = Message(s, i)
  <2> TAKE p \in D
  <2>1. Role(p) \in Roles /\ w - 1 + h[p] \in w .. n
    BY <1>9, <1>12 DEF Role, Roles
  <2> QED BY <1>9, <2>1
<1>19. ASSUME NEW s \in Roles, NEW i \in w .. n PROVE \E p \in D : m[p] = Message(s, i)
  <2>1. PICK g : g = i - w + 1
    OBVIOUS
  <2>2. PICK y : y = IF s = "user" THEN 2 * g - 1 ELSE 2 * g
    OBVIOUS
  <2>3. g \in 1 .. o + l /\ y \in 1 .. 2 * (o + l) /\ w - 1 + g = i
    BY <1>2, <2>1, <2>2
  <2>4. PICK p : p = IF y <= 2 * o THEN y ELSE y + r
    OBVIOUS
  <2>5. p \in D /\ Order(p, o, r) = y
    BY <1>4, <2>3, <2>4 DEF Places, Order
  <2>6. x[p] = y /\ h[p] \in Nat
    BY <1>6, <1>7, <2>5
  <2>7. h[p] = g /\ Role(p) = s
    <3>1. /\ y = 2 * h[p] - 1 \/ y = 2 * h[p]
          /\ Role(p) = "user" <=> y = 2 * h[p] - 1
          /\ Role(p) = "assistant" <=> y = 2 * h[p]
      BY <1>7, <2>5, <2>6
    <3>2. CASE s = "user"
      BY <2>2, <2>3, <2>6, <3>1, <3>2
    <3>3. CASE s = "assistant"
      BY <2>2, <2>3, <2>6, <3>1, <3>3
    <3> QED BY <3>2, <3>3 DEF Roles
  <2> QED BY <1>9, <2>3, <2>5, <2>7
<1>20. ASSUME NEW i \in D, NEW j \in D, i < j PROVE m[i].of <= m[j].of /\ m[i] # m[j]
  <2>1. i \in Nat /\ j \in Nat
    BY <1>11
  <2>2. x[i] < x[j]
    BY <1>4, <1>6, <1>20, <2>1 DEF Order, Places
  <2>3. /\ h[i] \in Nat /\ (x[i] = 2 * h[i] - 1 \/ x[i] = 2 * h[i])
        /\ h[j] \in Nat /\ (x[j] = 2 * h[j] - 1 \/ x[j] = 2 * h[j])
    BY <1>7
  <2>4. h[i] <= h[j]
    BY <2>2, <2>3
  <2>5. m[i].of <= m[j].of
    <3>1. m[i].of = w - 1 + h[i] /\ m[j].of = w - 1 + h[j]
      BY <1>9
    <3> QED BY <2>3, <2>4, <3>1
  <2>6. ASSUME m[i] = m[j] PROVE FALSE
    <3>1. w - 1 + h[i] = w - 1 + h[j] /\ Role(i) = Role(j)
      BY <1>9, <2>6
    <3>2. h[i] = h[j]
      BY <2>3, <3>1
    <3>3. x[i] = 2 * h[i] - 1 /\ x[j] = 2 * h[j]
      BY <2>2, <2>3, <3>2
    <3>4. Role(i) = "user" /\ Role(j) = "assistant"
      BY <1>7, <3>3
    <3> QED BY <3>1, <3>4
  <2> QED BY <2>5, <2>6
<1>21. Rec = {} \/ \E i \in 1 .. k : Rec = {i, i + 1}
  <2>1. CASE r = 0
    BY <1>5, <2>1
  <2>2. CASE r = 2
    <3>1. Rec = {2 * o + 1, 2 * o + 1 + 1} /\ 2 * o + 1 \in 1 .. k
      BY <1>3, <1>5, <2>2
    <3> QED BY <3>1
  <2> QED BY <2>1, <2>2
<1>22. ASSUME NEW i \in Rec, NEW j \in D PROVE j < i <=> m[j].of <= n - 2
  <2>1. m[j].of = w - 1 + h[j] /\ h[j] \in 1 .. o + l /\ j \in Nat
    BY <1>7, <1>9, <1>11
  <2>2. j < i <=> j <= 2 * o
    BY <1>4, <1>5 DEF Places
  <2>3. j <= 2 * o <=> x[j] <= 2 * o
    BY <1>4, <1>6 DEF Places, Order
  <2>4. x[j] <= 2 * o <=> h[j] <= o
    BY <1>7, <2>1
  <2>5. h[j] <= o <=> w - 1 + h[j] <= n - 2
    <3>1. PICK g : g = h[j]
      OBVIOUS
    <3>2. g \in 1 .. o + l
      BY <2>1, <3>1
    <3>3. l \in {0, 1, 2}
      BY <1>2
    <3>4. g <= o <=> w - 1 + g <= n - 2
      BY <1>2, <3>2, <3>3
    <3> QED BY <3>1, <3>4
  <2> QED BY <2>1, <2>2, <2>3, <2>4, <2>5
<1>23. D = TellingTurns(m) /\ Rec = TellingMemory(m) /\ k = Len(m)
  BY <1>8, <1>15, <1>16 DEF TellingTurns, TellingMemory
<1> QED
  <2>1. m[Len(m)] = Message("user", NewMessage) /\ \A p \in 1 .. Len(m) : (m[p].role = "user") <=> (p % 2 = 1)
    BY <1>8, <1>17
  <2>2. /\ \A i \in TellingTurns(m) : \E s \in Roles, t \in w .. n : m[i] = Message(s, t)
        /\ \A s \in Roles, t \in w .. n : \E i \in TellingTurns(m) : m[i] = Message(s, t)
    BY <1>18, <1>19, <1>23
  <2>3. \A i, j \in TellingTurns(m) : i < j => m[i].of <= m[j].of /\ m[i] # m[j]
    BY <1>20, <1>23
  <2>4. TellingMemory(m) = {} \/ \E i \in 1 .. Len(m) : TellingMemory(m) = {i, i + 1}
    BY <1>21, <1>23
  <2>5. \A i \in TellingMemory(m), j \in TellingTurns(m) : j < i <=> m[j].of <= n - 2
    BY <1>22, <1>23
  <2> QED BY <2>1, <2>2, <2>3, <2>4, <2>5, Zenon DEF Tells

\* as ToldInOrder means it.
LEMMA TellsConversation ==
  ASSUME NEW ts, NEW w, NEW m, Tells(m, w, Len(ts)), Window(ts) = w .. Len(ts)
  PROVE  Conversation(m, ts)
<1>1. /\ \A i \in TellingTurns(m) : \E s \in Roles, t \in Window(ts) : m[i] = Message(s, t)
      /\ \A s \in Roles, t \in Window(ts) : \E i \in TellingTurns(m) : m[i] = Message(s, t)
  <2>1. \A t : t \in Window(ts) <=> t \in w .. Len(ts)
    OBVIOUS
  <2>2. /\ \A i \in TellingTurns(m) : \E s \in Roles, t \in w .. Len(ts) : m[i] = Message(s, t)
        /\ \A s \in Roles, t \in w .. Len(ts) : \E i \in TellingTurns(m) : m[i] = Message(s, t)
    BY Zenon DEF Tells
  <2> QED BY <2>1, <2>2, Zenon
<1> QED BY <1>1, Zenon DEF Tells, Conversation

\* What the API backend is sent is a conversation.
LEMMA BuildConversation ==
  ASSUME NEW ts, Session(ts), NEW recalled \in BOOLEAN
  PROVE  Conversation(Append(Build(ts, recalled), Message("user", NewMessage)), ts)
<1>1. PICK w \in 1 .. Len(ts) + 1 : GetContextTurns(ts) = From(ts, w) /\ Window(ts) = w .. Len(ts)
  BY WindowIsEnd
<1>2. PICK m : m = Append(Build(ts, recalled), Message("user", NewMessage))
  OBVIOUS
<1>3. PICK o \in Nat, l \in 0 .. 2, r \in {0, 2} :
        Len(ts) - w + 1 = o + l /\ (l < 2 => o = 0) /\ LaidOut(m, w, o, l, r)
  BY <1>1, <1>2, BuildLaid
<1>4. Tells(m, w, Len(ts))
  <2>1. Len(ts) \in Nat
    BY DEF Session
  <2> QED BY <1>1, <1>3, <2>1, LaidTells
<1> QED BY <1>1, <1>2, <1>4, TellsConversation

\* Which turn a place of the history shows, when the text of each ends where e says.
LEMMA TurnOfPlace ==
  ASSUME NEW L \in Nat, NEW e \in [0 .. L -> Nat], e[0] = 1,
         \A i, j \in 0 .. L : i <= j => e[i] <= e[j],
         NEW p \in 2 .. e[L]
  PROVE  LET T == CHOOSE i \in 1 .. L : e[i - 1] < p /\ p <= e[i] IN
         T \in 1 .. L /\ e[T - 1] < p /\ p <= e[T]
<1> DEFINE S == {i \in 0 .. L : p <= e[i]}
<1>1. L \in S /\ S \subseteq Nat
  OBVIOUS
<1>2. PICK m \in S : \A k \in S : m <= k
  BY <1>1, NatMin
<1>3. m \in 1 .. L /\ m - 1 \in 0 .. L /\ m - 1 \notin S
  BY <1>2
<1>4. e[m - 1] < p /\ p <= e[m]
  BY <1>2, <1>3
<1> HIDE DEF S
<1> QED BY <1>3, <1>4

\* Where texts end.
Ending(e, L) ==
  e \in [0 .. L -> Nat] /\ e[0] = 1 /\ \A i, j \in 0 .. L : i <= j => e[i] <= e[j]

\* A text of N places that shows turns behind a, T[p] of them up to place p.
Shows(s, T, e, N, a, L) ==
  /\ DOMAIN s = 1 .. N
  /\ \A p \in 1 .. N : s[p] = IF p = 1 THEN 0 ELSE a + T[p]
  /\ \A p \in 2 .. N : T[p] \in 1 .. L /\ e[T[p] - 1] < p /\ p <= e[T[p]]

\* Places in order show turns in order.
LEMMA ShownOnce ==
  ASSUME NEW L \in Nat, NEW e, Ending(e, L), NEW b \in 1 .. L, NEW c \in 1 .. L, NEW p \in Nat, NEW q \in Nat,
         e[b - 1] < p, p <= e[b], e[c - 1] < q, q <= e[c]
  PROVE  (p <= q => b <= c) /\ (b < c => e[b] < q) /\ 1 <= e[b - 1]
<1>1. b \in 0 .. L /\ c \in 0 .. L /\ b - 1 \in 0 .. L /\ c - 1 \in 0 .. L /\ 0 \in 0 .. L
  OBVIOUS
<1>2. e[b] \in Nat /\ e[c] \in Nat /\ e[b - 1] \in Nat /\ e[c - 1] \in Nat
  BY <1>1 DEF Ending
<1>3. c < b => e[c] <= e[b - 1]
  BY <1>1 DEF Ending
<1>4. b < c => e[b] <= e[c - 1]
  BY <1>1 DEF Ending
<1>5. e[0] = 1 /\ e[0] <= e[b - 1]
  BY <1>1 DEF Ending
<1> QED BY <1>2, <1>3, <1>4, <1>5

\* So the text shows its turns in order, the heading first.
LEMMA ShownInOrder ==
  ASSUME NEW L \in Nat, NEW a \in Nat, NEW N \in Nat, NEW e, Ending(e, L), NEW T, NEW s, Shows(s, T, e, N, a, L)
  PROVE  /\ \A p \in 2 .. N : s[p] = a + T[p] /\ T[p] \in 1 .. L
         /\ \A i, j \in 1 .. N : i < j => s[i] <= s[j]
<1>1. \A p \in 2 .. N : s[p] = a + T[p] /\ T[p] \in 1 .. L
  BY DEF Shows
<1>2. ASSUME NEW i \in 1 .. N, NEW j \in 1 .. N, i < j PROVE s[i] <= s[j]
  <2>1. PICK c : c = T[j]
    OBVIOUS
  <2>2. j \in 2 .. N
    BY <1>2
  <2>3. s[j] = a + c /\ c \in 1 .. L /\ e[c - 1] < j /\ j <= e[c]
    BY <2>1, <2>2 DEF Shows
  <2>4. CASE i = 1
    <3>1. s[1] = 0
      BY <2>4 DEF Shows
    <3> QED BY <2>3, <2>4, <3>1
  <2>5. CASE i # 1
    <3>1. PICK b : b = T[i]
      OBVIOUS
    <3>2. i \in 2 .. N
      BY <2>5
    <3>3. s[i] = a + b /\ b \in 1 .. L /\ e[b - 1] < i /\ i <= e[b]
      BY <3>1, <3>2 DEF Shows
    <3>4. i \in Nat /\ j \in Nat /\ i <= j
      BY <1>2
    <3>5. b <= c
      BY <2>3, <3>3, <3>4, ShownOnce
    <3> QED BY <2>3, <3>3, <3>5
  <2> QED BY <2>4, <2>5
<1> QED BY <1>1, <1>2

\* Where a turn is shown that another one follows.
LEMMA ShownWhole ==
  ASSUME NEW L \in Nat, NEW a \in Nat, NEW N \in Nat, NEW e, Ending(e, L), NEW T, NEW s, Shows(s, T, e, N, a, L),
         NEW p \in 2 .. N, NEW q \in 2 .. N, s[p] < s[q]
  PROVE  LET b == T[p] IN
         /\ e[b - 1] \in 1 .. N
         /\ {i \in 1 .. N : s[i] = s[p]} = e[b - 1] + 1 .. e[b]
<1>1. PICK b : b = T[p]
  OBVIOUS
<1>2. PICK c : c = T[q]
  OBVIOUS
<1>3. s[p] = a + b /\ b \in 1 .. L /\ e[b - 1] < p /\ p <= e[b]
  BY <1>1 DEF Shows
<1>4. s[q] = a + c /\ c \in 1 .. L /\ e[c - 1] < q /\ q <= e[c]
  BY <1>2 DEF Shows
<1>5. b < c /\ p \in Nat /\ q \in Nat
  BY <1>3, <1>4
<1>6. e[b] < q /\ 1 <= e[b - 1]
  BY <1>3, <1>4, <1>5, ShownOnce
<1>7. PICK f \in Nat, g \in Nat : f = e[b - 1] /\ g = e[b]
  <2>1. b - 1 \in 0 .. L /\ b \in 0 .. L
    BY <1>3
  <2>2. e[b - 1] \in Nat /\ e[b] \in Nat
    BY <2>1 DEF Ending
  <2> QED BY <2>2
<1>8. 1 <= f /\ f < p /\ p <= g /\ g < q
  BY <1>3, <1>6, <1>7
<1>9. f \in 1 .. N /\ g <= N
  BY <1>7, <1>8
<1>10. ASSUME NEW i \in 1 .. N PROVE s[i] = s[p] <=> i \in f + 1 .. g
  <2>1. CASE i = 1
    <3>1. s[1] = 0
      BY <2>1 DEF Shows
    <3>2. s[p] # 0
      BY <1>3
    <3> QED BY <1>7, <1>8, <2>1, <3>1, <3>2
  <2>2. CASE i # 1
    <3>1. PICK d : d = T[i]
      OBVIOUS
    <3>2. i \in 2 .. N /\ i \in Nat
      BY <2>2
    <3>3. s[i] = a + d /\ d \in 1 .. L /\ e[d - 1] < i /\ i <= e[d]
      BY <3>1, <3>2 DEF Shows
    <3>4. s[i] = s[p] <=> d = b
      BY <1>3, <3>3
    <3>5. b < d => g < i
      BY <1>3, <1>5, <1>7, <3>2, <3>3, ShownOnce
    <3>6. d < b => i <= f
      <4>1. d < b => e[d] <= e[b - 1]
        <5>1. d \in 0 .. L /\ b - 1 \in 0 .. L /\ (d < b => d <= b - 1)
          BY <1>3, <3>3
        <5> QED BY <5>1 DEF Ending
      <4>2. e[d] \in Nat
        <5>1. d \in 0 .. L
          BY <3>3
        <5> QED BY <5>1 DEF Ending
      <4> QED BY <1>7, <3>2, <3>3, <4>1, <4>2
    <3>7. d = b => f < i /\ i <= g
      BY <1>7, <3>3
    <3>8. b \in Nat /\ d \in Nat
      BY <1>3, <3>3
    <3> QED BY <1>7, <3>2, <3>4, <3>5, <3>6, <3>7, <3>8
  <2> QED BY <2>1, <2>2
<1>11. f + 1 .. g \subseteq 1 .. N
  BY <1>7, <1>9
<1>12. {i \in 1 .. N : s[i] = s[p]} = f + 1 .. g
  BY <1>10, <1>11
<1> QED BY <1>1, <1>7, <1>9, <1>12

\* Turns behind a of the window, and where their texts end.
InWindow(ts, e, a, L) ==
  a + 1 .. a + L \subseteq Window(ts) /\ \A b \in 1 .. L : e[b] = e[b - 1] + Shown(ts[a + b])

\* Such a text is a history, when it is short enough and its turns are in the window.
LEMMA ShowsHistory ==
  ASSUME NEW ts, NEW L \in Nat, NEW a \in Nat, NEW N \in Nat, NEW e, Ending(e, L), NEW T, NEW s,
         Shows(s, T, e, N, a, L), Len(s) <= MaxAppendBytes, InWindow(ts, e, a, L)
  PROVE  History(s, ts)
<1>1. DOMAIN s = 1 .. N
  BY DEF Shows
<1>2. PICK numbers : numbers = {s[i] : i \in DOMAIN s} \ {0}
  OBVIOUS
<1>3. ASSUME NEW t \in numbers PROVE \E p \in 2 .. N : t = s[p]
  <2>1. PICK p \in 1 .. N : t = s[p] /\ t # 0
    BY <1>1, <1>2
  <2>2. p # 1
    BY <2>1 DEF Shows
  <2> QED BY <2>1, <2>2
<1>4. numbers \subseteq Window(ts)
  <2> SUFFICES ASSUME NEW t \in numbers PROVE t \in Window(ts)
    OBVIOUS
  <2>1. PICK p \in 2 .. N : t = s[p]
    BY <1>3
  <2>2. t = a + T[p] /\ T[p] \in 1 .. L
    BY <2>1, ShownInOrder
  <2>3. t \in a + 1 .. a + L
    BY <2>2
  <2> QED BY <2>3 DEF InWindow
<1>5. \A i, j \in DOMAIN s : i < j => s[i] <= s[j]
  BY <1>1, ShownInOrder
<1>6. ASSUME NEW t \in numbers, NEW u \in numbers, t < u
      PROVE  \E k \in DOMAIN s : {i \in DOMAIN s : s[i] = t} = k + 1 .. k + Shown(ts[t])
  <2>1. PICK p \in 2 .. N : t = s[p]
    BY <1>3
  <2>2. PICK q \in 2 .. N : u = s[q]
    BY <1>3
  <2>3. PICK b : b = T[p]
    OBVIOUS
  <2>4. t = a + b /\ b \in 1 .. L
    BY <2>1, <2>3, ShownInOrder
  <2>5. s[p] < s[q]
    BY <1>6, <2>1, <2>2
  <2>6. e[b - 1] \in 1 .. N /\ {i \in 1 .. N : s[i] = s[p]} = e[b - 1] + 1 .. e[b]
    BY <2>3, <2>5, ShownWhole
  <2>7. PICK k : k = e[b - 1]
    OBVIOUS
  <2>8. e[b] = k + Shown(ts[t])
    BY <2>4, <2>7 DEF InWindow
  <2>9. {i \in 1 .. N : s[i] = t} = k + 1 .. k + Shown(ts[t])
    BY <2>1, <2>6, <2>7, <2>8
  <2> QED BY <1>1, <2>6, <2>7, <2>9
<1> QED BY <1>2, <1>4, <1>5, <1>6 DEF History

\* The places of what buildAppendContext makes of turns.
LEMMA AppendShows ==
  ASSUME NEW x \in Seq(Turn), x # <<>>, NEW a \in Nat, NEW L \in Nat, L = Least(MaxHistoryTurns, Len(x)),
         NEW rec \in Seq(Turn), rec = LastOf(x, MaxHistoryTurns), Len(rec) = L,
         \A k \in 1 .. L : rec[k].n = a + k
  PROVE  \E N \in Nat : \E T :
           /\ Shows(BuildAppendContext(x), T, Ends(rec), N, a, L)
           /\ Len(BuildAppendContext(x)) <= MaxAppendBytes
<1>1. PICK e : e = Ends(rec)
  OBVIOUS
<1>2. e \in [0 .. L -> Nat] /\ e[0] = 1 /\ \A i, j \in 0 .. L : i <= j => e[i] <= e[j]
  BY <1>1, EndsRise
<1>3. e[L] \in Nat
  BY <1>2
<1>4. PICK N : N = Least(e[L], MaxAppendBytes)
  OBVIOUS
<1>5. N \in Nat /\ N <= e[L] /\ N <= MaxAppendBytes
  BY <1>3, <1>4, PromptAssumption DEF Least
<1>6. DOMAIN rec = 1 .. L
  OBVIOUS
<1>7. PICK T : T = [p \in 2 .. N |-> CHOOSE i \in 1 .. L : e[i - 1] < p /\ p <= e[i]]
  OBVIOUS
<1>8. \A p \in 2 .. N : T[p] \in 1 .. L /\ e[T[p] - 1] < p /\ p <= e[T[p]]
  <2> TAKE p \in 2 .. N
  <2>1. p \in 2 .. e[L]
    BY <1>3, <1>5
  <2>2. T[p] = CHOOSE i \in 1 .. L : e[i - 1] < p /\ p <= e[i]
    BY <1>7
  <2>3. PICK t : t = CHOOSE i \in 1 .. L : e[i - 1] < p /\ p <= e[i]
    OBVIOUS
  <2>4. t \in 1 .. L /\ e[t - 1] < p /\ p <= e[t]
    BY <1>2, <2>1, <2>3, TurnOfPlace
  <2> QED BY <2>2, <2>3, <2>4
<1>9. PICK s : s = [p \in 1 .. N |-> IF p = 1 THEN 0
                       ELSE rec[CHOOSE i \in 1 .. L : e[i - 1] < p /\ p <= e[i]].n]
  OBVIOUS
<1>10. BuildAppendContext(x) = s
  BY <1>1, <1>4, <1>6, <1>9 DEF BuildAppendContext
<1>11. \A p \in 1 .. N : s[p] = IF p = 1 THEN 0 ELSE a + T[p]
  <2> TAKE p \in 1 .. N
  <2>1. CASE p = 1
    BY <1>9, <2>1
  <2>2. CASE p # 1
    <3>1. p \in 2 .. N
      BY <1>5, <2>2
    <3>2. s[p] = rec[T[p]].n
      BY <1>7, <1>9, <2>2, <3>1
    <3> QED BY <1>8, <2>2, <3>1, <3>2
  <2> QED BY <2>1, <2>2
<1>12. DOMAIN s = 1 .. N /\ Len(s) = N
  BY <1>5, <1>9
<1>13. Shows(s, T, e, N, a, L)
  BY <1>8, <1>11, <1>12 DEF Shows
<1> QED BY <1>1, <1>5, <1>10, <1>12, <1>13

\* What the CLI backend is told is a history.
LEMMA AppendHistory ==
  ASSUME NEW ts, Session(ts)
  PROVE  History(BuildAppendContext(GetContextTurns(ts)), ts)
<1>1. PICK w \in 1 .. Len(ts) + 1 : GetContextTurns(ts) = From(ts, w) /\ Window(ts) = w .. Len(ts)
  BY WindowIsEnd
<1>2. PICK x : x = From(ts, w)
  OBVIOUS
<1>3. PICK n \in Nat : n = Len(ts)
  BY DEF Session
<1>4. PICK c \in Nat : c = n - w + 1
  BY <1>1, <1>3
<1>5. x \in Seq(Turn) /\ Len(x) = c /\ \A k \in 1 .. c : x[k] = ts[w - 1 + k] /\ x[k].n = w - 1 + k
  <2>1. /\ x \in Seq(Turn) /\ Len(x) = Len(ts) - w + 1
        /\ \A k \in 1 .. Len(ts) - w + 1 : x[k] = ts[w - 1 + k] /\ x[k].n = w - 1 + k
    BY <1>1, <1>2, SliceOfSession
  <2>2. Len(ts) - w + 1 = c
    BY <1>3, <1>4
  <2> QED BY <2>1, <2>2
<1>6. CASE x = <<>>
  <2>1. BuildAppendContext(x) = <<>>
    BY <1>6 DEF BuildAppendContext
  <2>2. History(<<>>, ts)
    BY PromptAssumption DEF History
  <2> QED BY <1>1, <1>2, <2>1, <2>2
<1>7. CASE x # <<>>
  <2>1. PICK L : L = Least(MaxHistoryTurns, c)
    OBVIOUS
  <2>2. L \in Nat /\ L <= c
    BY <1>4, <2>1, PromptAssumption DEF Least
  <2>3. PICK rec : rec = SubSeq(x, c - L + 1, c)
    OBVIOUS
  <2>4. rec = LastOf(x, MaxHistoryTurns)
    BY <1>5, <2>1, <2>3 DEF LastOf, From
  <2>5. rec \in Seq(Turn) /\ Len(rec) = L /\ \A k \in 1 .. L : rec[k] = x[c - L + k]
    <3>1. PICK d : d = c - L + 1
      OBVIOUS
    <3>2. d \in 1 .. c + 1 /\ c \in d - 1 .. c /\ c - d + 1 = L
      BY <1>4, <2>2, <3>1
    <3>3. /\ rec \in Seq(Turn) /\ Len(rec) = c - d + 1
          /\ \A k \in 1 .. c - d + 1 : rec[k] = x[d + k - 1]
      BY <1>5, <2>3, <3>1, <3>2, Slice
    <3>4. \A k \in 1 .. L : d + k - 1 = c - L + k
      BY <1>4, <2>2, <3>1
    <3> QED BY <3>2, <3>3, <3>4
  <2>6. PICK a : a = n - L
    OBVIOUS
  <2>7. a \in Nat /\ w <= a + 1 /\ a + L = n
    BY <1>1, <1>3, <1>4, <2>2, <2>6
  <2>8. \A k \in 1 .. L : rec[k] = ts[a + k] /\ rec[k].n = a + k
    <3> TAKE k \in 1 .. L
    <3>1. c - L + k \in 1 .. c /\ w - 1 + (c - L + k) = a + k
      BY <1>1, <1>3, <1>4, <2>2, <2>6
    <3> QED BY <1>5, <2>5, <3>1
  <2>9. PICK s : s = BuildAppendContext(x)
    OBVIOUS
  <2>10. PICK e : e = Ends(rec)
    OBVIOUS
  <2>11. PICK N \in Nat : \E T : Shows(s, T, e, N, a, L) /\ Len(s) <= MaxAppendBytes
    <3>1. L = Least(MaxHistoryTurns, Len(x)) /\ \A k \in 1 .. L : rec[k].n = a + k
      BY <1>5, <2>1, <2>8
    <3> QED BY <1>5, <1>7, <2>2, <2>4, <2>5, <2>7, <2>9, <2>10, <3>1, AppendShows
  <2>12. Ending(e, L) /\ \A b \in 1 .. L : e[b] = e[b - 1] + Shown(ts[a + b])
    <3>1. /\ e \in [0 .. L -> Nat] /\ e[0] = 1
          /\ \A i \in 1 .. L : e[i] = e[i - 1] + Shown(rec[i])
          /\ \A i, j \in 0 .. L : i <= j => e[i] <= e[j]
      BY <2>5, <2>10, EndsRise
    <3> QED BY <2>8, <3>1 DEF Ending
  <2>13. a + 1 .. a + L \subseteq Window(ts)
    BY <1>1, <1>3, <2>7
  <2>14. History(s, ts)
    <3>1. PICK T : Shows(s, T, e, N, a, L) /\ Len(s) <= MaxAppendBytes
      BY <2>11
    <3>2. InWindow(ts, e, a, L)
      BY <2>12, <2>13 DEF InWindow
    <3> QED BY <2>2, <2>7, <2>11, <2>12, <3>1, <3>2, ShowsHistory
  <2> QED BY <1>1, <1>2, <2>9, <2>14
<1> QED BY <1>6, <1>7

\* What was told of the turns there were then, by one of the backends.
ToldTo(h) ==
  LET ts == SubSeq(turns, 1, request[h].turns) IN
  IF backend = "api" THEN Conversation(request[h].messages, ts)
                     ELSE History(request[h].appended, ts)

\* Types, and that what was sent was sent of turns the session still begins with.
PromptInv ==
  /\ backend \in {"api", "cli"} /\ Session(turns)
  /\ step \in [Handlers -> {"idle", "search", "build", "call"}] /\ recall \in [Handlers -> BOOLEAN]
  /\ DOMAIN request = Handlers
  /\ \A h \in Handlers : step[h] = "call" => request[h].turns \in 0 .. Len(turns) /\ ToldTo(h)

\* The turns that were there stay as they are.
LEMMA EarlierTurns ==
  ASSUME NEW ts \in Seq(Turn), NEW t, NEW k \in 0 .. Len(ts)
  PROVE  SubSeq(Append(ts, t), 1, k) = SubSeq(ts, 1, k) /\ SubSeq(ts, 1, Len(ts)) = ts
OBVIOUS

\* Nothing is sent at first.
LEMMA InitPrompt == PromptInit => PromptInv
<1> SUFFICES ASSUME PromptInit PROVE PromptInv
  OBVIOUS
<1>1. Session(turns)
  BY DEF PromptInit, Session
<1>2. \A h \in Handlers : step[h] = "idle"
  BY DEF PromptInit
<1> QED BY <1>1, <1>2 DEF PromptInit, PromptInv

\* A step that changes neither turns nor backend and sends nothing new.
LEMMA NothingSent ==
  ASSUME PromptInv, backend' = backend, turns' = turns,
         step' \in [Handlers -> {"idle", "search", "build", "call"}], recall' \in [Handlers -> BOOLEAN],
         DOMAIN request' = Handlers,
         \A h \in Handlers : step'[h] = "call" => step[h] = "call" /\ request'[h] = request[h]
  PROVE  PromptInv'
<1>1. \A h \in Handlers : step'[h] = "call" => request'[h].turns \in 0 .. Len(turns') /\ ToldTo(h)'
  <2> TAKE h \in Handlers
  <2> HAVE step'[h] = "call"
  <2>1. request'[h] = request[h] /\ request[h].turns \in 0 .. Len(turns) /\ ToldTo(h)
    BY DEF PromptInv
  <2> QED BY <2>1 DEF ToldTo
<1> QED BY <1>1 DEF PromptInv, Session

\* A request is sent to the backend.
LEMMA RequestSent ==
  ASSUME PromptInv, NEW h \in Handlers, NEW r, request' = [request EXCEPT ![h] = r],
         backend' = backend, turns' = turns, recall' = recall, Goes(h, "call"), r.turns = Len(turns),
         backend = "api" => Conversation(r.messages, turns),
         backend = "cli" => History(r.appended, turns)
  PROVE  PromptInv'
<1>1. DOMAIN request = Handlers /\ turns \in Seq(Turn) /\ Len(turns) \in Nat
  BY DEF PromptInv, Session
<1>2. ASSUME NEW g \in Handlers, step'[g] = "call" PROVE request'[g].turns \in 0 .. Len(turns') /\ ToldTo(g)'
  <2>1. CASE g = h
    <3>1. request'[g] = r
      BY <1>1, <2>1
    <3>2. SubSeq(turns', 1, request'[g].turns) = turns
      <4>1. Len(turns) \in 0 .. Len(turns)
        BY <1>1
      <4>2. SubSeq(turns, 1, Len(turns)) = turns
        BY <1>1, <4>1, EarlierTurns
      <4> QED BY <3>1, <4>2
    <3>3. backend \in {"api", "cli"}
      BY DEF PromptInv
    <3>4. request'[g].turns \in 0 .. Len(turns')
      BY <1>1, <3>1
    <3> QED BY <3>1, <3>2, <3>3, <3>4 DEF ToldTo
  <2>2. CASE g # h
    <3>1. request'[g] = request[g]
      BY <1>1, <2>2
    <3>2. step[g] = "call"
      BY <1>2, <2>2 DEF PromptInv, Goes
    <3>3. request[g].turns \in 0 .. Len(turns) /\ ToldTo(g)
      BY <3>2 DEF PromptInv
    <3> QED BY <3>1, <3>3 DEF ToldTo
  <2> QED BY <2>1, <2>2
<1>3. step' \in [Handlers -> {"idle", "search", "build", "call"}]
  BY DEF PromptInv, Goes
<1>4. DOMAIN request' = Handlers
  BY <1>1
<1> QED BY <1>2, <1>3, <1>4 DEF PromptInv, Session

\* The API backend is sent a conversation of the turns there are.
LEMMA APIStep ==
  ASSUME PromptInv, NEW h \in Handlers, HandleAPI(h)
  PROVE  PromptInv'
<1>1. Session(turns) /\ recall[h] \in BOOLEAN
  BY DEF PromptInv
<1>2. PICK m : m = Append(Build(turns, recall[h]), Message("user", NewMessage))
  OBVIOUS
<1>3. Conversation(m, turns)
  BY <1>1, <1>2, BuildConversation
<1>4. PICK r : r = Request(m, <<>>)
  OBVIOUS
<1>5. r.turns = Len(turns) /\ r.messages = m
  BY <1>4 DEF Request
<1>6. /\ request' = [request EXCEPT ![h] = r] /\ backend' = backend /\ turns' = turns /\ recall' = recall
      /\ Goes(h, "call") /\ backend = "api"
  BY <1>2, <1>4 DEF HandleAPI
<1> QED BY <1>3, <1>5, <1>6, RequestSent

\* The CLI backend is sent a history of the turns there are.
LEMMA CLIStep ==
  ASSUME PromptInv, NEW h \in Handlers, HandleCLI(h)
  PROVE  PromptInv'
<1>1. Session(turns)
  BY DEF PromptInv
<1>2. PICK s : s = BuildAppendContext(GetContextTurns(turns))
  OBVIOUS
<1>3. History(s, turns)
  BY <1>1, <1>2, AppendHistory
<1>4. PICK r : r = Request(<<>>, s)
  OBVIOUS
<1>5. r.turns = Len(turns) /\ r.appended = s
  BY <1>4 DEF Request
<1>6. /\ request' = [request EXCEPT ![h] = r] /\ backend' = backend /\ turns' = turns /\ recall' = recall
      /\ Goes(h, "call") /\ backend = "cli"
  BY <1>2, <1>4 DEF HandleCLI
<1> QED BY <1>3, <1>5, <1>6, RequestSent

\* Another handler's turn is recorded: what was told is told of the turns there were.
LEMMA AnsweredStep ==
  ASSUME PromptInv, NEW h \in Handlers, Answered(h)
  PROVE  PromptInv'
<1>1. PICK t \in Turn : turns' = Append(turns, t) /\ t.n = Len(turns) + 1
  <2>1. PICK u \in Lengths, a \in Lengths :
          turns' = Append(turns, [n |-> Len(turns) + 1, user |-> u, assistant |-> a])
    BY DEF Answered
  <2>2. u \in Nat /\ a \in Nat /\ Len(turns) + 1 \in Nat
    BY PromptAssumption DEF PromptInv, Session
  <2>3. [n |-> Len(turns) + 1, user |-> u, assistant |-> a] \in Turn
    BY <2>2 DEF Turn
  <2> QED BY <2>1, <2>3
<1>2. turns \in Seq(Turn) /\ Len(turns) \in Nat /\ \A i \in 1 .. Len(turns) : turns[i].n = i
  BY DEF PromptInv, Session
<1>3. /\ turns' \in Seq(Turn) /\ Len(turns') = Len(turns) + 1
      /\ turns'[Len(turns) + 1] = t /\ \A i \in 1 .. Len(turns) : turns'[i] = turns[i]
  BY <1>1, <1>2
<1>4. Session(turns')
  BY <1>1, <1>2, <1>3 DEF Session
<1>5. DOMAIN request = Handlers /\ backend' = backend
  BY DEF PromptInv, Answered
<1>6. ASSUME NEW g \in Handlers, step'[g] = "call" PROVE request'[g].turns \in 0 .. Len(turns') /\ ToldTo(g)'
  <2>1. g # h /\ step[g] = "call"
    BY <1>6 DEF PromptInv, Goes, Answered
  <2>2. request'[g] = request[g]
    BY <1>5, <2>1 DEF Answered
  <2>3. request[g].turns \in 0 .. Len(turns) /\ ToldTo(g)
    BY <2>1 DEF PromptInv
  <2>4. SubSeq(turns', 1, request'[g].turns) = SubSeq(turns, 1, request[g].turns)
    BY <1>1, <1>2, <2>2, <2>3, EarlierTurns
  <2>5. request'[g].turns \in 0 .. Len(turns')
    BY <1>2, <1>3, <2>2, <2>3
  <2> QED BY <1>5, <2>2, <2>3, <2>4, <2>5 DEF ToldTo
<1>7. step' \in [Handlers -> {"idle", "search", "build", "call"}] /\ recall' \in [Handlers -> BOOLEAN]
  BY DEF PromptInv, Goes, Answered
<1>8. DOMAIN request' = Handlers /\ backend' \in {"api", "cli"}
  BY <1>5 DEF PromptInv, Answered
<1> QED BY <1>4, <1>6, <1>7, <1>8 DEF PromptInv

\* Steps that send nothing.
LEMMA OtherPromptStep ==
  ASSUME PromptInv, NEW h \in Handlers, Arrive(h) \/ BuildColdContext(h) \/ Fails(h)
  PROVE  PromptInv'
<1>1. /\ step \in [Handlers -> {"idle", "search", "build", "call"}] /\ recall \in [Handlers -> BOOLEAN]
      /\ DOMAIN request = Handlers
  BY DEF PromptInv
<1>2. backend' = backend /\ turns' = turns
  BY DEF Arrive, BuildColdContext, Fails
<1>3. /\ step' \in [Handlers -> {"idle", "search", "build", "call"}] /\ recall' \in [Handlers -> BOOLEAN]
      /\ DOMAIN request' = Handlers
  BY <1>1 DEF Arrive, BuildColdContext, Fails, Goes
<1>4. \A g \in Handlers : step'[g] = "call" => step[g] = "call" /\ request'[g] = request[g]
  BY <1>1 DEF Arrive, BuildColdContext, Fails, Goes
<1> QED BY <1>2, <1>3, <1>4, NothingSent

\* Whatever other handlers add meanwhile, the API backend is sent a conversation of the
\* longest end of the session within both limits, and the CLI backend a history of it that
\* fits the command line (ContextAssembler.Build, handleAPI, buildAppendContext, handleCLI).
THEOREM ToldRight == PromptSpec => []ToldInOrder
<1>1. ASSUME PromptInv, UNCHANGED <<backend, turns, step, recall, request>> PROVE PromptInv'
  <2>1. /\ step \in [Handlers -> {"idle", "search", "build", "call"}] /\ recall \in [Handlers -> BOOLEAN]
        /\ DOMAIN request = Handlers
    BY <1>1 DEF PromptInv
  <2> QED BY <1>1, <2>1, NothingSent
<1>2. PromptInv /\ [PromptNext]_promptVars => PromptInv'
  BY <1>1, APIStep, CLIStep, AnsweredStep, OtherPromptStep DEF PromptNext, TimePasses, promptVars
<1>3. PromptInv => ToldInOrder
  BY DEF PromptInv, ToldInOrder, ToldTo
<1> QED BY <1>2, <1>3, InitPrompt, PTL DEF PromptSpec
=============================================================================
