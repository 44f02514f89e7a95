--------------------------- MODULE BackupsProofs ---------------------------
(***************************************************************************)
(* Proofs about Backups, for any set of threads, any number of archives to  *)
(* keep, any run of the clock and any number of failures.                  *)
(***************************************************************************)
EXTENDS Backups, SequenceTheorems, WellFoundedInduction, TLAPS

\* Where a thread may be, and where it holds the lock of the exports.
Places == {"idle", "mkdir", "collect", "zip1", "writing1", "zip2", "writing2",
           "upload", "list", "valid", "check", "delete"}
Exporting == {"mkdir", "collect", "zip1", "writing1", "zip2", "writing2"}
Archive == [name : 1..MaxSecond, state : {"torn", "valid"}]

\* The archives lie in the order of their names, which are those of past seconds.
Sorted(files) == \A i, j \in DOMAIN files : i < j => files[i].name < files[j].name
DirOK == Sorted(dir) /\ \A n \in Names(dir) : n <= second

\* One export at a time, and it writes the newest archive.
ExportOK(t) ==
    at[t] \in Exporting =>
        /\ backupLock = t
        /\ name[t] \in 1..second
        /\ \A n \in Names(dir) : n <= name[t]

\* No export will write an archive of that name any more.
Past(n) == n < second /\ \A w \in Thread : at[w] \in Exporting => n < name[w]

\* A list is in the order of its names, and no export writes an older one.
ListOK(t) ==
    at[t] = "valid" =>
        /\ \A i, j \in DOMAIN listed[t] : i < j => listed[t][i] < listed[t][j]
        /\ \A n \in ToSet(listed[t]) :
              /\ n <= second
              /\ \A w \in Thread : at[w] \in Exporting => n <= name[w]

\* The excuse of a prune: what it judged valid is no newer than an archive that was
\* passed over although valid, or rewritten while it was all that a prune had.
Excused(t) == \E m \in rewritten \cup unread : m >= judged[t]

\* What a prune has doomed is past, is not what it judged the latest valid and, if
\* newer than that, not valid or passed over.  And an excuse aside, nothing valid is
\* doomed, or there is a valid archive that is not and that is old enough to rely on.
DoomOK(t) ==
    at[t] \in {"check", "delete"} =>
        /\ \A n \in doomed[t] :
              Past(n) /\ n # judged[t] /\ (n > judged[t] => n \notin Valid \/ n \in unread)
        /\ \/ Excused(t)
           \/ doomed[t] \cap Valid = {}
           \/ \E m \in Valid : m >= judged[t] /\ m \notin doomed[t]

BackupInv ==
    /\ BackupTypeOK /\ DirOK
    /\ \A t \in Thread : ExportOK(t)
    /\ \A t \in Thread : ListOK(t)
    /\ \A t \in Thread : DoomOK(t)

\* Sorted archives have names of their own, so one of them goes.
LEMMA WithoutOne ==
  ASSUME BackupsAssumption, NEW files \in Seq(Archive), Sorted(files), NEW n
  PROVE  /\ Without(files, n) \in Seq(Archive)
         /\ Sorted(Without(files, n))
         /\ ToSet(Without(files, n)) = {d \in ToSet(files) : d.name # n}
<1> DEFINE len == Len(files)
<1>1. len \in Nat /\ DOMAIN files = 1..len /\ \A i \in 1..len : files[i] \in Archive /\ files[i].name \in Int
  <2>1. len \in Nat /\ DOMAIN files = 1..len /\ \A i \in 1..len : files[i] \in Archive
    OBVIOUS
  <2>2. \A d \in Archive : d.name \in 1..MaxSecond
    BY DEF Archive
  <2>3. 1..MaxSecond \subseteq Int
    BY DEF BackupsAssumption
  <2> QED
    BY <2>1, <2>2, <2>3
<1> HIDE DEF len
<1>2. CASE ~ \E i \in 1..len : files[i].name = n
  <2>1. Without(files, n) = files
    BY <1>2 DEF Without, RemoveFirstMatch, len
  <2>2. \A d \in ToSet(files) : d.name # n
    BY <1>1, <1>2 DEF ToSet
  <2> QED
    BY <2>1, <2>2
<1>3. CASE \E i \in 1..len : files[i].name = n
  <2>1. PICK i \in 1..len : files[i].name = n
    BY <1>3
  <2>2. {j \in 1..len : files[j].name = n} = {i}
    <3>1. ASSUME NEW j \in 1..len, files[j].name = n PROVE j = i
      <4>1. i \in Int /\ j \in Int /\ (i < j \/ j < i \/ i = j)
        BY <1>1
      <4>2. ~(i < j) /\ ~(j < i)
        BY <1>1, <2>1, <3>1 DEF Sorted
      <4> QED
        BY <4>1, <4>2
    <3> QED
      BY <2>1, <3>1
  <2>3. Min({i}) = i
    BY <1>1 DEF Min
  <2>4. Without(files, n) = SubSeq(files, 1, i - 1) \o SubSeq(files, i + 1, len)
    BY <1>3, <2>2, <2>3 DEF Without, RemoveFirstMatch, SelectInSeq, RemoveAt, len
  <2> DEFINE before == SubSeq(files, 1, i - 1)
             after == SubSeq(files, i + 1, len)
             rest == Without(files, n)
  <2>5. /\ before \in Seq(Archive) /\ Len(before) = i - 1
        /\ \A j \in 1..(i - 1) : before[j] = files[j]
    <3>1. i \in Int /\ 1 \in Int /\ i - 1 \in Int /\ \A j \in 1..(i - 1) : files[j] \in Archive
      BY <1>1
    <3>2. /\ before \in Seq(Archive) /\ Len(before) = IF 1 <= i - 1 THEN (i - 1) - 1 + 1 ELSE 0
          /\ \A j \in 1..((i - 1) - 1 + 1) : before[j] = files[1 + j - 1]
      BY <3>1, SubSeqProperties
    <3>3. i >= 1
      BY <1>1
    <3> HIDE DEF before
    <3> QED
      BY <3>1, <3>2, <3>3
  <2>6. /\ after \in Seq(Archive) /\ Len(after) = len - i
        /\ \A j \in 1..(len - i) : after[j] = files[i + j]
    <3>1. i \in Int /\ len \in Int /\ i + 1 \in Int /\ i <= len /\ \A j \in (i + 1)..len : files[j] \in Archive
      BY <1>1
    <3>2. /\ after \in Seq(Archive) /\ Len(after) = IF i + 1 <= len THEN len - (i + 1) + 1 ELSE 0
          /\ \A j \in 1..(len - (i + 1) + 1) : after[j] = files[(i + 1) + j - 1]
      BY <3>1, SubSeqProperties
    <3>3. len - (i + 1) + 1 = len - i /\ (IF i + 1 <= len THEN len - i ELSE 0) = len - i
      BY <3>1
    <3>4. \A j \in 1..(len - i) : (i + 1) + j - 1 = i + j
      BY <3>1
    <3> HIDE DEF after
    <3> QED
      BY <3>2, <3>3, <3>4
  <2> HIDE DEF before, after
  <2>7. /\ rest \in Seq(Archive) /\ DOMAIN rest = 1..(len - 1)
        /\ \A j \in 1..(len - 1) : rest[j] = IF j < i THEN files[j] ELSE files[j + 1]
    <3>1. rest = before \o after
      BY <2>4 DEF before, after
    <3>2. /\ before \o after \in Seq(Archive) /\ Len(before \o after) = (i - 1) + (len - i)
          /\ \A j \in 1..((i - 1) + (len - i)) :
                (before \o after)[j] = IF j <= i - 1 THEN before[j] ELSE after[j - (i - 1)]
      <4>1. before \in Seq(Archive) /\ after \in Seq(Archive)
        BY <2>5, <2>6
      <4>2. /\ before \o after \in Seq(Archive) /\ Len(before \o after) = Len(before) + Len(after)
            /\ \A j \in 1..(Len(before) + Len(after)) :
                  (before \o after)[j] = IF j <= Len(before) THEN before[j] ELSE after[j - Len(before)]
        BY <4>1, ConcatProperties
      <4> QED
        BY <2>5, <2>6, <4>2
    <3>3. (i - 1) + (len - i) = len - 1 /\ i \in Int /\ len \in Int
      BY <1>1
    <3> HIDE DEF rest
    <3>4. DOMAIN rest = 1..(len - 1)
      BY <3>1, <3>2, <3>3
    <3>5. ASSUME NEW j \in 1..(len - 1) PROVE rest[j] = IF j < i THEN files[j] ELSE files[j + 1]
      <4>1. CASE j < i
        <5>1. j \in 1..(i - 1) /\ j <= i - 1
          BY <3>3, <4>1
        <5> QED
          BY <2>5, <3>1, <3>2, <3>3, <4>1, <5>1
      <4>2. CASE ~(j < i)
        <5>1. j - (i - 1) \in 1..(len - i) /\ ~(j <= i - 1) /\ i + (j - (i - 1)) = j + 1
          BY <3>3, <4>2
        <5> QED
          BY <2>6, <3>1, <3>2, <3>3, <4>2, <5>1
      <4> QED
        BY <4>1, <4>2
    <3> QED
      BY <3>1, <3>2, <3>4, <3>5
  <2> HIDE DEF rest
  <2>8. i \in Int /\ len \in Int /\ 1 <= i /\ i <= len
    BY <1>1
  <2>9. Sorted(rest)
    <3>1. ASSUME NEW j \in 1..(len - 1), NEW k \in 1..(len - 1), j < k
          PROVE  rest[j].name < rest[k].name
      <4>1. \E a, b \in 1..len : a < b /\ rest[j] = files[a] /\ rest[k] = files[b]
        <5>1. CASE k < i
          BY <2>7, <2>8, <3>1, <5>1
        <5>2. CASE j < i /\ ~(k < i)
          BY <2>7, <2>8, <3>1, <5>2
        <5>3. CASE ~(j < i)
          <6>1. j + 1 \in 1..len /\ k + 1 \in 1..len /\ ~(k < i) /\ j + 1 < k + 1
            BY <2>8, <3>1, <5>3
          <6> QED
            BY <2>7, <5>3, <6>1
        <5> QED
          BY <2>8, <3>1, <5>1, <5>2, <5>3
      <4> QED
        BY <1>1, <4>1 DEF Sorted
    <3> QED
      BY <2>7, <3>1 DEF Sorted
  <2>10. ToSet(rest) = {d \in ToSet(files) : d.name # n}
    <3>1. ASSUME NEW j \in 1..(len - 1) PROVE rest[j] \in {files[a] : a \in 1..len \ {i}}
      <4>1. CASE j < i
        BY <2>7, <2>8, <4>1
      <4>2. CASE ~(j < i)
        <5>1. j + 1 \in 1..len \ {i}
          BY <2>8, <4>2
        <5> QED
          BY <2>7, <4>2, <5>1
      <4> QED
        BY <4>1, <4>2
    <3>2. ASSUME NEW a \in 1..len, a # i PROVE \E j \in 1..(len - 1) : rest[j] = files[a]
      <4>1. CASE a < i
        <5>1. a \in 1..(len - 1)
          BY <2>8, <4>1
        <5> QED
          BY <2>7, <4>1, <5>1
      <4>2. CASE a > i
        <5>1. a - 1 \in 1..(len - 1) /\ ~(a - 1 < i) /\ (a - 1) + 1 = a
          BY <2>8, <4>2
        <5> QED
          BY <2>7, <5>1
      <4> QED
        BY <2>8, <3>2, <4>1, <4>2
    <3>3. ToSet(rest) = {files[a] : a \in 1..len \ {i}}
      <4>1. ToSet(rest) = {rest[j] : j \in 1..(len - 1)}
        BY <2>7 DEF ToSet
      <4>2. {rest[j] : j \in 1..(len - 1)} \subseteq {files[a] : a \in 1..len \ {i}}
        BY <3>1
      <4>3. {files[a] : a \in 1..len \ {i}} \subseteq {rest[j] : j \in 1..(len - 1)}
        BY <3>2
      <4> QED
        BY <4>1, <4>2, <4>3
    <3>4. \A a \in 1..len : files[a].name # n <=> a # i
      BY <2>1, <2>2
    <3> QED
      BY <1>1, <3>3, <3>4 DEF ToSet
  <2> QED
    BY <2>7, <2>9, <2>10 DEF rest
<1> QED
  BY <1>2, <1>3

\* Numbers have a least one.
LEMMA LeastNumber ==
  ASSUME NEW S \in SUBSET Nat, S # {}
  PROVE  \E m \in S : \A k \in S : m <= k
<1>1. PICK m \in S : \A k \in S : ~(<<k, m>> \in OpToRel(<, Nat))
  BY NatLessThanWellFounded, WFMin
<1>2. \A k \in Nat : k < m => <<k, m>> \in OpToRel(<, Nat)
  BY DEF OpToRel
<1>3. ASSUME NEW k \in S PROVE m <= k
  <2>1. ~(k < m)
    BY <1>1, <1>2
  <2> QED
    BY <2>1
<1> QED
  BY <1>3

\* Numbers up to a bound have a greatest one, which Max names.
LEMMA GreatestNumber ==
  ASSUME NEW last \in Nat, NEW S \in SUBSET (1..last), S # {}
  PROVE  Max(S) \in S /\ \A k \in S : Max(S) >= k
<1> DEFINE R == {last - i : i \in S}
<1>0. \A i \in S : i \in Int /\ last - i \in Nat
  OBVIOUS
<1>1. PICK m \in R : \A k \in R : m <= k
  <2>1. R \subseteq Nat /\ R # {}
    BY <1>0
  <2> HIDE DEF R
  <2> QED
    BY <2>1, LeastNumber
<1>2. PICK x \in S : m = last - x
  BY <1>1
<1>3. ASSUME NEW k \in S PROVE x >= k
  <2>1. last - x <= last - k
    BY <1>1, <1>2
  <2> QED
    BY <1>0, <2>1
<1>4. \E y \in S : \A k \in S : y >= k
  BY <1>3
<1> QED
  BY <1>4 DEF Max

\* The names of the archives, and which of them are valid, after one was removed.
LEMMA AfterRemoval ==
  ASSUME BackupsAssumption, dir \in Seq(Archive), Sorted(dir), NEW n, dir' = Without(dir, n)
  PROVE  /\ dir' \in Seq(Archive) /\ Sorted(dir')
         /\ Names(dir') = Names(dir) \ {n} /\ Valid' = Valid \ {n}
<1>1. dir' \in Seq(Archive) /\ Sorted(dir') /\ ToSet(dir') = {d \in ToSet(dir) : d.name # n}
  BY WithoutOne
<1> QED
  BY <1>1 DEF Names, Valid

\* The same after the newest archive was written.
LEMMA AfterWriting ==
  ASSUME BackupsAssumption, dir \in Seq(Archive), Sorted(dir), NEW n \in 1..MaxSecond,
         \A x \in Names(dir) : x <= n,
         NEW state \in {"torn", "valid"},
         dir' = Append(Without(dir, n), [name |-> n, state |-> state])
  PROVE  /\ dir' \in Seq(Archive) /\ Sorted(dir')
         /\ Names(dir') = Names(dir) \cup {n}
         /\ Valid' = IF state = "valid" THEN Valid \cup {n} ELSE Valid \ {n}
<1> DEFINE rest == Without(dir, n)
           new == [name |-> n, state |-> state]
<1>1. rest \in Seq(Archive) /\ Sorted(rest) /\ ToSet(rest) = {d \in ToSet(dir) : d.name # n}
  BY WithoutOne
<1>2. new \in Archive /\ new.name = n /\ new.state = state
  BY DEF Archive
<1>3. dir' = Append(rest, new)
  OBVIOUS
<1> HIDE DEF rest, new
<1>4. /\ dir' \in Seq(Archive) /\ Len(rest) \in Nat /\ DOMAIN rest = 1..Len(rest)
      /\ DOMAIN dir' = 1..(Len(rest) + 1)
      /\ \A i \in 1..Len(rest) : dir'[i] = rest[i]
      /\ dir'[Len(rest) + 1] = new
  <2>1. /\ Append(rest, new) \in Seq(Archive) /\ Len(Append(rest, new)) = Len(rest) + 1
        /\ \A i \in 1..Len(rest) : Append(rest, new)[i] = rest[i]
        /\ Append(rest, new)[Len(rest) + 1] = new
    BY <1>1, <1>2, AppendProperties
  <2>2. Len(rest) \in Nat /\ DOMAIN rest = 1..Len(rest)
    BY <1>1
  <2>3. DOMAIN Append(rest, new) = 1..(Len(rest) + 1)
    BY <2>1
  <2> QED
    BY <1>3, <2>1, <2>2, <2>3
<1>5. \A i \in 1..(Len(rest) + 1) : i \in 1..Len(rest) \/ i = Len(rest) + 1
  BY <1>4
<1>6. ToSet(dir') = ToSet(rest) \cup {new}
  <2>1. ToSet(dir') \subseteq ToSet(rest) \cup {new}
    BY <1>4, <1>5 DEF ToSet
  <2>2. Len(rest) + 1 \in 1..(Len(rest) + 1) /\ 1..Len(rest) \subseteq 1..(Len(rest) + 1)
    BY <1>4
  <2>3. ToSet(rest) \cup {new} \subseteq ToSet(dir')
    BY <1>4, <2>2 DEF ToSet
  <2> QED
    BY <2>1, <2>3
<1>7. \A d \in ToSet(rest) : d.name \in Int /\ d.name < n
  <2>1. \A d \in Archive : d.name \in 1..MaxSecond
    BY DEF Archive
  <2>2. 1..MaxSecond \subseteq Int
    BY DEF BackupsAssumption
  <2>3. \A d \in ToSet(rest) : d \in Archive /\ d.name # n /\ d.name \in Names(dir)
    BY <1>1 DEF ToSet, Names
  <2> QED
    BY <2>1, <2>2, <2>3
<1>8. Sorted(dir')
  <2>1. ASSUME NEW i \in 1..(Len(rest) + 1), NEW j \in 1..(Len(rest) + 1), i < j
        PROVE  dir'[i].name < dir'[j].name
    <3>1. i \in 1..Len(rest)
      BY <1>4, <2>1
    <3>4. dir'[i] = rest[i] /\ rest[i] \in ToSet(rest)
      BY <1>4, <3>1 DEF ToSet
    <3>2. CASE j = Len(rest) + 1
      BY <1>2, <1>4, <1>7, <3>2, <3>4
    <3>3. CASE j \in 1..Len(rest)
      BY <1>1, <1>4, <2>1, <3>1, <3>3, <3>4 DEF Sorted
    <3> QED
      BY <1>5, <3>2, <3>3
  <2> QED
    BY <1>4, <2>1 DEF Sorted
<1>9. ToSet(dir') = {d \in ToSet(dir) : d.name # n} \cup {new}
  BY <1>1, <1>6
<1>10. Names(dir') = Names(dir) \cup {n}
  BY <1>2, <1>9 DEF Names
<1>11. Valid' = IF state = "valid" THEN Valid \cup {n} ELSE Valid \ {n}
  <2>1. \A d \in ToSet(dir) : d.name = n \/ d.name # n
    OBVIOUS
  <2>2. Valid' = {d.name : d \in {e \in ToSet(dir') : e.state = "valid"}}
    BY DEF Valid
  <2>3. {e \in ToSet(dir') : e.state = "valid"} =
          {e \in ToSet(dir) : e.name # n /\ e.state = "valid"} \cup (IF state = "valid" THEN {new} ELSE {})
    BY <1>2, <1>9
  <2> QED
    BY <1>2, <2>2, <2>3 DEF Valid
<1> QED
  BY <1>4, <1>8, <1>10, <1>11

\* The newest names of a list are greater than the others.
LEMMA NewestOnes ==
  ASSUME BackupsAssumption, NEW s \in Seq(1..MaxSecond),
         \A i, j \in DOMAIN s : i < j => s[i] < s[j]
  PROVE  /\ Newest(s) \subseteq ToSet(s)
         /\ \A n \in ToSet(s) \ Newest(s) :
               (\A x \in Newest(s) : n < x) /\ \E x \in ToSet(s) : n < x
<1> DEFINE len == Len(s)
           from == Max({1, len - Keep + 1})
<1>1. len \in Nat /\ Keep \in Nat \ {0} /\ DOMAIN s = 1..len /\ \A i \in 1..len : s[i] \in 1..MaxSecond
  BY DEF BackupsAssumption
<1>2. from = IF 1 >= len - Keep + 1 THEN 1 ELSE len - Keep + 1
  <2> DEFINE m == IF 1 >= len - Keep + 1 THEN 1 ELSE len - Keep + 1
  <2>1. m \in {1, len - Keep + 1} /\ \A y \in {1, len - Keep + 1} : m >= y
    BY <1>1
  <2>2. \A x \in {1, len - Keep + 1} : (\A y \in {1, len - Keep + 1} : x >= y) => x = m
    BY <1>1
  <2> QED
    BY <2>1, <2>2 DEF Max
<1> HIDE DEF len, from
<1>3. from \in 1..(len + 1) /\ (len >= 1 => from <= len)
  BY <1>1, <1>2
<1>4. Newest(s) = {s[k] : k \in from..len}
  <2> DEFINE t == SubSeq(s, from, len)
  <2>1. from \in Int /\ len \in Int /\ \A k \in from..len : s[k] \in 1..MaxSecond
    BY <1>1, <1>3
  <2>2. /\ t \in Seq(1..MaxSecond) /\ Len(t) = IF from <= len THEN len - from + 1 ELSE 0
        /\ \A i \in 1..(len - from + 1) : t[i] = s[from + i - 1]
    BY <2>1, SubSeqProperties
  <2> HIDE DEF t
  <2>3. DOMAIN t = 1..(len - from + 1)
    BY <1>1, <1>3, <2>2
  <2>4. \A i \in 1..(len - from + 1) : from + i - 1 \in from..len
    BY <1>1, <1>3
  <2>5. \A k \in from..len : k - from + 1 \in 1..(len - from + 1) /\ from + (k - from + 1) - 1 = k
    BY <1>1, <1>3
  <2>6. ToSet(t) = {s[k] : k \in from..len}
    BY <2>2, <2>3, <2>4, <2>5 DEF ToSet
  <2> QED
    BY <2>6 DEF Newest, t, from, len
<1>5. from..len \subseteq 1..len
  BY <1>1, <1>3
<1>6. ASSUME NEW n \in ToSet(s) \ Newest(s)
      PROVE  (\A x \in Newest(s) : n < x) /\ \E x \in ToSet(s) : n < x
  <2>1. PICK i \in 1..len : n = s[i]
    BY <1>1, <1>6 DEF ToSet
  <2>2. i < from /\ len >= 1
    BY <1>1, <1>3, <1>4, <1>6, <2>1
  <2>3. \A k \in from..len : k \in 1..len /\ i < k
    BY <1>1, <1>3, <2>1, <2>2
  <2>4. \A k \in from..len : n < s[k]
    BY <1>1, <2>1, <2>3
  <2>5. from \in from..len /\ s[from] \in ToSet(s)
    BY <1>1, <1>3, <2>2 DEF ToSet
  <2> QED
    BY <1>4, <2>4, <2>5
<1> QED
  BY <1>1, <1>4, <1>5, <1>6 DEF ToSet

\* What a prune judges the latest valid is one, and a newer one was missed.
LEMMA LatestOne ==
  ASSUME BackupsAssumption, dir \in Seq(Archive), Sorted(dir), NEW missed
  PROVE  \/ LatestValid(missed) = 0 /\ Valid \subseteq missed
         \/ /\ LatestValid(missed) \in Valid \ missed
            /\ \A n \in Valid \ missed : n <= LatestValid(missed)
<1> DEFINE valid == {i \in DOMAIN dir : dir[i].state = "valid" /\ dir[i].name \notin missed}
<1>1. Valid \ missed = {dir[i].name : i \in valid}
  BY DEF Valid, ToSet
<1>2. /\ Len(dir) \in Nat /\ DOMAIN dir = 1..Len(dir) /\ valid \subseteq 1..Len(dir)
      /\ \A i \in valid : dir[i].name \in Int
  <2>1. \A d \in Archive : d.name \in 1..MaxSecond
    BY DEF Archive
  <2>2. 1..MaxSecond \subseteq Int
    BY DEF BackupsAssumption
  <2> QED
    BY <2>1, <2>2
<1>3. LatestValid(missed) = IF valid = {} THEN 0 ELSE dir[Max(valid)].name
  BY DEF LatestValid
<1> HIDE DEF valid
<1>4. CASE valid = {}
  BY <1>1, <1>3, <1>4
<1>5. CASE valid # {}
  <2>1. Max(valid) \in valid /\ \A k \in valid : Max(valid) >= k
    BY <1>2, <1>5, GreatestNumber
  <2>2. PICK m \in 1..Len(dir) : m = Max(valid) /\ m \in valid /\ \A k \in valid : m >= k
    BY <1>2, <2>1
  <2>3. ASSUME NEW k \in valid PROVE dir[k].name <= dir[m].name
    <3>1. k \in 1..Len(dir) /\ k <= m
      BY <1>2, <2>2, <2>3
    <3>2. k < m \/ k = m
      BY <1>2, <2>2, <3>1
    <3>3. k < m => dir[k].name < dir[m].name
      BY <1>2, <2>2, <3>1 DEF Sorted
    <3> QED
      BY <1>2, <2>2, <2>3, <3>2, <3>3
  <2> QED
    BY <1>1, <1>3, <1>5, <2>2, <2>3
<1> QED
  BY <1>4, <1>5

\* The initial state satisfies the invariant.
LEMMA BackupsStart == BackupsAssumption /\ BackupInit => BackupInv
<1> SUFFICES ASSUME BackupsAssumption, BackupInit PROVE BackupInv
  OBVIOUS
<1>1. BackupTypeOK
  <2>1. MaxSecond \in Nat /\ MaxSecond >= 1 /\ MaxFaults \in Nat
    BY DEF BackupsAssumption
  <2> QED
    BY <2>1 DEF BackupInit, BackupTypeOK
<1>2. Names(dir) = {} /\ Sorted(dir)
  BY DEF BackupInit, Names, ToSet, Sorted
<1> QED
  BY <1>1, <1>2 DEF BackupInit, BackupInv, DirOK, ExportOK, ListOK, DoomOK, Exporting

\* Numbers that the types contain.
LEMMA BackupNumbers ==
  ASSUME BackupsAssumption, BackupTypeOK
  PROVE  /\ MaxSecond \in Nat /\ second \in Nat /\ dir \in Seq(Archive)
         /\ \A n \in Names(dir) : n \in Nat
         /\ \A t \in Thread : /\ name[t] \in Nat /\ judged[t] \in Nat /\ doomed[t] \subseteq Nat
                              /\ listed[t] \in Seq(1..MaxSecond) /\ ToSet(listed[t]) \subseteq 1..MaxSecond
         /\ Valid \subseteq Names(dir) /\ Names(dir) \subseteq 1..MaxSecond
         /\ rewritten \cup unread \subseteq Nat
<1>1. MaxSecond \in Nat /\ 1..MaxSecond \subseteq Nat /\ 0..MaxSecond \subseteq Nat
  BY DEF BackupsAssumption
<1>2. \A d \in Archive : d.name \in 1..MaxSecond
  BY DEF Archive
<1>3. dir \in Seq(Archive)
  BY DEF BackupTypeOK, Archive
<1>4. \A d \in ToSet(dir) : d \in Archive
  BY <1>3 DEF ToSet
<1>5. \A t \in Thread : listed[t] \in Seq(1..MaxSecond)
  BY DEF BackupTypeOK
<1>6. \A t \in Thread : ToSet(listed[t]) \subseteq 1..MaxSecond
  <2>1. ASSUME NEW S, NEW s \in Seq(S) PROVE ToSet(s) \subseteq S
    BY DEF ToSet
  <2> QED
    BY <1>5, <2>1, Zenon
<1>7. \A t \in Thread : name[t] \in Nat /\ judged[t] \in Nat /\ doomed[t] \subseteq Nat
  BY <1>1 DEF BackupTypeOK
<1>8. rewritten \cup unread \subseteq Nat
  BY <1>1 DEF BackupTypeOK
<1>9. Valid \subseteq Names(dir) /\ Names(dir) \subseteq 1..MaxSecond
  BY <1>2, <1>4 DEF Names, Valid
<1> QED
  BY <1>1, <1>3, <1>5, <1>6, <1>7, <1>8, <1>9 DEF BackupTypeOK

\* An archive that is written has a name that an archive may have.
LEMMA WrittenType ==
  ASSUME BackupsAssumption, BackupTypeOK, DirOK, NEW t \in Thread, ExportOK(t), at[t] \in Exporting,
         NEW state \in {"torn", "valid"},
         dir' = Append(Without(dir, name[t]), [name |-> name[t], state |-> state])
  PROVE  /\ name[t] \in 1..MaxSecond /\ dir' \in Seq(Archive) /\ Sorted(dir')
         /\ Names(dir') = Names(dir) \cup {name[t]}
         /\ Valid' = IF state = "valid" THEN Valid \cup {name[t]} ELSE Valid \ {name[t]}
<1>1. name[t] \in 1..MaxSecond /\ \A x \in Names(dir) : x <= name[t]
  <2>1. name[t] \in 1..second /\ second \in 1..MaxSecond /\ MaxSecond \in Nat
    BY BackupNumbers DEF ExportOK, BackupTypeOK
  <2>2. \A x \in Names(dir) : x <= name[t]
    BY DEF ExportOK
  <2> QED
    BY <2>1, <2>2
<1>2. dir \in Seq(Archive) /\ Sorted(dir)
  BY BackupNumbers DEF DirOK
<1> DEFINE n == name[t]
<1>3. n \in 1..MaxSecond /\ (\A x \in Names(dir) : x <= n) /\ n = name[t]
  BY <1>1
<1> HIDE DEF n
<1>4. dir' = Append(Without(dir, n), [name |-> n, state |-> state])
  BY <1>3
<1> QED
  BY <1>2, <1>3, <1>4, AfterWriting

\* A prune keeps its relation while the valid archives stay and no doomed one gets
\* a future: the excuses only grow.
LEMMA DoomStays ==
  ASSUME NEW u \in Thread, DoomOK(u), Valid' = Valid, judged'[u] = judged[u], doomed'[u] = doomed[u],
         at'[u] \in {"check", "delete"} => at[u] \in {"check", "delete"},
         \A n \in doomed[u] : Past(n) => Past(n)',
         rewritten \subseteq rewritten', unread \subseteq unread'
  PROVE  DoomOK(u)'
<1>1. SUFFICES ASSUME at[u] \in {"check", "delete"}
               PROVE  /\ \A n \in doomed[u] :
                            Past(n)' /\ n # judged[u] /\ (n > judged[u] => n \notin Valid \/ n \in unread')
                      /\ \/ \E m \in rewritten' \cup unread' : m >= judged[u]
                         \/ doomed[u] \cap Valid = {}
                         \/ \E m \in Valid : m >= judged[u] /\ m \notin doomed[u]
  BY DEF DoomOK, Excused
<1>2. /\ \A n \in doomed[u] :
            Past(n) /\ n # judged[u] /\ (n > judged[u] => n \notin Valid \/ n \in unread)
      /\ \/ \E m \in rewritten \cup unread : m >= judged[u]
         \/ doomed[u] \cap Valid = {}
         \/ \E m \in Valid : m >= judged[u] /\ m \notin doomed[u]
  BY <1>1 DEF DoomOK, Excused
<1> QED
  BY <1>2

\* Nothing that the relations speak of changes, but places: no export begins, no
\* list is taken and no prune decides.
LEMMA Calm ==
  ASSUME BackupsAssumption, BackupInv, UNCHANGED <<dir, name, rewritten, unread>>,
         second' \in Nat, second' >= second,
         \A w \in Thread : at'[w] \in Exporting => at[w] \in Exporting /\ backupLock' = w,
         \A u \in Thread : at'[u] = "valid" => at[u] = "valid" /\ listed'[u] = listed[u],
         \A u \in Thread : at'[u] \in {"check", "delete"} =>
            at[u] \in {"check", "delete"} /\ judged'[u] = judged[u] /\ doomed'[u] = doomed[u]
  PROVE  DirOK' /\ \A u \in Thread : ExportOK(u)' /\ ListOK(u)' /\ DoomOK(u)'
<1>0. second \in Nat /\ \A n \in Nat : (n <= second => n <= second') /\ (n < second => n < second')
  BY BackupNumbers DEF BackupInv
<1>1. Names(dir') = Names(dir) /\ Valid' = Valid /\ Sorted(dir') = Sorted(dir)
  BY DEF Valid
<1>2. DirOK'
  <2>1. Sorted(dir') /\ \A n \in Names(dir') : n <= second'
    BY <1>0, <1>1, BackupNumbers DEF BackupInv, DirOK
  <2> QED
    BY <2>1 DEF DirOK
<1>3. ASSUME NEW u \in Thread PROVE ExportOK(u)'
  <2>1. SUFFICES ASSUME at'[u] \in Exporting
                 PROVE  /\ backupLock' = u /\ name'[u] \in 1..second'
                        /\ \A n \in Names(dir') : n <= name'[u]
    BY DEF ExportOK
  <2>2. at[u] \in Exporting /\ backupLock' = u /\ ExportOK(u)
    BY <2>1 DEF BackupInv
  <2>3. name[u] \in 1..second /\ \A n \in Names(dir) : n <= name[u]
    BY <2>2 DEF ExportOK
  <2>4. name[u] \in 1..second'
    BY <1>0, <2>3
  <2> QED
    BY <1>1, <2>2, <2>3, <2>4
<1>4. ASSUME NEW n \in Nat, Past(n) PROVE Past(n)'
  BY <1>0, <1>4 DEF Past
<1>5. ASSUME NEW u \in Thread PROVE ListOK(u)'
  <2>1. SUFFICES ASSUME at'[u] = "valid"
                 PROVE  /\ \A i, j \in DOMAIN listed'[u] : i < j => listed'[u][i] < listed'[u][j]
                        /\ \A n \in ToSet(listed'[u]) :
                              /\ n <= second'
                              /\ \A w \in Thread : at'[w] \in Exporting => n <= name'[w]
    BY DEF ListOK
  <2>2. at[u] = "valid" /\ listed'[u] = listed[u] /\ ListOK(u)
    BY <2>1 DEF BackupInv
  <2>3. \A i, j \in DOMAIN listed[u] : i < j => listed[u][i] < listed[u][j]
    BY <2>2 DEF ListOK
  <2>4. ASSUME NEW n \in ToSet(listed[u])
        PROVE  /\ n <= second'
               /\ \A w \in Thread : at'[w] \in Exporting => n <= name[w]
    <3>1. /\ n <= second
          /\ \A w \in Thread : at[w] \in Exporting => n <= name[w]
      BY <2>2, <2>4 DEF ListOK
    <3>2. n \in Nat
      <4>1. ToSet(listed[u]) \subseteq 1..MaxSecond /\ MaxSecond \in Nat
        BY BackupNumbers DEF BackupInv
      <4> QED
        BY <2>4, <4>1
    <3> QED
      BY <1>0, <3>1, <3>2
  <2> QED
    BY <1>1, <2>2, <2>3, <2>4
<1>6. ASSUME NEW u \in Thread PROVE DoomOK(u)'
  <2>1. CASE at'[u] \notin {"check", "delete"}
    BY <2>1 DEF DoomOK
  <2>2. CASE at'[u] \in {"check", "delete"}
    <3>1. at[u] \in {"check", "delete"} /\ judged'[u] = judged[u] /\ doomed'[u] = doomed[u] /\ DoomOK(u)
      BY <2>2 DEF BackupInv
    <3>2. doomed[u] \subseteq Nat
      BY BackupNumbers DEF BackupInv
    <3>3. \A n \in doomed[u] : Past(n) => Past(n)'
      BY <1>4, <3>2
    <3> QED
      BY <1>1, <3>1, <3>3, DoomStays
  <2> QED
    BY <2>1, <2>2
<1> QED
  BY <1>2, <1>3, <1>5, <1>6

\* The relations that the moves below have to keep.
RelationsOK == DirOK /\ \A u \in Thread : ExportOK(u) /\ ListOK(u) /\ DoomOK(u)

\* An export begins only when there is none, with the newest name there is.
LEMMA ExportKeeps ==
  ASSUME BackupsAssumption, BackupInv, NEW t \in Thread, Export(t)
  PROVE  RelationsOK'
<1>0. second \in Nat /\ second >= 1
  BY DEF BackupInv, BackupTypeOK, BackupsAssumption
<1>1. Names(dir') = Names(dir) /\ Valid' = Valid /\ Sorted(dir') = Sorted(dir)
  BY DEF Export, Valid
<1>2. \A w \in Thread : at[w] \notin Exporting
  BY DEF BackupInv, ExportOK, Export, BackupsAssumption
<1>3. at' = [at EXCEPT ![t] = "mkdir"] /\ at \in [Thread -> Places]
  BY DEF Export, Move, BackupInv, BackupTypeOK, Places
<1>4. \A w \in Thread : w # t => at'[w] = at[w] /\ at'[w] \notin Exporting
  BY <1>2, <1>3
<1>5. at'[t] = "mkdir" /\ name'[t] = second /\ backupLock' = t
  BY <1>3 DEF Export, BackupInv, BackupTypeOK
<1>6. DirOK'
  BY <1>1 DEF Export, BackupInv, DirOK
<1>7. ASSUME NEW u \in Thread PROVE ExportOK(u)'
  <2>1. CASE u = t
    <3>1. backupLock' = u /\ name'[u] \in 1..second' /\ \A n \in Names(dir') : n <= name'[u]
      BY <1>0, <1>1, <1>5, <2>1 DEF Export, BackupInv, DirOK
    <3> QED
      BY <3>1 DEF ExportOK
  <2>2. CASE u # t
    BY <1>4, <2>2 DEF ExportOK
  <2> QED
    BY <2>1, <2>2
<1>8. ASSUME NEW u \in Thread PROVE ListOK(u)'
  <2>1. SUFFICES ASSUME at'[u] = "valid"
                 PROVE  /\ \A i, j \in DOMAIN listed[u] : i < j => listed[u][i] < listed[u][j]
                        /\ \A n \in ToSet(listed[u]) :
                              /\ n <= second
                              /\ \A w \in Thread : at'[w] \in Exporting => n <= name'[w]
    BY <1>1 DEF ListOK, Export
  <2>2. at[u] = "valid" /\ ListOK(u)
    BY <1>4, <1>5, <2>1 DEF BackupInv
  <2>3. /\ \A i, j \in DOMAIN listed[u] : i < j => listed[u][i] < listed[u][j]
        /\ \A n \in ToSet(listed[u]) :
              /\ n <= second
    BY <2>2 DEF ListOK
  <2> QED
    BY <1>4, <1>5, <2>3
<1>9. ASSUME NEW u \in Thread PROVE DoomOK(u)'
  <2>1. \A n : Past(n) => Past(n)'
    BY <1>4, <1>5 DEF Past, Export
  <2>2. DoomOK(u) /\ (at'[u] \in {"check", "delete"} => at[u] \in {"check", "delete"})
    BY <1>4, <1>5 DEF BackupInv
  <2>3. UNCHANGED <<judged, doomed, rewritten, unread>>
    BY DEF Export
  <2> QED
    BY <1>1, <2>1, <2>2, <2>3, DoomStays
<1> QED
  BY <1>6, <1>7, <1>8, <1>9 DEF RelationsOK

\* What an export writes is newer than all that a list holds or a prune dooms; and
\* a prune that relies on an archive of that name is told.
LEMMA WritingKeeps ==
  ASSUME BackupsAssumption, BackupInv, NEW t \in Thread, at[t] \in Exporting,
         NEW state \in {"torn", "valid"},
         dir' = Append(Without(dir, name[t]), [name |-> name[t], state |-> state]),
         NEW place, Move(t, place), place \notin {"valid", "check", "delete"},
         place \in Exporting => backupLock' = t,
         state = "torn" /\ RelyingOn(name[t]) => name[t] \in rewritten',
         rewritten \subseteq rewritten',
         UNCHANGED <<second, name, listed, judged, doomed, unread>>
  PROVE  RelationsOK'
<1> DEFINE new == name[t]
<1>0. ExportOK(t) /\ DirOK /\ BackupTypeOK
  BY DEF BackupInv
<1>1. /\ new \in 1..MaxSecond /\ dir' \in Seq(Archive) /\ Sorted(dir')
      /\ Names(dir') = Names(dir) \cup {new}
      /\ Valid' = IF state = "valid" THEN Valid \cup {new} ELSE Valid \ {new}
  BY <1>0, WrittenType
<1>2. /\ second \in Nat /\ new \in Nat /\ new <= second /\ new >= 1
      /\ \A n \in Names(dir) : n \in Nat /\ n <= new
      /\ backupLock = t
  BY <1>0, BackupNumbers DEF ExportOK
<1>3. \A w \in Thread : at[w] \in Exporting => w = t
  BY <1>2 DEF BackupInv, ExportOK
<1>4. at' = [at EXCEPT ![t] = place] /\ at \in [Thread -> Places]
  BY <1>0 DEF Move, BackupTypeOK, Places
<1>5. /\ \A w \in Thread : at'[w] \in Exporting => w = t /\ at[w] \in Exporting /\ backupLock' = t
      /\ \A u \in Thread : at'[u] \in {"valid", "check", "delete"} => at[u] = at'[u]
  BY <1>3, <1>4
<1>6. \A w \in Thread : at[w] \in Exporting => name[w] = new
  BY <1>3
<1>x. name[t] = new
  OBVIOUS
<1> HIDE DEF new
<1>7. DirOK'
  <2>1. Sorted(dir') /\ \A n \in Names(dir') : n <= second'
    BY <1>1, <1>2
  <2> QED
    BY <2>1 DEF DirOK
<1>8. ASSUME NEW u \in Thread PROVE ExportOK(u)'
  <2>1. SUFFICES ASSUME at'[u] \in Exporting
                 PROVE  backupLock' = u /\ name[u] \in 1..second /\ \A n \in Names(dir') : n <= name[u]
    BY DEF ExportOK
  <2>2. u = t /\ backupLock' = t /\ name[u] = new
    BY <1>5, <1>6, <2>1
  <2> QED
    BY <1>1, <1>2, <2>2
<1>9. ASSUME NEW u \in Thread PROVE ListOK(u)'
  <2>1. SUFFICES ASSUME at'[u] = "valid"
                 PROVE  /\ \A i, j \in DOMAIN listed[u] : i < j => listed[u][i] < listed[u][j]
                        /\ \A n \in ToSet(listed[u]) :
                              /\ n <= second
                              /\ \A w \in Thread : at'[w] \in Exporting => n <= name[w]
    BY DEF ListOK
  <2>2. at[u] = "valid" /\ ListOK(u)
    BY <1>5, <2>1 DEF BackupInv
  <2>3. /\ \A i, j \in DOMAIN listed[u] : i < j => listed[u][i] < listed[u][j]
        /\ \A n \in ToSet(listed[u]) :
              /\ n <= second
              /\ \A w \in Thread : at[w] \in Exporting => n <= name[w]
    BY <2>2 DEF ListOK
  <2> QED
    BY <1>5, <2>3
<1>10. ASSUME NEW u \in Thread PROVE DoomOK(u)'
  <2>1. SUFFICES ASSUME at'[u] \in {"check", "delete"}
                 PROVE  /\ \A n \in doomed[u] :
                              Past(n)' /\ n # judged[u] /\ (n > judged[u] => n \notin Valid' \/ n \in unread)
                        /\ \/ \E m \in rewritten' \cup unread : m >= judged[u]
                           \/ doomed[u] \cap Valid' = {}
                           \/ \E m \in Valid' : m >= judged[u] /\ m \notin doomed[u]
    BY DEF DoomOK, Excused
  <2>2. at[u] \in {"check", "delete"} /\ DoomOK(u)
    BY <1>5, <2>1 DEF BackupInv
  <2>3. /\ \A n \in doomed[u] :
              Past(n) /\ n # judged[u] /\ (n > judged[u] => n \notin Valid \/ n \in unread)
        /\ \/ \E m \in rewritten \cup unread : m >= judged[u]
           \/ doomed[u] \cap Valid = {}
           \/ \E m \in Valid : m >= judged[u] /\ m \notin doomed[u]
    BY <2>2 DEF DoomOK, Excused
  <2>4. ASSUME NEW n \in doomed[u] PROVE n \in Nat /\ n < new /\ Past(n)'
    <3>1. Past(n) /\ n \in Nat
      BY <1>0, <2>3, BackupNumbers
    <3> QED
      BY <1>5, <1>x, <3>1 DEF Past
  <2>5. \A n \in doomed[u] : n # new /\ (n \in Valid' => n \in Valid)
    BY <1>1, <1>2, <2>4
  <2>6. ASSUME NEW m \in Valid, m >= judged[u], m \notin doomed[u], m \notin Valid'
        PROVE  \/ \E k \in rewritten' \cup unread : k >= judged[u]
               \/ \E k \in Valid' : k >= judged[u] /\ k \notin doomed[u]
    <3>1. m = new /\ state = "torn" /\ Valid' = Valid \ {new}
      BY <1>1, <2>6
    <3>2. CASE {k \in Valid : k >= judged[u]} = {new}
      <4>1. RelyingOn(new)
        BY <2>2, <3>2 DEF RelyingOn, Prunes
      <4>2. new \in rewritten'
        BY <1>x, <3>1, <4>1
      <4> QED
        BY <2>6, <3>1, <4>2
    <3>3. CASE {k \in Valid : k >= judged[u]} # {new}
      <4>1. PICK k \in Valid : k >= judged[u] /\ k # new
        BY <2>6, <3>1, <3>3
      <4>2. k \in Nat /\ judged[u] \in Nat
        BY <1>0, <4>1, BackupNumbers
      <4>3. k \in doomed[u] => k \in unread
        BY <2>3, <4>1, <4>2
      <4> QED
        BY <3>1, <4>1, <4>3
    <3> QED
      BY <3>2, <3>3
  <2> QED
    BY <2>3, <2>4, <2>5, <2>6
<1> QED
  BY <1>7, <1>8, <1>9, <1>10 DEF RelationsOK

\* A list is the directory as it lies.
LEMMA ListKeeps ==
  ASSUME BackupsAssumption, BackupInv, NEW t \in Thread, List(t)
  PROVE  RelationsOK' /\ listed'[t] \in Seq(1..MaxSecond)
<1> DEFINE names == [i \in DOMAIN dir |-> dir[i].name]
<1>0. DirOK /\ BackupTypeOK /\ dir \in Seq(Archive) /\ \A w \in Thread : ExportOK(w)
  BY BackupNumbers DEF BackupInv
<1>1. at' = [at EXCEPT ![t] = "valid"] /\ listed' = [listed EXCEPT ![t] = names]
  BY DEF List, Move
<1>2. at \in [Thread -> Places] /\ listed \in [Thread -> Seq(1..MaxSecond)]
  BY <1>0 DEF BackupTypeOK, Places
<1>3. /\ names \in Seq(1..MaxSecond) /\ ToSet(names) = Names(dir)
      /\ \A i, j \in DOMAIN names : i < j => names[i] < names[j]
  <2>1. DOMAIN dir = 1..Len(dir) /\ Len(dir) \in Nat /\ \A i \in 1..Len(dir) : dir[i] \in Archive
    BY <1>0
  <2>2. \A d \in Archive : d.name \in 1..MaxSecond
    BY DEF Archive
  <2>3. names = [i \in 1..Len(dir) |-> dir[i].name] /\ \A i \in 1..Len(dir) : dir[i].name \in 1..MaxSecond
    BY <2>1, <2>2
  <2>4. names \in Seq(1..MaxSecond)
    BY <2>1, <2>3
  <2>5. ToSet(names) = Names(dir)
    BY <2>1, <2>3 DEF ToSet, Names
  <2> QED
    BY <1>0, <2>1, <2>3, <2>4, <2>5 DEF DirOK, Sorted
<1> HIDE DEF names
<1>4. at'[t] = "valid" /\ listed'[t] = names /\ \A u \in Thread \ {t} : at'[u] = at[u] /\ listed'[u] = listed[u]
  BY <1>1, <1>2
<1>5. UNCHANGED <<backupLock, dir, second, name, judged, doomed, rewritten, unread>>
  BY DEF List
<1>6. Names(dir') = Names(dir) /\ Valid' = Valid /\ Sorted(dir') = Sorted(dir)
  BY <1>5 DEF Valid
<1>7. \A w \in Thread : at'[w] \in Exporting => at[w] \in Exporting
  BY <1>4 DEF Exporting
<1>8. DirOK'
  BY <1>0, <1>5, <1>6 DEF DirOK
<1>9. ASSUME NEW u \in Thread PROVE ExportOK(u)'
  BY <1>0, <1>5, <1>6, <1>7 DEF ExportOK
<1>10. ASSUME NEW u \in Thread PROVE ListOK(u)'
  <2>1. CASE u = t
    <3>1. ASSUME NEW n \in Names(dir) PROVE n <= second /\ \A w \in Thread : at'[w] \in Exporting => n <= name[w]
      BY <1>0, <1>7, <3>1 DEF DirOK, ExportOK
    <3>2. /\ \A i, j \in DOMAIN listed'[u] : i < j => listed'[u][i] < listed'[u][j]
          /\ \A n \in ToSet(listed'[u]) :
                /\ n <= second'
                /\ \A w \in Thread : at'[w] \in Exporting => n <= name'[w]
      BY <1>3, <1>4, <1>5, <1>6, <2>1, <3>1
    <3> QED
      BY <3>2 DEF ListOK
  <2>2. CASE u # t
    <3>1. SUFFICES ASSUME at'[u] = "valid"
                   PROVE  /\ \A i, j \in DOMAIN listed[u] : i < j => listed[u][i] < listed[u][j]
                          /\ \A n \in ToSet(listed[u]) :
                                /\ n <= second
                                /\ \A w \in Thread : at'[w] \in Exporting => n <= name[w]
      BY <1>4, <1>5, <1>6, <2>2 DEF ListOK
    <3>2. at[u] = "valid" /\ ListOK(u)
      BY <1>4, <2>2, <3>1 DEF BackupInv
    <3> QED
      BY <1>7, <3>2 DEF ListOK
  <2> QED
    BY <2>1, <2>2
<1>11. ASSUME NEW u \in Thread PROVE DoomOK(u)'
  <2>1. DoomOK(u) /\ (at'[u] \in {"check", "delete"} => at[u] \in {"check", "delete"})
    BY <1>4 DEF BackupInv
  <2>2. \A n : Past(n) => Past(n)'
    BY <1>5, <1>7 DEF Past
  <2> QED
    BY <1>5, <1>6, <2>1, <2>2, DoomStays
<1>12. listed'[t] \in Seq(1..MaxSecond)
  BY <1>3, <1>4
<1> QED
  BY <1>8, <1>9, <1>10, <1>11, <1>12 DEF RelationsOK

\* A prune dooms what is older than the newest archives of its list, but not the
\* latest valid one it could read: these are past, and a valid one that is newer than
\* the one it found was missed.
LEMMA JudgeKeeps ==
  ASSUME BackupsAssumption, BackupInv, NEW t \in Thread, Judge(t)
  PROVE  RelationsOK' /\ judged'[t] \in 0..MaxSecond /\ doomed'[t] \in SUBSET (1..MaxSecond)
<1>0. /\ DirOK /\ BackupTypeOK /\ dir \in Seq(Archive) /\ MaxSecond \in Nat
      /\ \A n \in Names(dir) : n \in 1..MaxSecond
      /\ \A w \in Thread : ExportOK(w) /\ ListOK(w)
  <2>1. DirOK /\ BackupTypeOK /\ \A w \in Thread : ExportOK(w) /\ ListOK(w)
    BY DEF BackupInv
  <2>2. \A n \in Names(dir) : n \in Nat /\ n <= second /\ n >= 1
    <3>1. dir \in Seq(Archive) /\ \A n \in Names(dir) : n \in Nat /\ n <= second
      BY <2>1, BackupNumbers DEF DirOK
    <3>2. \A d \in ToSet(dir) : d \in Archive
      BY <3>1 DEF ToSet
    <3>3. \A d \in Archive : d.name \in 1..MaxSecond
      BY DEF Archive
    <3>4. \A n \in Names(dir) : n \in 1..MaxSecond
      BY <3>2, <3>3 DEF Names
    <3> QED
      BY <3>1, <3>4
  <2>3. second \in 1..MaxSecond
    BY <2>1 DEF BackupTypeOK
  <2> QED
    BY <2>1, <2>2, <2>3, BackupNumbers
<1>1. PICK missed \in SUBSET Valid :
         /\ \A m \in missed : m > LatestValid(missed)
         /\ judged' = [judged EXCEPT ![t] = LatestValid(missed)]
         /\ doomed' = [doomed EXCEPT ![t] = Doomed(t, missed)]
         /\ unread' = unread \cup missed
  BY DEF Judge
<1> DEFINE L == LatestValid(missed)
<1>at. at' = [at EXCEPT ![t] = "check"]
  BY DEF Judge, Move
<1>2. /\ at \in [Thread -> Places] /\ judged \in [Thread -> 0..MaxSecond]
      /\ doomed \in [Thread -> SUBSET (1..MaxSecond)] /\ listed[t] \in Seq(1..MaxSecond)
      /\ ToSet(listed[t]) \subseteq 1..MaxSecond
  BY <1>0, BackupNumbers DEF BackupTypeOK, Places
<1>3. /\ at'[t] = "check" /\ judged'[t] = L /\ doomed'[t] = Doomed(t, missed)
      /\ \A u \in Thread \ {t} : at'[u] = at[u] /\ judged'[u] = judged[u] /\ doomed'[u] = doomed[u]
  BY <1>1, <1>at, <1>2
<1>4. UNCHANGED <<backupLock, dir, second, name, listed, rewritten>>
  BY DEF Judge
<1>5. Names(dir') = Names(dir) /\ Valid' = Valid /\ Sorted(dir') = Sorted(dir)
  BY <1>4 DEF Valid
<1>6. \A w \in Thread : at'[w] \in Exporting => at[w] \in Exporting
  BY <1>3 DEF Exporting
<1>7. \A n : Past(n) => Past(n)'
  BY <1>4, <1>6 DEF Past
<1>8. \/ L = 0 /\ Valid \subseteq missed
      \/ L \in Valid \ missed /\ \A n \in Valid \ missed : n <= L
  BY <1>0, LatestOne DEF DirOK
<1>x. L = LatestValid(missed)
  OBVIOUS
<1> HIDE DEF L
<1>9. Valid \subseteq Names(dir)
  BY <1>0, BackupNumbers
<1>10. DirOK'
  BY <1>0, <1>4, <1>5 DEF DirOK
<1>11. ASSUME NEW u \in Thread PROVE ExportOK(u)'
  BY <1>0, <1>4, <1>5, <1>6 DEF ExportOK
<1>12. ASSUME NEW u \in Thread PROVE ListOK(u)'
  <2>1. SUFFICES ASSUME at'[u] = "valid"
                 PROVE  /\ \A i, j \in DOMAIN listed[u] : i < j => listed[u][i] < listed[u][j]
                        /\ \A n \in ToSet(listed[u]) :
                              /\ n <= second
                              /\ \A w \in Thread : at'[w] \in Exporting => n <= name[w]
    BY <1>4, <1>5 DEF ListOK
  <2>2. at[u] = "valid" /\ ListOK(u)
    BY <1>0, <1>3, <2>1
  <2> QED
    BY <1>6, <2>2 DEF ListOK
<1>13. ASSUME NEW u \in Thread, u # t PROVE DoomOK(u)'
  <2>1. DoomOK(u) /\ judged'[u] = judged[u] /\ doomed'[u] = doomed[u] /\ at'[u] = at[u]
    BY <1>3, <1>13 DEF BackupInv
  <2> QED
    BY <1>1, <1>4, <1>5, <1>7, <2>1, DoomStays
<1>14. DoomOK(t)'
  <2>1. ListOK(t) /\ at[t] = "valid"
    BY <1>0 DEF Judge
  <2>2. \A i, j \in DOMAIN listed[t] : i < j => listed[t][i] < listed[t][j]
    BY <2>1 DEF ListOK
  <2>3. \A n \in ToSet(listed[t]) : n <= second /\ \A w \in Thread : at[w] \in Exporting => n <= name[w]
    BY <2>1 DEF ListOK
  <2>4. \A n \in ToSet(listed[t]) \ Newest(listed[t]) : \E x \in ToSet(listed[t]) : n < x
    BY <1>2, <2>2, NewestOnes
  <2>5. second \in Nat /\ L \in Nat /\ \A w \in Thread : name[w] \in Nat
    BY <1>0, <1>8, <1>9, BackupNumbers
  <2>6. ASSUME NEW n \in Doomed(t, missed)
        PROVE  Past(n)' /\ n # L /\ (n > L => n \notin Valid \/ n \in unread')
    <3>1. n \in ToSet(listed[t]) \ Newest(listed[t]) /\ n # L /\ n \in Nat
      BY <1>0, <1>2, <1>x, <2>6 DEF Doomed
    <3>2. PICK x \in ToSet(listed[t]) : n < x
      BY <2>4, <3>1
    <3>3. x \in Nat
      BY <1>0, <1>2
    <3>4. Past(n)
      BY <2>3, <2>5, <3>1, <3>2, <3>3 DEF Past
    <3>5. n > L /\ n \in Valid => n \in missed
      BY <1>8, <2>5, <3>1
    <3> QED
      BY <1>1, <1>7, <3>1, <3>4, <3>5
  <2>7. \/ \E m \in rewritten' \cup unread' : m >= L
        \/ Doomed(t, missed) \cap Valid = {}
        \/ \E m \in Valid : m >= L /\ m \notin Doomed(t, missed)
    <3>1. CASE missed = {}
      <4>1. L \notin Doomed(t, missed)
        BY <1>x DEF Doomed
      <4> QED
        BY <1>8, <2>5, <3>1, <4>1
    <3>2. CASE missed # {}
      <4>1. PICK m \in missed : m \in Nat /\ m > L
        BY <1>0, <1>1, <1>9, <1>x, <3>2
      <4> QED
        BY <1>1, <2>5, <4>1
    <3> QED
      BY <3>1, <3>2
  <2> QED
    BY <1>3, <1>5, <2>6, <2>7 DEF DoomOK, Excused
<1>15. judged'[t] \in 0..MaxSecond
  BY <1>0, <1>3, <1>8, <1>9
<1>16. doomed'[t] \in SUBSET (1..MaxSecond)
  BY <1>2, <1>3 DEF Doomed
<1> QED
  BY <1>10, <1>11, <1>12, <1>13, <1>14, <1>15, <1>16 DEF RelationsOK

\* A prune that loses the archive it relies on to another one is excused with it, or
\* has the one that the other relies on, which is newer.
LEMMA DeleteKeeps ==
  ASSUME BackupsAssumption, BackupInv, NEW t \in Thread, Delete(t)
  PROVE  /\ RelationsOK' /\ dir' \in Seq(Archive) /\ doomed'[t] \in SUBSET (1..MaxSecond)
         /\ \E n \in doomed[t] : Valid' \in {Valid, Valid \ {n}}
<1>0. /\ BackupTypeOK /\ DirOK /\ dir \in Seq(Archive) /\ doomed[t] \subseteq Nat
      /\ doomed \in [Thread -> SUBSET (1..MaxSecond)]
  BY BackupNumbers DEF BackupInv, BackupTypeOK
<1>1. PICK n \in doomed[t] :
         /\ dir' = Without(dir, n) \/ dir' = dir
         /\ doomed' = [doomed EXCEPT ![t] = @ \ {n}]
  <2> DEFINE least == CHOOSE m \in doomed[t] : \A k \in doomed[t] : m <= k
  <2>1. (dir' = Without(dir, least) \/ dir' = dir) /\ doomed' = [doomed EXCEPT ![t] = @ \ {least}] /\ doomed[t] # {}
    BY DEF Delete
  <2>2. \E m \in doomed[t] : \A k \in doomed[t] : m <= k
    BY <1>0, <2>1, LeastNumber
  <2>3. least \in doomed[t] /\ \A k \in doomed[t] : least <= k
    BY <2>2
  <2> HIDE DEF least
  <2> QED
    BY <2>1, <2>3
<1>2. UNCHANGED <<at, backupLock, second, name, listed, judged, rewritten, unread>> /\ at[t] = "delete"
  BY DEF Delete
<1>3. /\ dir' \in Seq(Archive) /\ Sorted(dir')
      /\ Names(dir') \subseteq Names(dir) /\ Valid' \in {Valid, Valid \ {n}}
  <2>1. CASE dir' = Without(dir, n)
    BY <1>0, <2>1, AfterRemoval DEF DirOK
  <2>2. CASE dir' = dir
    BY <1>0, <2>2 DEF DirOK, Valid
  <2> QED
    BY <1>1, <2>1, <2>2
<1>4. doomed'[t] = doomed[t] \ {n} /\ \A u \in Thread \ {t} : doomed'[u] = doomed[u]
  BY <1>0, <1>1
<1>5. DirOK'
  BY <1>0, <1>2, <1>3 DEF DirOK
<1>6. ASSUME NEW u \in Thread PROVE ExportOK(u)'
  <2>1. ExportOK(u)
    BY DEF BackupInv
  <2> QED
    BY <1>2, <1>3, <2>1 DEF ExportOK
<1>7. ASSUME NEW u \in Thread PROVE ListOK(u)'
  <2>1. SUFFICES ASSUME at[u] = "valid"
                 PROVE  /\ \A i, j \in DOMAIN listed[u] : i < j => listed[u][i] < listed[u][j]
                        /\ \A m \in ToSet(listed[u]) :
                              /\ m <= second
                              /\ \A w \in Thread : at[w] \in Exporting => m <= name[w]
    BY <1>2 DEF ListOK
  <2>2. ListOK(u)
    BY DEF BackupInv
  <2> QED
    BY <1>3, <2>1, <2>2 DEF ListOK
<1>8. \A m : Past(m) => Past(m)'
  BY <1>2 DEF Past
<1>9. /\ \A m \in doomed[t] : m # judged[t] /\ (m > judged[t] => m \notin Valid \/ m \in unread)
      /\ \/ Excused(t)
         \/ doomed[t] \cap Valid = {}
         \/ \E m \in Valid : m >= judged[t] /\ m \notin doomed[t]
  BY <1>2 DEF BackupInv, DoomOK
<1>10. ASSUME NEW u \in Thread PROVE DoomOK(u)'
  <2>1. SUFFICES ASSUME at[u] \in {"check", "delete"}
                 PROVE  /\ \A m \in doomed'[u] :
                              Past(m)' /\ m # judged[u] /\ (m > judged[u] => m \notin Valid' \/ m \in unread)
                        /\ \/ Excused(u)
                           \/ doomed'[u] \cap Valid' = {}
                           \/ \E m \in Valid' : m >= judged[u] /\ m \notin doomed'[u]
    BY <1>2 DEF DoomOK, Excused
  <2>2. /\ \A m \in doomed[u] : Past(m) /\ m # judged[u] /\ (m > judged[u] => m \notin Valid \/ m \in unread)
        /\ \/ Excused(u)
           \/ doomed[u] \cap Valid = {}
           \/ \E m \in Valid : m >= judged[u] /\ m \notin doomed[u]
    BY <2>1 DEF BackupInv, DoomOK
  <2>3. doomed'[u] \subseteq doomed[u] /\ (u = t => n \in doomed[u]) /\ Valid' \subseteq Valid
    BY <1>3, <1>4
  <2>4. ASSUME n \in Valid, n >= judged[u], n \notin doomed[u]
        PROVE  \/ Excused(u)
               \/ \E m \in Valid' : m >= judged[u] /\ m \notin doomed[u]
    <3>1. n \in Nat /\ judged[u] \in Nat /\ judged[t] \in Nat /\ Valid \subseteq Nat
      BY <1>0, <2>4, BackupNumbers
    <3>2. CASE n > judged[t]
      BY <1>9, <2>4, <3>2 DEF Excused
    <3>3. CASE n < judged[t]
      <4>1. CASE Excused(t)
        <5>1. PICK x \in rewritten \cup unread : x >= judged[t]
          BY <4>1 DEF Excused
        <5>2. x \in Nat
          BY <1>0, BackupNumbers
        <5> QED
          BY <2>4, <3>1, <3>3, <5>1, <5>2 DEF Excused
      <4>2. CASE \E m \in Valid : m >= judged[t] /\ m \notin doomed[t]
        <5>1. PICK m \in Valid : m >= judged[t] /\ m \notin doomed[t]
          BY <4>2
        <5>2. m \in Nat /\ m > judged[u] /\ m \in Valid'
          BY <1>3, <2>4, <3>1, <3>3, <5>1
        <5>3. m \in doomed[u] => m \in unread
          BY <2>2, <5>1, <5>2
        <5> QED
          BY <3>1, <5>2, <5>3 DEF Excused
      <4> QED
        BY <1>9, <2>4, <4>1, <4>2
    <3> QED
      BY <1>9, <3>1, <3>2, <3>3
  <2>5. ASSUME NEW m \in Valid, m >= judged[u], m \notin doomed[u]
        PROVE  Excused(u) \/ \E k \in Valid' : k >= judged[u] /\ k \notin doomed[u]
    BY <1>3, <2>4, <2>5
  <2> QED
    BY <1>8, <2>2, <2>3, <2>5
<1> QED
  BY <1>0, <1>1, <1>3, <1>4, <1>5, <1>6, <1>7, <1>10 DEF RelationsOK

\* The moves that change no archive keep the relations: nothing in them turns on
\* which thread made them.
LEMMA CalmMoves ==
  ASSUME BackupsAssumption, BackupInv, NEW t \in Thread,
         \/ MakeDirs(t) \/ Collect(t) \/ Upload(t) \/ PruneRequest(t) \/ PruneRaises(t) \/ CheckLock(t) \/ DeleteDone(t)
         \/ ZipEnd(t) /\ dir' = dir
  PROVE  RelationsOK'
<1>0. /\ at \in [Thread -> Places] /\ second \in Nat
      /\ judged \in [Thread -> 0..MaxSecond] /\ doomed \in [Thread -> SUBSET (1..MaxSecond)]
      /\ listed \in [Thread -> Seq(1..MaxSecond)]
  BY BackupNumbers DEF BackupInv, BackupTypeOK, Places
<1>1. \A w \in Thread : at[w] \in Exporting => backupLock = w
  BY DEF BackupInv, ExportOK
<1>2. UNCHANGED <<dir, name, rewritten, unread, second>>
  BY DEF MakeDirs, Collect, Upload, PruneRequest, PruneRaises, CheckLock, DeleteDone, ZipEnd
<1>3. PICK place : /\ at' = [at EXCEPT ![t] = place] /\ place \notin {"valid", "check"}
                   /\ place = "delete" => at[t] = "check"
                   /\ place \in Exporting => at[t] \in Exporting /\ backupLock' = backupLock
  BY DEF MakeDirs, Collect, Upload, PruneRequest, PruneRaises, CheckLock, DeleteDone, ZipEnd, Move, Free, PruneOver, Exporting
<1>4. at'[t] = place /\ \A u \in Thread \ {t} : at'[u] = at[u]
  BY <1>0, <1>3
<1>5. at[t] \in Exporting \/ backupLock' = backupLock
  BY DEF MakeDirs, Collect, Upload, PruneRequest, PruneRaises, CheckLock, DeleteDone, ZipEnd, Exporting
<1>6. \A w \in Thread : at'[w] \in Exporting => at[w] \in Exporting /\ backupLock' = w
  BY <1>1, <1>3, <1>4, <1>5
<1>7. \A u \in Thread : u # t \/ place = "delete" =>
          listed'[u] = listed[u] /\ judged'[u] = judged[u] /\ doomed'[u] = doomed[u]
  <2>1. CASE UNCHANGED <<listed, judged, doomed>>
    BY <2>1
  <2>2. CASE PruneOver(t)
    <3>1. place = "idle"
      BY <1>0, <1>3, <2>2 DEF PruneOver, Move
    <3> QED
      BY <1>0, <2>2, <3>1 DEF PruneOver
  <2> QED
    BY <2>1, <2>2 DEF MakeDirs, Collect, Upload, PruneRequest, PruneRaises, CheckLock, DeleteDone, ZipEnd
<1>8. \A u \in Thread : at'[u] = "valid" => at[u] = "valid" /\ listed'[u] = listed[u]
  BY <1>3, <1>4, <1>7
<1>9. \A u \in Thread : at'[u] \in {"check", "delete"} =>
          at[u] \in {"check", "delete"} /\ judged'[u] = judged[u] /\ doomed'[u] = doomed[u]
  BY <1>3, <1>4, <1>7
<1>10. second' \in Nat /\ second' >= second
  BY <1>0, <1>2
<1>11. DirOK' /\ \A u \in Thread : ExportOK(u)' /\ ListOK(u)' /\ DoomOK(u)'
  BY <1>2, <1>6, <1>8, <1>9, <1>10, Calm
<1> QED
  BY <1>11 DEF RelationsOK

\* Every step keeps the relations.
LEMMA RelationsStep ==
  ASSUME BackupsAssumption, BackupInv, [BackupNext]_backupVars
  PROVE  RelationsOK'
<1>0. at \in [Thread -> Places] /\ second \in Nat
  BY BackupNumbers DEF BackupInv, BackupTypeOK, Places
<1>1. ASSUME NEW t \in Thread, Export(t) PROVE RelationsOK'
  BY <1>1, ExportKeeps
<1>2. ASSUME NEW t \in Thread,
             \/ MakeDirs(t) \/ Collect(t) \/ Upload(t) \/ PruneRequest(t) \/ PruneRaises(t) \/ CheckLock(t) \/ DeleteDone(t)
      PROVE  RelationsOK'
  BY <1>2, CalmMoves
<1>3. ASSUME NEW t \in Thread, ZipStart(t) PROVE RelationsOK'
  <2> DEFINE place == IF at[t] = "zip1" THEN "writing1" ELSE "writing2"
  <2>1. /\ at[t] \in Exporting /\ Move(t, place) /\ place \in Exporting
        /\ place \notin {"valid", "check", "delete"}
        /\ dir' = Append(Without(dir, name[t]), [name |-> name[t], state |-> "torn"])
        /\ RelyingOn(name[t]) => name[t] \in rewritten'
        /\ rewritten \subseteq rewritten'
        /\ UNCHANGED <<backupLock, second, name, listed, judged, doomed, unread>>
    BY <1>3 DEF ZipStart, Exporting
  <2>2. backupLock' = t
    BY <2>1 DEF BackupInv, ExportOK
  <2> HIDE DEF place
  <2> QED
    BY <2>1, <2>2, WritingKeeps
<1>4. ASSUME NEW t \in Thread, ZipEnd(t) PROVE RelationsOK'
  <2>1. CASE dir' = dir
    BY <1>4, <2>1, CalmMoves
  <2>2. CASE dir' # dir
    <3> DEFINE place == IF at[t] = "writing1" THEN "zip2" ELSE "upload"
    <3>1. /\ at[t] \in Exporting /\ Move(t, place)
          /\ place \notin {"valid", "check", "delete"}
          /\ dir' = Append(Without(dir, name[t]), [name |-> name[t], state |-> "valid"])
          /\ UNCHANGED <<second, name, listed, judged, doomed, rewritten, unread>>
      BY <1>4, <2>2 DEF ZipEnd, Exporting
    <3>2. backupLock = t
      BY <3>1 DEF BackupInv, ExportOK
    <3>3. place \in Exporting => backupLock' = t
      BY <1>4, <2>2, <3>2 DEF ZipEnd, Exporting
    <3>4. "valid" \in {"torn", "valid"} /\ ("valid" = "torn" /\ RelyingOn(name[t]) => name[t] \in rewritten')
      OBVIOUS
    <3> HIDE DEF place
    <3> QED
      BY <3>1, <3>3, <3>4, WritingKeeps
  <2> QED
    BY <2>1, <2>2
<1>5. ASSUME NEW t \in Thread, List(t) PROVE RelationsOK'
  BY <1>5, ListKeeps
<1>6. ASSUME NEW t \in Thread, Judge(t) PROVE RelationsOK'
  BY <1>6, JudgeKeeps
<1>7. ASSUME NEW t \in Thread, Delete(t) PROVE RelationsOK'
  BY <1>7, DeleteKeeps
<1>8. CASE Clock \/ ProcessDies \/ UNCHANGED backupVars
  <2>1. /\ UNCHANGED <<dir, name, rewritten, unread>> /\ second' \in Nat /\ second' >= second
        /\ \A w \in Thread : at'[w] \in Exporting => at[w] \in Exporting /\ backupLock' = backupLock
    BY <1>0, <1>8 DEF Clock, ProcessDies, backupVars, Exporting
  <2>2. \A w \in Thread : at[w] \in Exporting => backupLock = w
    BY DEF BackupInv, ExportOK
  <2>3. \A u \in Thread : at'[u] = "valid" => at[u] = "valid" /\ listed'[u] = listed[u]
    BY <1>8 DEF Clock, ProcessDies, backupVars
  <2>4. \A u \in Thread : at'[u] \in {"check", "delete"} =>
            at[u] \in {"check", "delete"} /\ judged'[u] = judged[u] /\ doomed'[u] = doomed[u]
    BY <1>8 DEF Clock, ProcessDies, backupVars
  <2>5. DirOK' /\ \A u \in Thread : ExportOK(u)' /\ ListOK(u)' /\ DoomOK(u)'
    BY <2>1, <2>2, <2>3, <2>4, Calm
  <2> QED
    BY <2>5 DEF RelationsOK
<1> QED
  BY <1>1, <1>2, <1>3, <1>4, <1>5, <1>6, <1>7, <1>8 DEF BackupNext

\* Every step keeps the types.
LEMMA TypesStep ==
  ASSUME BackupsAssumption, BackupInv, [BackupNext]_backupVars
  PROVE  BackupTypeOK'
<1> USE DEF BackupTypeOK, Archive
<1>0. BackupTypeOK /\ DirOK /\ dir \in Seq(Archive) /\ \A t \in Thread : ExportOK(t)
  BY BackupNumbers DEF BackupInv
<1>1. ASSUME NEW t \in Thread, Export(t) PROVE BackupTypeOK'
  <2>1. second \in 0..MaxSecond
    BY <1>0 DEF BackupsAssumption
  <2> QED
    BY <1>0, <1>1, <2>1 DEF Export, Move
<1>2. ASSUME NEW t \in Thread, MakeDirs(t) \/ Collect(t) \/ Upload(t) \/ PruneRequest(t) PROVE BackupTypeOK'
  <2>1. BackupFault => backupFaults' \in 0..MaxFaults
    BY <1>0 DEF BackupFault, BackupsAssumption
  <2>2. backupFaults' \in 0..MaxFaults /\ backupLock' \in Thread \cup {"free"}
    BY <1>0, <1>2, <2>1 DEF MakeDirs, Collect, Upload, PruneRequest, Free
  <2>3. PICK place \in Places : at' = [at EXCEPT ![t] = place]
    BY <1>2 DEF MakeDirs, Collect, Upload, PruneRequest, Free, Move, Places
  <2>4. UNCHANGED <<dir, second, name, listed, judged, doomed, rewritten, unread>>
    BY <1>2 DEF MakeDirs, Collect, Upload, PruneRequest
  <2> QED
    BY <1>0, <2>2, <2>3, <2>4 DEF Places
<1>3. ASSUME NEW t \in Thread, ZipStart(t) PROVE BackupTypeOK'
  <2>1. at[t] \in Exporting /\ dir' = Append(Without(dir, name[t]), [name |-> name[t], state |-> "torn"])
    BY <1>3 DEF ZipStart, Exporting
  <2>2. name[t] \in 1..MaxSecond /\ dir' \in Seq(Archive)
    BY <1>0, <2>1, WrittenType
  <2>3. at' = [at EXCEPT ![t] = IF at[t] = "zip1" THEN "writing1" ELSE "writing2"]
    BY <1>3 DEF ZipStart, Move
  <2>4. rewritten' \subseteq 1..MaxSecond
    BY <1>0, <1>3, <2>2 DEF ZipStart
  <2>5. UNCHANGED <<backupLock, second, name, listed, judged, doomed, unread, backupFaults>>
    BY <1>3 DEF ZipStart
  <2> QED
    BY <1>0, <2>2, <2>3, <2>4, <2>5
<1>4. ASSUME NEW t \in Thread, ZipEnd(t) PROVE BackupTypeOK'
  <2>1. dir' \in Seq(Archive)
    <3>1. at[t] \in Exporting
      BY <1>4 DEF ZipEnd, Exporting
    <3>2. CASE dir' = Append(Without(dir, name[t]), [name |-> name[t], state |-> "valid"])
      <4>1. "valid" \in {"torn", "valid"}
        OBVIOUS
      <4> QED
        BY <1>0, <3>1, <3>2, <4>1, WrittenType
    <3> QED
      BY <1>0, <1>4, <3>2 DEF ZipEnd
  <2>2. BackupFault => backupFaults' \in 0..MaxFaults
    BY <1>0 DEF BackupFault, BackupsAssumption
  <2>3. backupFaults' \in 0..MaxFaults /\ backupLock' \in Thread \cup {"free"}
    BY <1>0, <1>4, <2>2 DEF ZipEnd, Free
  <2>4. PICK place \in Places : at' = [at EXCEPT ![t] = place]
    BY <1>4 DEF ZipEnd, Free, Move, Places
  <2>5. UNCHANGED <<second, name, listed, judged, doomed, rewritten, unread>>
    BY <1>4 DEF ZipEnd
  <2> QED
    BY <1>0, <2>1, <2>3, <2>4, <2>5 DEF Places
<1>5. ASSUME NEW t \in Thread, List(t) PROVE BackupTypeOK'
  <2>1. listed'[t] \in Seq(1..MaxSecond)
    BY <1>5, ListKeeps
  <2>2. /\ listed' = [listed EXCEPT ![t] = [i \in DOMAIN dir |-> dir[i].name]] /\ at' = [at EXCEPT ![t] = "valid"]
        /\ UNCHANGED <<backupLock, dir, second, name, judged, doomed, rewritten, unread, backupFaults>>
    BY <1>5 DEF List, Move
  <2>3. listed' \in [Thread -> Seq(1..MaxSecond)]
    BY <1>0, <2>1, <2>2
  <2> QED
    BY <1>0, <2>2, <2>3
<1>6. ASSUME NEW t \in Thread, Judge(t) PROVE BackupTypeOK'
  <2>1. judged'[t] \in 0..MaxSecond /\ doomed'[t] \in SUBSET (1..MaxSecond)
    BY <1>6, JudgeKeeps
  <2>2. /\ \E j, d : judged' = [judged EXCEPT ![t] = j] /\ doomed' = [doomed EXCEPT ![t] = d]
        /\ at' = [at EXCEPT ![t] = "check"]
        /\ UNCHANGED <<backupLock, dir, second, name, listed, rewritten>>
    BY <1>6 DEF Judge, Move
  <2>3. judged' \in [Thread -> 0..MaxSecond] /\ doomed' \in [Thread -> SUBSET (1..MaxSecond)]
    BY <1>0, <2>1, <2>2
  <2>4. backupFaults' \in 0..MaxFaults
    BY <1>0, <1>6 DEF Judge, BackupFault, BackupsAssumption
  <2>5. unread' \subseteq 1..MaxSecond
    <3>1. PICK missed \in SUBSET Valid : unread' = unread \cup missed
      BY <1>6 DEF Judge
    <3>2. Valid \subseteq 1..MaxSecond
      BY <1>0, BackupNumbers
    <3> QED
      BY <1>0, <3>1, <3>2
  <2> QED
    BY <1>0, <2>2, <2>3, <2>4, <2>5
<1>7. ASSUME NEW t \in Thread, PruneRaises(t) \/ CheckLock(t) \/ DeleteDone(t) PROVE BackupTypeOK'
  <2>1. PruneOver(t) => /\ listed' \in [Thread -> Seq(1..MaxSecond)] /\ judged' \in [Thread -> 0..MaxSecond]
                        /\ doomed' \in [Thread -> SUBSET (1..MaxSecond)]
                        /\ at' = [at EXCEPT ![t] = "idle"]
    BY <1>0 DEF PruneOver, Move, BackupsAssumption
  <2>2. /\ listed' \in [Thread -> Seq(1..MaxSecond)] /\ judged' \in [Thread -> 0..MaxSecond]
        /\ doomed' \in [Thread -> SUBSET (1..MaxSecond)]
        /\ UNCHANGED <<backupLock, dir, second, name, rewritten, unread, backupFaults>>
        /\ \E place \in {"idle", "delete"} : at' = [at EXCEPT ![t] = place]
    BY <1>0, <1>7, <2>1 DEF PruneRaises, CheckLock, DeleteDone, Move
  <2> QED
    BY <1>0, <2>2
<1>8. ASSUME NEW t \in Thread, Delete(t) PROVE BackupTypeOK'
  <2>1. dir' \in Seq(Archive) /\ doomed'[t] \in SUBSET (1..MaxSecond)
    BY <1>8, DeleteKeeps
  <2>2. \E d : doomed' = [doomed EXCEPT ![t] = d]
    BY <1>8 DEF Delete
  <2>3. doomed' \in [Thread -> SUBSET (1..MaxSecond)]
    BY <1>0, <2>1, <2>2
  <2>4. UNCHANGED <<at, backupLock, second, name, listed, judged, rewritten, unread>>
    BY <1>8 DEF Delete
  <2>5. backupFaults' \in 0..MaxFaults
    <3>1. backupFaults' = backupFaults \/ BackupFault
      BY <1>8 DEF Delete
    <3> QED
      BY <1>0, <3>1 DEF BackupFault, BackupsAssumption
  <2> QED
    BY <1>0, <2>1, <2>3, <2>4, <2>5
<1>9. CASE Clock
  <2>1. second' \in 1..MaxSecond
    BY <1>0, <1>9 DEF Clock, BackupsAssumption
  <2> QED
    BY <1>0, <1>9, <2>1 DEF Clock
<1>10. CASE ProcessDies
  <2>1. backupFaults' \in 0..MaxFaults /\ 0 \in 0..MaxSecond
    BY <1>0, <1>10 DEF ProcessDies, BackupFault, BackupsAssumption
  <2> QED
    BY <1>0, <1>10, <2>1 DEF ProcessDies
<1>11. CASE UNCHANGED backupVars
  BY <1>0, <1>11 DEF backupVars
<1> QED
  BY <1>1, <1>2, <1>3, <1>4, <1>5, <1>6, <1>7, <1>8, <1>9, <1>10, <1>11 DEF BackupNext

\* Always, of the exports and the prunes of any number of threads.
LEMMA BackupInvariant == BackupsAssumption => (BackupSpec => []BackupInv)
<1> SUFFICES ASSUME BackupsAssumption PROVE BackupSpec => []BackupInv
  OBVIOUS
<1>1. BackupInit => BackupInv
  BY BackupsStart
<1>2. BackupInv /\ [BackupNext]_backupVars => BackupInv'
  BY TypesStep, RelationsStep DEF BackupInv, RelationsOK
<1> QED
  BY <1>1, <1>2, PTL DEF BackupSpec

\* Every variable of the exports and prunes keeps its type: the archives stay a
\* sequence of archives with names of past seconds (data_vault.py).
THEOREM BackupTypes == BackupsAssumption => (BackupSpec => []BackupTypeOK)
<1> SUFFICES ASSUME BackupsAssumption PROVE BackupSpec => []BackupTypeOK
  OBVIOUS
<1>1. BackupInv => BackupTypeOK
  BY DEF BackupInv
<1> QED
  BY <1>1, BackupInvariant, PTL

\* The only ways to lose the last valid archive to a prune, for any number of exports
\* and prunes beside each other and any archives to keep: one that its reading had
\* passed over, or one that was all it relied on and was rewritten
\* (data_vault.py:625-632, 802-817).
THEOREM ValidArchiveKept == BackupsAssumption => (BackupSpec => PruneKeepsAValid)
<1> SUFFICES ASSUME BackupsAssumption PROVE BackupSpec => PruneKeepsAValid
  OBVIOUS
<1>1. ASSUME BackupInv, NEW t \in Thread, Delete(t), Valid # {}
      PROVE  Valid' # {} \/ \E m \in rewritten \cup unread : m >= judged[t]
  <2>1. PICK n \in doomed[t] : Valid' \in {Valid, Valid \ {n}}
    BY <1>1, DeleteKeeps
  <2>2. \/ Excused(t)
        \/ doomed[t] \cap Valid = {}
        \/ \E m \in Valid : m >= judged[t] /\ m \notin doomed[t]
    BY <1>1 DEF BackupInv, DoomOK, Delete
  <2> QED
    BY <1>1, <2>1, <2>2 DEF Excused
<1>2. BackupInv =>
         [\A t \in Thread : Delete(t) /\ Valid # {} =>
             Valid' # {} \/ \E m \in rewritten \cup unread : m >= judged[t]]_backupVars
  BY <1>1
<1> QED
  BY <1>2, BackupInvariant, PTL DEF PruneKeepsAValid
=============================================================================
