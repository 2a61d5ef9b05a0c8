-------------------------- MODULE LSMTablesProofs --------------------------
(***************************************************************************)
(* Facts about the operators of LSMTables, for tables, lists and logs of   *)
(* any size.                                                               *)
(***************************************************************************)
EXTENDS LSMTables, SequenceTheorems, WellFoundedInduction, TLAPS

-----------------------------------------------------------------------------
(* Max *)

\* A non-empty set of naturals with a bound has a maximum.
LEMMA MaxExists ==
    ASSUME NEW n \in Nat, NEW S \in SUBSET (0..n), S # {}
    PROVE  Max(S) \in S /\ \A y \in S : y <= Max(S)
<1> DEFINE T == {n - x : x \in S}
           R == OpToRel(<, Nat)
<1>1. T \subseteq Nat
  OBVIOUS
<1>2. T # {}
  <2>1. PICK x \in S : TRUE
    OBVIOUS
  <2>2. n - x \in T
    BY <2>1
  <2> QED
    BY <2>2
<1>3. IsWellFoundedOn(R, Nat)
  BY NatLessThanWellFounded
<1>4. \A a, b \in Nat : a < b => <<a, b>> \in R
  BY DEF OpToRel
<1> HIDE DEF R, T
<1>5. PICK m \in T : \A y \in T : ~(<<y, m>> \in R)
  BY <1>1, <1>2, <1>3, WFMin
<1>6. \A y \in T : ~(y < m)
  BY <1>1, <1>4, <1>5
<1>7. \E x \in S : \A y \in S : x >= y
  <2>1. PICK x \in S : m = n - x
    BY DEF T
  <2>2. ASSUME NEW y \in S PROVE x >= y
    <3>1. n - y \in T
      BY DEF T
    <3> QED
      BY <3>1, <2>1, <1>6
  <2> QED
    BY <2>2
<1> QED
  BY <1>7 DEF Max

\* It is the only element that is not below another.
LEMMA MaxUnique ==
    ASSUME NEW S \in SUBSET Int, NEW m \in S, \A y \in S : y <= m
    PROVE  Max(S) = m
<1>1. /\ Max(S) \in S
      /\ \A y \in S : Max(S) >= y
  BY DEF Max
<1>2. Max(S) \in Int /\ m \in Int /\ Max(S) >= m /\ Max(S) <= m
  BY <1>1
<1> QED
  BY <1>2

-----------------------------------------------------------------------------
(* Newest: the list of tables as get and MergeSSTables read it *)

\* The parts of a table in a list.
LEMMA ElementType ==
    ASSUME NEW ssts \in Seq(SSTable), NEW i \in 1..Len(ssts)
    PROVE  ssts[i] \in SSTable /\ ssts[i].number \in Nat /\ ssts[i].entries \in Table
<1>1. ssts[i] \in SSTable
  OBVIOUS
<1> QED
  BY <1>1 DEF SSTable

\* One more table of a prefix.
LEMMA PrefixAppend ==
    ASSUME NEW ssts \in Seq(SSTable), NEW n \in 1..Len(ssts)
    PROVE  SubSeq(ssts, 1, n) = Append(SubSeq(ssts, 1, n - 1), ssts[n])
<1> DEFINE a == SubSeq(ssts, 1, n)
           p == SubSeq(ssts, 1, n - 1)
           b == Append(p, ssts[n])
<1>1. /\ a \in Seq(SSTable) /\ Len(a) = n
      /\ \A i \in 1..n : a[i] = ssts[i]
  OBVIOUS
<1>2. /\ p \in Seq(SSTable) /\ Len(p) = n - 1
      /\ \A i \in 1..(n - 1) : p[i] = ssts[i]
  OBVIOUS
<1>3. ssts[n] \in SSTable
  OBVIOUS
<1> HIDE DEF a, p
<1>4. /\ b \in Seq(SSTable) /\ Len(b) = n
      /\ \A i \in 1..n : b[i] = ssts[i]
  BY <1>2, <1>3
<1> HIDE DEF b
<1>5. a = b
  BY <1>1, <1>4, SeqEqual
<1> QED
  BY <1>5 DEF a, b, p

\* The last table with an entry decides.
LEMMA NewestHit ==
    ASSUME NEW ssts \in Seq(SSTable), NEW k \in Key, NEW i \in 1..Len(ssts),
           ssts[i].entries[k] # Absent,
           \A j \in 1..Len(ssts) : i < j => ssts[j].entries[k] = Absent
    PROVE  Newest(ssts, k) = ssts[i].entries[k]
<1> DEFINE hits == {j \in 1..Len(ssts) : ssts[j].entries[k] # Absent}
<1>1. i \in hits /\ hits \in SUBSET Int /\ \A j \in hits : j <= i
  OBVIOUS
<1>2. Max(hits) = i
  BY <1>1, MaxUnique
<1> QED
  BY <1>1, <1>2 DEF Newest

\* With no entry anywhere there is none.
LEMMA NewestMiss ==
    ASSUME NEW ssts \in Seq(SSTable), NEW k \in Key,
           \A j \in 1..Len(ssts) : ssts[j].entries[k] = Absent
    PROVE  Newest(ssts, k) = Absent
  BY DEF Newest

\* One of the two is the case.
LEMMA NewestCases ==
    ASSUME NEW ssts \in Seq(SSTable), NEW k \in Key
    PROVE  \/ \A j \in 1..Len(ssts) : ssts[j].entries[k] = Absent
           \/ \E i \in 1..Len(ssts) :
                 /\ ssts[i].entries[k] # Absent
                 /\ \A j \in 1..Len(ssts) : i < j => ssts[j].entries[k] = Absent
<1> DEFINE hits == {j \in 1..Len(ssts) : ssts[j].entries[k] # Absent}
<1>1. CASE hits = {}
  BY <1>1
<1>2. CASE hits # {}
  <2>1. Len(ssts) \in Nat /\ hits \in SUBSET (0..Len(ssts))
    OBVIOUS
  <2>2. Max(hits) \in hits /\ \A y \in hits : y <= Max(hits)
    BY <1>2, <2>1, MaxExists
  <2> QED
    BY <2>1, <2>2
<1> QED
  BY <1>1, <1>2

\* The answer is an entry or Absent.
LEMMA NewestType ==
    ASSUME NEW ssts \in Seq(SSTable), NEW k \in Key
    PROVE  Newest(ssts, k) \in Entry \cup {Absent}
<1>1. ASSUME NEW i \in 1..Len(ssts) PROVE ssts[i].entries[k] \in Entry \cup {Absent}
  BY ElementType DEF Table
<1>2. CASE \A j \in 1..Len(ssts) : ssts[j].entries[k] = Absent
  BY <1>2, NewestMiss
<1>3. CASE \E i \in 1..Len(ssts) :
              /\ ssts[i].entries[k] # Absent
              /\ \A j \in 1..Len(ssts) : i < j => ssts[j].entries[k] = Absent
  BY <1>1, <1>3, NewestHit
<1> QED
  BY <1>2, <1>3, NewestCases

\* Flush: a table at the back of the list decides for its own keys and
\* leaves the others alone.
LEMMA NewestAppend ==
    ASSUME NEW ssts \in Seq(SSTable), NEW t \in SSTable, NEW k \in Key
    PROVE  Newest(Append(ssts, t), k) =
              IF t.entries[k] # Absent THEN t.entries[k] ELSE Newest(ssts, k)
<1> DEFINE new == Append(ssts, t)
<1>1. /\ new \in Seq(SSTable) /\ Len(new) = Len(ssts) + 1 /\ Len(ssts) \in Nat
      /\ new[Len(ssts) + 1] = t
      /\ \A i \in 1..Len(ssts) : new[i] = ssts[i]
  OBVIOUS
<1> HIDE DEF new
<1>2. CASE t.entries[k] # Absent
  <2>1. Newest(new, k) = new[Len(ssts) + 1].entries[k]
    BY <1>1, <1>2, NewestHit
  <2> QED
    BY <1>1, <1>2, <2>1 DEF new
<1>3. CASE t.entries[k] = Absent
  <2>1. CASE \A j \in 1..Len(ssts) : ssts[j].entries[k] = Absent
    <3>1. \A j \in 1..Len(new) : new[j].entries[k] = Absent
      BY <1>1, <1>3, <2>1
    <3> QED
      BY <1>1, <1>3, <2>1, <3>1, NewestMiss DEF new
  <2>2. ASSUME NEW i \in 1..Len(ssts),
               ssts[i].entries[k] # Absent,
               \A j \in 1..Len(ssts) : i < j => ssts[j].entries[k] = Absent
        PROVE  Newest(new, k) = Newest(ssts, k)
    <3>1. Newest(ssts, k) = ssts[i].entries[k]
      BY <2>2, NewestHit
    <3>2. /\ i \in 1..Len(new) /\ new[i].entries[k] # Absent
          /\ \A j \in 1..Len(new) : i < j => new[j].entries[k] = Absent
      BY <1>1, <1>3, <2>2
    <3>3. Newest(new, k) = new[i].entries[k]
      BY <1>1, <3>2, NewestHit
    <3> QED
      BY <1>1, <3>1, <3>3
  <2> QED
    BY <1>3, <2>1, <2>2, NewestCases DEF new
<1> QED
  BY <1>2, <1>3

\* Compaction: replacing a prefix of the list by its merge without tombstones
\* changes no answer.
LEMMA NewestSwap ==
    ASSUME NEW ssts \in Seq(SSTable), NEW snap \in Seq(SSTable),
           Len(snap) <= Len(ssts),
           \A i \in 1..Len(snap) : snap[i] = ssts[i],
           NEW t \in SSTable, t.entries = DropTombstones(MergeSSTables(snap)),
           NEW k \in Key
    PROVE  Optional(Newest(<<t>> \o SubSeq(ssts, Len(snap) + 1, Len(ssts)), k))
              = Optional(Newest(ssts, k))
<1> DEFINE n == Len(snap)
           new == <<t>> \o SubSeq(ssts, n + 1, Len(ssts))
<1>1. /\ n \in Nat /\ Len(ssts) \in Nat
      /\ SubSeq(ssts, n + 1, Len(ssts)) \in Seq(SSTable)
      /\ Len(SubSeq(ssts, n + 1, Len(ssts))) = Len(ssts) - n
      /\ \A i \in 1..(Len(ssts) - n) : SubSeq(ssts, n + 1, Len(ssts))[i] = ssts[n + i]
  OBVIOUS
<1>2. /\ new \in Seq(SSTable) /\ Len(new) = 1 + Len(ssts) - n
      /\ new[1] = t
      /\ \A i \in 2..Len(new) : new[i] = ssts[n + i - 1]
  BY <1>1
<1>3. t.entries[k] = IF Newest(snap, k) = Tombstone THEN Absent ELSE Newest(snap, k)
  BY DEF DropTombstones, MergeSSTables
<1> HIDE DEF new, n
<1>4. CASE \E i \in n + 1 .. Len(ssts) :
              /\ ssts[i].entries[k] # Absent
              /\ \A j \in 1..Len(ssts) : i < j => ssts[j].entries[k] = Absent
  <2>1. PICK i \in n + 1 .. Len(ssts) :
              /\ ssts[i].entries[k] # Absent
              /\ \A j \in 1..Len(ssts) : i < j => ssts[j].entries[k] = Absent
    BY <1>4
  <2>2. Newest(ssts, k) = ssts[i].entries[k]
    BY <1>1, <2>1, NewestHit
  <2> DEFINE p == i - n + 1
  <2>3. p \in 2..Len(new) /\ p \in 1..Len(new) /\ n + p - 1 = i
    BY <1>1, <1>2
  <2>4. new[p] = ssts[i]
    BY <1>2, <2>3
  <2>5. ASSUME NEW j \in 1..Len(new), p < j PROVE new[j].entries[k] = Absent
    <3>1. /\ j \in 2..Len(new)
          /\ n + j - 1 \in 1..Len(ssts) /\ i < n + j - 1
      BY <1>1, <1>2, <2>5
    <3>2. new[j] = ssts[n + j - 1]
      BY <1>2, <3>1
    <3> QED
      BY <2>1, <3>1, <3>2
  <2> HIDE DEF p
  <2>6. Newest(new, k) = ssts[i].entries[k]
    BY <1>2, <2>1, <2>3, <2>4, <2>5, NewestHit
  <2> QED
    BY <2>2, <2>6 DEF new, n
<1>5. CASE \A j \in n + 1 .. Len(ssts) : ssts[j].entries[k] = Absent
  <2>1. ASSUME NEW j \in 2..Len(new) PROVE new[j].entries[k] = Absent
    <3>1. n + j - 1 \in n + 1 .. Len(ssts)
      BY <1>1, <1>2
    <3>2. new[j] = ssts[n + j - 1]
      BY <1>2
    <3> QED
      BY <1>5, <3>1, <3>2
  <2>2. Newest(new, k) = t.entries[k]
    <3>1. CASE t.entries[k] # Absent
      BY <1>1, <1>2, <2>1, <3>1, NewestHit
    <3>2. CASE t.entries[k] = Absent
      BY <1>1, <1>2, <2>1, <3>2, NewestMiss
    <3> QED
      BY <3>1, <3>2
  <2>3. Newest(ssts, k) = Newest(snap, k)
    <3>1. CASE \A j \in 1..Len(snap) : snap[j].entries[k] = Absent
      <4>1. \A j \in 1..Len(ssts) : ssts[j].entries[k] = Absent
        BY <1>1, <1>5, <3>1 DEF n
      <4> QED
        BY <3>1, <4>1, NewestMiss
    <3>2. ASSUME NEW i \in 1..Len(snap), snap[i].entries[k] # Absent,
                 \A j \in 1..Len(snap) : i < j => snap[j].entries[k] = Absent
          PROVE  Newest(ssts, k) = Newest(snap, k)
      <4>1. /\ i \in 1..Len(ssts) /\ ssts[i].entries[k] # Absent
            /\ \A j \in 1..Len(ssts) : i < j => ssts[j].entries[k] = Absent
        BY <1>1, <1>5, <3>2 DEF n
      <4>2. Newest(ssts, k) = ssts[i].entries[k]
        BY <4>1, NewestHit
      <4>3. Newest(snap, k) = snap[i].entries[k]
        BY <3>2, NewestHit
      <4> QED
        BY <4>2, <4>3
    <3> QED
      BY <3>1, <3>2, NewestCases
  <2> QED
    BY <1>3, <2>2, <2>3, DataAssumption DEF Optional, new, n
<1> QED
  BY <1>1, <1>4, <1>5, NewestCases

\* Recovery: the constructor's list, opened in the order of the file numbers,
\* answers as the directory does.
LEMMA NewestSorted ==
    ASSUME NEW ssts \in Seq(SSTable), NEW d, NEW k \in Key,
           DOMAIN d = {ssts[i].number : i \in 1..Len(ssts)},
           \A i \in 1..Len(ssts) : d[ssts[i].number] = ssts[i].entries,
           \A i, j \in 1..Len(ssts) : i < j => ssts[i].number < ssts[j].number
    PROVE  Newest(ssts, k) = NewestOnDisk(d, k)
<1> DEFINE hits == {m \in DOMAIN d : d[m][k] # Absent}
<1>1. ASSUME NEW i \in 1..Len(ssts) PROVE ssts[i].number \in Nat
  BY ElementType
<1>2. CASE \A j \in 1..Len(ssts) : ssts[j].entries[k] = Absent
  <2>1. hits = {}
    BY <1>2
  <2> QED
    BY <1>2, <2>1, NewestMiss DEF NewestOnDisk
<1>3. ASSUME NEW i \in 1..Len(ssts), ssts[i].entries[k] # Absent,
             \A j \in 1..Len(ssts) : i < j => ssts[j].entries[k] = Absent
      PROVE  Newest(ssts, k) = NewestOnDisk(d, k)
  <2>1. ssts[i].number \in hits /\ hits \in SUBSET Int
    BY <1>1, <1>3
  <2>2. \A m \in hits : m <= ssts[i].number
    <3> SUFFICES ASSUME NEW m \in hits PROVE m <= ssts[i].number
      OBVIOUS
    <3>1. PICK j \in 1..Len(ssts) : m = ssts[j].number
      OBVIOUS
    <3>2. ssts[j].entries[k] # Absent
      BY <3>1
    <3>3. j <= i
      BY <1>3, <3>2
    <3> QED
      BY <1>1, <3>1, <3>3
  <2>3. Max(hits) = ssts[i].number
    BY <2>1, <2>2, MaxUnique
  <2>4. NewestOnDisk(d, k) = ssts[i].entries[k]
    BY <2>1, <2>3 DEF NewestOnDisk
  <2> QED
    BY <1>3, <2>4, NewestHit
<1> QED
  BY <1>2, <1>3, NewestCases

-----------------------------------------------------------------------------
(* WAL replay *)

\* Replay rebuilds a MemTable.
LEMMA ReplayedType ==
    ASSUME NEW w \in Seq(WalRecord \cup {Torn})
    PROVE  Replayed(w) \in Table
<1> SUFFICES ASSUME NEW k \in Key PROVE Replayed(w)[k] \in Entry \cup {Absent}
  BY DEF Replayed, Table
<1> DEFINE hits == {i \in Decodable(w) : w[i].key = k}
<1>1. CASE hits = {}
  BY <1>1 DEF Replayed
<1>2. CASE hits # {}
  <2>1. Len(w) \in Nat /\ hits \in SUBSET (0..Len(w))
    BY DEF Decodable
  <2>2. Max(hits) \in hits
    BY <1>2, <2>1, MaxExists
  <2>3. w[Max(hits)] \in WalRecord
    BY <2>2 DEF Decodable
  <2> QED
    BY <1>2, <2>3 DEF Replayed, WalRecord
<1> QED
  BY <1>1, <1>2

\* The truncated log is a log.
LEMMA TruncateTailType ==
    ASSUME NEW w \in Seq(WalRecord \cup {Torn})
    PROVE  TruncateTail(w) \in Seq(WalRecord \cup {Torn})
<1> DEFINE S == Decodable(w) \cup {0}
<1>1. Len(w) \in Nat /\ S \in SUBSET (0..Len(w)) /\ S # {}
  BY DEF Decodable
<1>2. Max(S) \in S
  BY <1>1, MaxExists
<1>3. Max(S) \in 0..Len(w)
  BY <1>1, <1>2
<1> DEFINE m == Max(S)
<1>4. m \in Nat /\ m <= Len(w)
  BY <1>1, <1>3
<1> HIDE DEF m
<1>5. SubSeq(w, 1, m) \in Seq(WalRecord \cup {Torn})
  BY <1>1, <1>4
<1> QED
  BY <1>5 DEF TruncateTail, m

\* The last record of a key that replay reaches decides.
LEMMA ReplayedHit ==
    ASSUME NEW w \in Seq(WalRecord \cup {Torn}), NEW k \in Key, NEW i \in Decodable(w),
           w[i].key = k,
           \A j \in Decodable(w) : w[j].key = k => j <= i
    PROVE  Replayed(w)[k] = w[i].entry
<1> DEFINE hits == {j \in Decodable(w) : w[j].key = k}
<1>1. i \in hits /\ hits \in SUBSET Int /\ \A j \in hits : j <= i
  BY DEF Decodable
<1>2. Max(hits) = i
  BY <1>1, MaxUnique
<1> QED
  BY <1>1, <1>2 DEF Replayed

\* Two logs with the same records up to where replay stops give the same
\* MemTable.
LEMMA ReplayedSame ==
    ASSUME NEW v \in Seq(WalRecord \cup {Torn}), NEW w \in Seq(WalRecord \cup {Torn}),
           Decodable(v) = Decodable(w),
           \A i \in Decodable(w) : v[i] = w[i]
    PROVE  Replayed(v) = Replayed(w)
<1> SUFFICES ASSUME NEW k \in Key PROVE Replayed(v)[k] = Replayed(w)[k]
  BY DEF Replayed
<1> DEFINE hits == {j \in Decodable(w) : w[j].key = k}
<1>1. {j \in Decodable(v) : v[j].key = k} = hits
  OBVIOUS
<1>2. CASE hits = {}
  BY <1>1, <1>2 DEF Replayed
<1>3. CASE hits # {}
  <2>1. Len(w) \in Nat /\ hits \in SUBSET (0..Len(w))
    BY DEF Decodable
  <2>2. Max(hits) \in hits
    BY <1>3, <2>1, MaxExists
  <2>3. v[Max(hits)] = w[Max(hits)]
    BY <2>2
  <2> QED
    BY <1>1, <1>3, <2>3 DEF Replayed
<1> QED
  BY <1>2, <1>3

\* A fresh log replays to an empty MemTable.
LEMMA ReplayedEmpty == Replayed(<<>>) = EmptyTable
  BY DEF Replayed, Decodable, EmptyTable

\* The first part of a record changes nothing that replay sees.
LEMMA ReplayedTorn ==
    ASSUME NEW w \in Seq(WalRecord \cup {Torn})
    PROVE  Replayed(Append(w, Torn)) = Replayed(w)
<1> DEFINE v == Append(w, Torn)
<1>1. /\ v \in Seq(WalRecord \cup {Torn}) /\ Len(v) = Len(w) + 1 /\ Len(w) \in Nat
      /\ v[Len(w) + 1] = Torn
      /\ \A i \in 1..Len(w) : v[i] = w[i]
  OBVIOUS
<1> HIDE DEF v
<1>2. Decodable(v) = Decodable(w)
  <2>1. ASSUME NEW i \in Decodable(v) PROVE i \in Decodable(w)
    <3>1. i \in 1..(Len(w) + 1) /\ \A j \in 1..i : v[j] # Torn
      BY <1>1 DEF Decodable
    <3>2. i # Len(w) + 1
      BY <1>1, <3>1
    <3>3. i \in 1..Len(w) /\ \A j \in 1..i : j \in 1..Len(w)
      BY <1>1, <3>1, <3>2
    <3> QED
      BY <1>1, <3>1, <3>3 DEF Decodable
  <2>2. ASSUME NEW i \in Decodable(w) PROVE i \in Decodable(v)
    <3>1. i \in 1..Len(w) /\ \A j \in 1..i : w[j] # Torn
      BY DEF Decodable
    <3>2. i \in 1..Len(v) /\ \A j \in 1..i : j \in 1..Len(w)
      BY <1>1, <3>1
    <3> QED
      BY <1>1, <3>1, <3>2 DEF Decodable
  <2> QED
    BY <2>1, <2>2
<1>3. \A i \in Decodable(w) : v[i] = w[i]
  BY <1>1 DEF Decodable
<1>4. Replayed(v) = Replayed(w)
  BY <1>1, <1>2, <1>3, ReplayedSame
<1> QED
  BY <1>4 DEF v

\* The rest of it makes the record the newest of its key.
LEMMA ReplayedWritten ==
    ASSUME NEW v \in Seq(WalRecord \cup {Torn}), Len(v) > 0, v[Len(v)] = Torn,
           \A i \in 1..Len(v) : v[i] = Torn => i = Len(v),
           NEW r \in WalRecord
    PROVE  Replayed([v EXCEPT ![Len(v)] = r]) = Upsert(Replayed(v), r.key, r.entry)
<1> DEFINE n == Len(v)
           w == [v EXCEPT ![n] = r]
<1>0. n \in Nat /\ n > 0 /\ v \in [1..n -> WalRecord \cup {Torn}]
  OBVIOUS
<1>l. \A i \in 1..n : v[i] = Torn => i = n
  OBVIOUS
<1> HIDE DEF n
<1>1. /\ w \in [1..n -> WalRecord \cup {Torn}]
      /\ w[n] = r /\ \A i \in 1..(n - 1) : w[i] = v[i]
  BY <1>0
<1> HIDE DEF w
<1>2. w \in Seq(WalRecord \cup {Torn}) /\ Len(w) = n
  BY <1>0, <1>1
<1>3. r # Torn /\ r.key \in Key /\ r.entry \in Entry
  BY TornAssumption DEF WalRecord, Entry
<1>5. Decodable(w) = 1..n
  BY <1>0, <1>1, <1>2, <1>3, <1>l DEF Decodable
<1>6. Decodable(v) = 1..(n - 1)
  <2>1. Len(v) = n /\ v[n] = Torn
    BY DEF n
  <2> QED
    BY <1>0, <1>l, <2>1 DEF Decodable
<1>7. ASSUME NEW k \in Key
      PROVE  Replayed(w)[k] = IF k = r.key THEN r.entry ELSE Replayed(v)[k]
  <2>1. CASE k = r.key
    <3>1. n \in Decodable(w) /\ w[n].key = k /\ \A j \in Decodable(w) : j <= n
      BY <1>0, <1>1, <1>5, <2>1
    <3> QED
      BY <1>1, <1>2, <2>1, <3>1, ReplayedHit
  <2>2. CASE k # r.key
    <3>1. {j \in Decodable(w) : w[j].key = k} = {j \in Decodable(v) : v[j].key = k}
      <4>1. \A j \in 1..n : j = n \/ j \in 1..(n - 1)
        BY <1>0
      <4>2. \A j \in 1..(n - 1) : j \in 1..n
        BY <1>0
      <4> QED
        BY <1>1, <1>5, <1>6, <2>2, <4>1, <4>2
    <3> DEFINE hits == {j \in Decodable(v) : v[j].key = k}
    <3>2. CASE hits = {}
      BY <2>2, <3>1, <3>2 DEF Replayed
    <3>3. CASE hits # {}
      <4>1. n - 1 \in Nat /\ hits \in SUBSET (0..(n - 1))
        BY <1>0, <1>6
      <4>2. Max(hits) \in hits
        BY <3>3, <4>1, MaxExists
      <4>3. w[Max(hits)] = v[Max(hits)]
        BY <1>1, <1>6, <4>2
      <4> QED
        BY <2>2, <3>1, <3>3, <4>3 DEF Replayed
    <3> QED
      BY <3>2, <3>3
  <2> QED
    BY <2>1, <2>2
<1>8. Replayed(w) = Upsert(Replayed(v), r.key, r.entry)
  BY <1>7 DEF Replayed, Upsert
<1> QED
  BY <1>8 DEF w, n

\* ftruncate cuts exactly what replay does not reach.
LEMMA TruncateTailExact ==
    ASSUME NEW w \in Seq(WalRecord \cup {Torn})
    PROVE  /\ Replayed(TruncateTail(w)) = Replayed(w)
           /\ \A i \in 1..Len(TruncateTail(w)) : TruncateTail(w)[i] # Torn
<1> DEFINE S == Decodable(w) \cup {0}
           m == Max(S)
           t == SubSeq(w, 1, m)
<1>1. Len(w) \in Nat /\ S \in SUBSET (0..Len(w)) /\ S # {}
  BY DEF Decodable
<1>2. m \in S /\ \A y \in S : y <= m
  BY <1>1, MaxExists
<1> HIDE DEF m
<1>3. m \in 0..Len(w)
  BY <1>1, <1>2
<1>4. /\ t \in Seq(WalRecord \cup {Torn}) /\ Len(t) = m
      /\ \A i \in 1..m : t[i] = w[i]
  BY <1>1, <1>3
<1> HIDE DEF t
<1>5. ASSUME NEW i \in 1..m PROVE w[i] # Torn
  <2>1. m \in Decodable(w)
    BY <1>2, <1>3
  <2> QED
    BY <2>1 DEF Decodable
<1>6. Decodable(w) = 1..m
  <2>1. ASSUME NEW i \in Decodable(w) PROVE i \in 1..m
    BY <1>1, <1>2, <1>3 DEF Decodable
  <2>2. ASSUME NEW i \in 1..m PROVE i \in Decodable(w)
    BY <1>1, <1>3, <1>5 DEF Decodable
  <2> QED
    BY <2>1, <2>2
<1>7. Decodable(t) = 1..m
  BY <1>3, <1>4, <1>5 DEF Decodable
<1>8. Replayed(t) = Replayed(w)
  BY <1>4, <1>6, <1>7, ReplayedSame
<1>9. \A i \in 1..Len(t) : t[i] # Torn
  BY <1>4, <1>5
<1> QED
  BY <1>8, <1>9 DEF TruncateTail, t, m

\* Where the first record that does not decode is, replay ends and ftruncate cuts.
LEMMA TailCut ==
    ASSUME NEW w \in Seq(WalRecord \cup {Torn}), NEW v \in Seq(WalRecord \cup {Torn}),
           Len(v) <= Len(w), \A n \in 1..Len(v) : v[n] # Torn /\ w[n] = v[n],
           Len(w) > Len(v) => w[Len(v) + 1] = Torn
    PROVE  TruncateTail(w) = v /\ Replayed(w) = Replayed(v)
<1> DEFINE m == Len(v)
           S == Decodable(w) \cup {0}
           t == SubSeq(w, 1, m)
<1>1. m \in Nat /\ Len(w) \in Nat /\ m <= Len(w)
  OBVIOUS
<1>2. Decodable(w) = 1..m
  <2>1. ASSUME NEW i \in Decodable(w) PROVE i \in 1..m
    <3>1. i \in 1..Len(w) /\ \A j \in 1..i : w[j] # Torn
      BY DEF Decodable
    <3>2. CASE i > m
      <4>1. m + 1 \in 1..i /\ Len(w) > m
        BY <1>1, <3>1, <3>2
      <4> QED
        BY <3>1, <4>1
    <3> QED
      BY <1>1, <3>1, <3>2
  <2>2. ASSUME NEW i \in 1..m PROVE i \in Decodable(w)
    <3>1. i \in 1..Len(w) /\ \A j \in 1..i : j \in 1..m
      BY <1>1
    <3> QED
      BY <3>1 DEF Decodable
  <2> QED
    BY <2>1, <2>2
<1>3. Decodable(v) = 1..m
  BY <1>1 DEF Decodable
<1>4. Max(S) = m
  <2>1. S = 0..m
    BY <1>1, <1>2
  <2>2. S \in SUBSET Int /\ m \in S /\ \A y \in S : y <= m
    BY <1>1, <2>1
  <2> HIDE DEF S, m
  <2> QED
    BY <2>2, MaxUnique
<1>5. t = v
  <2>1. t \in Seq(WalRecord \cup {Torn}) /\ Len(t) = m /\ \A n \in 1..m : t[n] = w[n]
    BY <1>1
  <2> HIDE DEF t
  <2>2. \A n \in 1..m : t[n] = v[n]
    BY <2>1
  <2> QED
    BY <1>1, <2>1, <2>2, SeqEqual
<1>6. Replayed(w) = Replayed(v)
  BY <1>2, <1>3, ReplayedSame
<1> QED
  BY <1>4, <1>5, <1>6 DEF TruncateTail

-----------------------------------------------------------------------------
(* NewestOnDisk: the directory as recovery will read it *)

\* The highest-numbered file with an entry decides.
LEMMA OnDiskHit ==
    ASSUME NEW d, DOMAIN d \subseteq Nat, NEW k \in Key, NEW n \in DOMAIN d,
           d[n][k] # Absent,
           \A m \in DOMAIN d : d[m][k] # Absent => m <= n
    PROVE  NewestOnDisk(d, k) = d[n][k]
<1> DEFINE hits == {m \in DOMAIN d : d[m][k] # Absent}
<1>1. n \in hits /\ hits \in SUBSET Int /\ \A m \in hits : m <= n
  OBVIOUS
<1>2. Max(hits) = n
  BY <1>1, MaxUnique
<1> QED
  BY <1>1, <1>2 DEF NewestOnDisk

\* With no entry anywhere there is none.
LEMMA OnDiskMiss ==
    ASSUME NEW d, NEW k \in Key, \A m \in DOMAIN d : d[m][k] = Absent
    PROVE  NewestOnDisk(d, k) = Absent
  BY DEF NewestOnDisk
=============================================================================
