------------------------ MODULE LedgerStoreV2Proofs ------------------------
(***************************************************************************)
(* Proofs about LedgerStoreV2, for every set of stores, transactions and   *)
(* event bodies, every MaxEvents, and any number of faults and of power    *)
(* losses in any order: the files stay reconcilable, the answers stay      *)
(* true, and the store implements ExactlyOnceLog, until a power loss takes *)
(* an unsynced line that a call had acted on.                              *)
(***************************************************************************)
EXTENDS LedgerStoreV2, TLAPS

\* What every step leaves: the lines alternate, the k-th transaction is the
\* k-th event, and the journal is at most one line ahead or behind.
Pos == Nat \ {0}
Lengths ==
    /\ Len(journal) \in {2 * Len(log) - 1, 2 * Len(log), 2 * Len(log) + 1}
    /\ Len(log) <= MaxEvents /\ Len(journal) <= 2 * MaxEvents
PrepareLine(k) ==
    /\ journal[2 * k - 1].kind = "PREPARE"
    /\ journal[2 * k - 1].envelope.sequence = k
    /\ journal[2 * k - 1].envelope.previous_hash = HeadAt(log, k - 1)
    /\ k <= Len(log) => journal[2 * k - 1].envelope = log[k]
    /\ \A i \in Pos : i < k => journal[2 * i - 1].tx # journal[2 * k - 1].tx
CommitLine(k) ==
    /\ journal[2 * k].kind = "COMMIT"
    /\ journal[2 * k].tx = journal[2 * k - 1].tx
    /\ journal[2 * k].envelope = journal[2 * k - 1].envelope
Paired ==
    /\ Lengths
    /\ \A k \in Pos : 2 * k - 1 <= Len(journal) => PrepareLine(k)
    /\ \A k \in Pos : 2 * k <= Len(journal) => CommitLine(k)
FilesInv == ChainVerifies(log) /\ JournalVerifies(journal) /\ Paired

\* What the store that holds the lock knows of its transaction.
Pending(tx, e) ==
    /\ journal # <<>>
    /\ journal[Len(journal)].kind = "PREPARE"
    /\ journal[Len(journal)].tx = tx /\ journal[Len(journal)].envelope = e
Work(s) ==
    /\ pc[s] \in Locked => job[s] \in [tx : Txs, envelope : Envelope]
    /\ pc[s] = "prepare" =>
         /\ Len(journal) = 2 * Len(log) /\ ~Prepared(job[s].tx) /\ job[s].tx \notin notApplied
         /\ MatchesBefore(log, job[s].envelope) /\ job[s].envelope.sequence <= MaxEvents
    /\ pc[s] = "event" => Len(journal) = 2 * Len(log) + 1 /\ Pending(job[s].tx, job[s].envelope)
    /\ pc[s] = "commit" => Len(journal) = 2 * Len(log) - 1 /\ Pending(job[s].tx, job[s].envelope)
    /\ pc[s] \in {"sync", "postcheck"} => Len(journal) = 2 * Len(log) /\ Committed(job[s].tx)
    /\ \A u \in Stores : pc[s] \in Locked /\ pc[u] \in Locked => u = s

\* The last line is neither synced nor read by a later call: power may take it.
ExposedLog == read["log"] < Len(log) /\ synced["log"] < Len(log)
ExposedJournal == read["journal"] < Len(journal) /\ synced["journal"] < Len(journal)
\* At most one line is exposed, the one whose writer has just failed or died, and
\* the files are paired without it too.
TailInv ==
    /\ read["log"] <= Len(log) /\ read["journal"] <= Len(journal)
    /\ ExposedLog =>
         /\ Len(journal) = 2 * Len(log) - 1 /\ ~ ExposedJournal
         /\ Len(log) <= read["log"] + 1 \/ Len(log) <= synced["log"] + 1
    /\ ExposedJournal =>
         /\ Len(journal) # 2 * Len(log) - 1
         /\ Len(journal) <= read["journal"] + 1 \/ Len(journal) <= synced["journal"] + 1
    /\ \A s \in Stores : pc[s] \in Locked => ~ ExposedLog /\ ~ ExposedJournal

Types == log \in Seq(Envelope) /\ journal \in Seq(Entry)
TypeInv ==
    /\ Types
    /\ pc \in [Stores -> Locked \union {"down", "idle", "creating"}]
    /\ job \in [Stores -> [tx : Txs, envelope : Envelope] \union {Nobody}]
    /\ synced \in [Files -> Nat]
    /\ checkpoint \in [events : Seq(Envelope), entries : Seq(Entry)]
    /\ budget \in [faults : Nat, losses : Nat]
    /\ read \in [Files -> Nat]

\* StoreReconcilable is not inductive: that the next line fits the files is
\* known only from the step of the store that holds the lock, and what power may
\* take only from what was synced and read.  It holds while lost is empty.
StoreInv == TypeInv /\ FilesInv /\ TailInv /\ \A s \in Stores : Work(s)

-----------------------------------------------------------------------------
(* Paired files *)

\* Every line of a journal is the k-th odd or the k-th even one.
LEMMA Parity ==
  ASSUME NEW i \in Pos
  PROVE  \E k \in Pos : i = 2 * k - 1 \/ i = 2 * k
<1>1. (i + 1) \div 2 \in Pos /\ (i = 2 * ((i + 1) \div 2) - 1 \/ i = 2 * ((i + 1) \div 2))
  BY Z3 DEF Pos
<1> QED
  BY <1>1

\* Rounding half of a length up counts its odd lines, rounding down its even ones.
LEMMA Halves ==
  ASSUME NEW n \in Nat
  PROVE  /\ (n + 1) \div 2 \in Nat /\ n \div 2 \in Nat
         /\ \A k \in Pos : k <= (n + 1) \div 2 <=> 2 * k - 1 <= n
         /\ \A k \in Pos : k <= n \div 2 <=> 2 * k <= n
         /\ \A m \in Nat : n = 2 * m => (n + 1) \div 2 = m /\ n \div 2 = m
         /\ \A m \in Nat : n = 2 * m + 1 => (n + 1) \div 2 = m + 1 /\ n \div 2 = m
         /\ \A m \in Nat : n = 2 * m - 1 => (n + 1) \div 2 = m /\ n \div 2 = m - 1
  BY Z3 DEF Pos

\* The hash of the chain up to any event is a hash.
LEMMA Heads ==
  ASSUME NEW l \in Seq(Envelope), NEW n \in 0 .. Len(l)
  PROVE  HeadAt(l, n) \in Hash
<1>1. CASE n = 0
  BY <1>1 DEF HeadAt, GENESIS_HASH, Hash
<1>2. CASE n # 0
  <2>1. l[n] \in Envelope
    BY <1>2
  <2>2. /\ l[n].previous_hash \in Seq(Bodies \X Nat)
        /\ <<l[n].body, l[n].sequence>> \in Bodies \X Nat
    BY <2>1 DEF Envelope, Hash
  <2> QED
    BY <1>2, <2>2 DEF HeadAt, event_hash, Hash
<1> QED
  BY <1>1, <1>2

\* _make_prepare and _make_commit make an entry.
LEMMA EntryTyped ==
  ASSUME Types, NEW kind \in {"PREPARE", "COMMIT"}, NEW tx \in Txs, NEW e \in Envelope
  PROVE  MakeEntry(kind, tx, e) \in Entry
<1> DEFINE JH == {"PREPARE", "COMMIT"} \X Txs \X Hash
<1>1. JournalHead(journal, Len(journal)) \in Seq(JH)
  <2>1. CASE Len(journal) = 0
    BY <2>1 DEF JournalHead, GENESIS_HASH
  <2>2. CASE Len(journal) # 0
    <3>1. journal[Len(journal)] \in Entry
      BY <2>2 DEF Types
    <3> DEFINE x == journal[Len(journal)]
    <3>2. /\ x.previous_journal_hash \in Seq(JH)
          /\ x.kind \in {"PREPARE", "COMMIT"} /\ x.tx \in Txs
          /\ x.envelope \in Envelope
      BY <3>1 DEF Entry
    <3>3. /\ x.envelope.previous_hash \in Seq(Bodies \X Nat)
          /\ <<x.envelope.body, x.envelope.sequence>> \in Bodies \X Nat
      BY <3>2 DEF Envelope, Hash
    <3>4. event_hash(x.envelope) \in Hash
      BY <3>3 DEF event_hash, Hash
    <3>5. <<x.kind, x.tx, event_hash(x.envelope)>> \in JH
      BY <3>2, <3>4
    <3> HIDE DEF JH
    <3>6. journal_hash(x) \in Seq(JH)
      BY <3>2, <3>5 DEF journal_hash
    <3> QED
      BY <2>2, <3>6 DEF JournalHead
  <2> QED
    BY <2>1, <2>2
<1>2. Len(journal) + 1 \in Nat
  BY DEF Types
<1> QED
  BY <1>1, <1>2 DEF MakeEntry, Entry

\* The fields of an entry that was made.
LEMMA MadeEntry ==
  ASSUME NEW kind, NEW tx, NEW e
  PROVE  /\ MakeEntry(kind, tx, e).kind = kind /\ MakeEntry(kind, tx, e).tx = tx
         /\ MakeEntry(kind, tx, e).envelope = e
         /\ MakeEntry(kind, tx, e).journal_sequence = Len(journal) + 1
         /\ MakeEntry(kind, tx, e).previous_journal_hash = JournalHead(journal, Len(journal))
  BY DEF MakeEntry

\* In paired files the prepared transactions are those of the odd lines.
LEMMA PreparedIs ==
  ASSUME Types, Paired, NEW tx
  PROVE  Prepared(tx) <=> \E k \in Pos : 2 * k - 1 <= Len(journal) /\ journal[2 * k - 1].tx = tx
<1>1. ASSUME NEW i \in 1 .. Len(journal), journal[i].kind = "PREPARE", journal[i].tx = tx
      PROVE  \E k \in Pos : 2 * k - 1 <= Len(journal) /\ journal[2 * k - 1].tx = tx
  <2>1. PICK k \in Pos : i = 2 * k - 1 \/ i = 2 * k
    BY Parity DEF Pos
  <2>2. i # 2 * k
    BY <1>1, <2>1 DEF Paired, CommitLine, Types
  <2> QED
    BY <1>1, <2>1, <2>2
<1>2. ASSUME NEW k \in Pos, 2 * k - 1 <= Len(journal), journal[2 * k - 1].tx = tx
      PROVE  Prepared(tx)
  <2>1. 2 * k - 1 \in 1 .. Len(journal) /\ journal[2 * k - 1].kind = "PREPARE"
    <3>1. PrepareLine(k)
      BY <1>2 DEF Paired
    <3> QED
      BY <1>2, <3>1 DEF PrepareLine, Pos, Types
  <2> QED
    BY <1>2, <2>1 DEF Prepared
<1> QED
  BY <1>1, <1>2 DEF Prepared

\* ... and the committed ones those whose odd line is followed by another.
LEMMA CommittedIs ==
  ASSUME Types, Paired, NEW tx
  PROVE  Committed(tx) <=> \E k \in Pos : 2 * k <= Len(journal) /\ journal[2 * k - 1].tx = tx
<1>1. ASSUME NEW i \in 1 .. Len(journal), journal[i].kind = "COMMIT", journal[i].tx = tx
      PROVE  \E k \in Pos : 2 * k <= Len(journal) /\ journal[2 * k - 1].tx = tx
  <2>1. PICK k \in Pos : i = 2 * k - 1 \/ i = 2 * k
    BY Parity DEF Pos
  <2>2. i # 2 * k - 1
    BY <1>1, <2>1 DEF Paired, PrepareLine, Types
  <2>3. journal[2 * k].tx = journal[2 * k - 1].tx
    BY <1>1, <2>1, <2>2 DEF Paired, CommitLine
  <2> QED
    BY <1>1, <2>1, <2>2, <2>3
<1>2. ASSUME NEW k \in Pos, 2 * k <= Len(journal), journal[2 * k - 1].tx = tx
      PROVE  Committed(tx)
  <2>1. 2 * k \in 1 .. Len(journal) /\ journal[2 * k].kind = "COMMIT" /\ journal[2 * k].tx = tx
    <3>1. CommitLine(k)
      BY <1>2 DEF Paired
    <3> QED
      BY <1>2, <3>1 DEF CommitLine, Pos, Types
  <2> QED
    BY <2>1 DEF Committed
<1> QED
  BY <1>1, <1>2 DEF Committed

\* A transaction has one PREPARE, the one that is found.
LEMMA PrepareIs ==
  ASSUME Types, Paired, NEW k \in Pos, 2 * k - 1 <= Len(journal)
  PROVE  PrepareOf(journal[2 * k - 1].tx) = journal[2 * k - 1]
<1> DEFINE tx == journal[2 * k - 1].tx
           P(i) == journal[i].kind = "PREPARE" /\ journal[i].tx = tx
           c == CHOOSE i \in 1 .. Len(journal) : P(i)
<1>1. 2 * k - 1 \in 1 .. Len(journal) /\ P(2 * k - 1)
  <2>1. PrepareLine(k)
    BY DEF Paired
  <2>2. 2 * k - 1 \in 1 .. Len(journal)
    BY DEF Pos, Types
  <2> QED
    BY <2>1, <2>2 DEF PrepareLine
<1>2. c \in 1 .. Len(journal) /\ P(c)
  BY <1>1
<1> HIDE DEF c
<1>c. c \in Pos
  BY <1>2 DEF Pos, Types
<1>3. PICK m \in Pos : c = 2 * m - 1 \/ c = 2 * m
  BY <1>c, Parity
<1>4. c = 2 * m - 1 /\ 2 * m - 1 <= Len(journal)
  <2>1. c <= Len(journal) /\ journal[c].kind = "PREPARE"
    BY <1>2 DEF Types
  <2> QED
    BY <1>3, <2>1 DEF Paired, CommitLine
<1>5. journal[2 * m - 1].tx = journal[2 * k - 1].tx
  BY <1>2, <1>4
<1>6. m = k
  <2>1. ~ (m < k) /\ ~ (k < m)
    BY <1>4, <1>5 DEF Paired, PrepareLine
  <2> QED
    BY <2>1 DEF Pos
<1> QED
  BY <1>4, <1>6 DEF c, PrepareOf

\* A journal of even length has no unresolved transaction, one of odd length
\* has the transaction of its last line.
LEMMA UnresolvedIs ==
  ASSUME Types, Paired
  PROVE  /\ \A m \in Nat : Len(journal) = 2 * m => Unresolved = {}
         /\ \A k \in Pos : Len(journal) = 2 * k - 1 => Unresolved = {journal[2 * k - 1].tx}
<1>1. ASSUME NEW m \in Nat, Len(journal) = 2 * m PROVE Unresolved = {}
  <2>1. ASSUME NEW tx \in Txs, Prepared(tx) PROVE Committed(tx)
    <3>1. PICK k \in Pos : 2 * k - 1 <= Len(journal) /\ journal[2 * k - 1].tx = tx
      BY <2>1, PreparedIs
    <3>2. 2 * k <= Len(journal)
      BY <1>1, <3>1 DEF Pos
    <3> QED
      BY <3>1, <3>2, CommittedIs
  <2> QED
    BY <2>1 DEF Unresolved
<1>2. ASSUME NEW k \in Pos, Len(journal) = 2 * k - 1 PROVE Unresolved = {journal[2 * k - 1].tx}
  <2>1. journal[2 * k - 1].tx \in Txs
    <3>1. journal[2 * k - 1] \in Entry
      BY <1>2 DEF Types, Pos
    <3> QED
      BY <3>1 DEF Entry
  <2>2. Prepared(journal[2 * k - 1].tx)
    BY <1>2, PreparedIs DEF Types
  <2>3. ~ Committed(journal[2 * k - 1].tx)
    <3> SUFFICES ASSUME NEW m \in Pos, 2 * m <= Len(journal),
                        journal[2 * m - 1].tx = journal[2 * k - 1].tx
                 PROVE  FALSE
      BY CommittedIs
    <3>1. m < k /\ 2 * k - 1 <= Len(journal)
      BY <1>2 DEF Pos
    <3> QED
      BY <3>1 DEF Paired, PrepareLine
  <2>4. ASSUME NEW tx \in Txs, Prepared(tx), ~ Committed(tx) PROVE tx = journal[2 * k - 1].tx
    <3>1. PICK m \in Pos : 2 * m - 1 <= Len(journal) /\ journal[2 * m - 1].tx = tx
      BY <2>4, PreparedIs
    <3>2. ~ (2 * m <= Len(journal))
      BY <2>4, <3>1, CommittedIs
    <3>3. m = k
      BY <1>2, <3>1, <3>2 DEF Pos
    <3> QED
      BY <3>1, <3>3
  <2> QED
    BY <2>1, <2>2, <2>3, <2>4 DEF Unresolved
<1> QED
  BY <1>1, <1>2

\* Paired files with nothing cut pass the audit of _read_combined_unlocked.
LEMMA AuditHolds ==
  ASSUME Types, FilesInv, MaxEvents \in Nat, present = Files, torn = {}
  PROVE  Audited
<1> DEFINE p == Prepares(journal)
           n == (Len(journal) + 1) \div 2
           m == Len(journal) \div 2
<1>0. Len(journal) \in Nat /\ Len(log) \in Nat /\ Paired /\ Lengths
  BY DEF Types, FilesInv, Paired
<1>1. LedgerReads /\ JournalReads
  BY <1>0 DEF LedgerReads, JournalReads, Parses, Decodes, Files, FilesInv, Lengths
<1>2. n \in Nat /\ m \in Nat /\ \A k \in Pos : k <= n <=> 2 * k - 1 <= Len(journal)
  BY <1>0, Halves
<1>3. Len(p) = n /\ \A k \in 1 .. n : p[k] = journal[2 * k - 1]
  BY <1>2 DEF Prepares
<1>4. Len(Commits(journal)) = m
  BY <1>2 DEF Commits
<1>5. n <= Len(log) + 1 /\ m <= Len(log)
  <2>1. CASE Len(journal) = 2 * Len(log)
    <3>1. n = Len(log) /\ m = Len(log)
      BY <1>0, <2>1, Halves
    <3> HIDE DEF n, m
    <3> QED
      BY <1>0, <3>1
  <2>2. CASE Len(journal) = 2 * Len(log) + 1
    <3>1. n = Len(log) + 1 /\ m = Len(log)
      BY <1>0, <2>2, Halves
    <3> HIDE DEF n, m
    <3> QED
      BY <1>0, <3>1
  <2>3. CASE Len(journal) = 2 * Len(log) - 1
    <3>1. n = Len(log) /\ m = Len(log) - 1
      BY <1>0, <2>3, Halves
    <3> HIDE DEF n, m
    <3> QED
      BY <1>0, <3>1
  <2> QED
    BY <1>0, <2>1, <2>2, <2>3 DEF Lengths
<1>6. ASSUME NEW k \in 1 .. Len(p)
      PROVE  /\ p[k].envelope.sequence = k
             /\ p[k].envelope.previous_hash = HeadAt(log, k - 1)
             /\ k <= Len(log) => p[k].envelope = log[k]
  <2>1. k \in Pos /\ 2 * k - 1 <= Len(journal) /\ p[k] = journal[2 * k - 1]
    <3> HIDE DEF p, n
    <3>1. k \in 1 .. n
      BY <1>3, <1>6
    <3>2. k \in Pos /\ k <= n
      BY <1>2, <3>1 DEF Pos
    <3> QED
      BY <1>2, <1>3, <3>1, <3>2
  <2>2. PrepareLine(k)
    BY <1>0, <2>1 DEF Paired
  <2> QED
    BY <2>1, <2>2 DEF PrepareLine
<1> HIDE DEF p, n, m
<1>7. CASE Len(journal) = 2 * Len(log)
  <2>1. Unresolved = {} /\ m = Len(log)
    BY <1>0, <1>7, UnresolvedIs, Halves DEF m
  <2> QED
    BY <1>1, <1>3, <1>4, <1>5, <1>6, <2>1 DEF Audited, Combined, p
<1>8. ASSUME NEW k \in Pos, Len(journal) = 2 * k - 1, k \in {Len(log), Len(log) + 1} PROVE Audited
  <2>1. Unresolved = {journal[2 * k - 1].tx}
    BY <1>0, <1>8, UnresolvedIs
  <2>2. PrepareOf(journal[2 * k - 1].tx) = journal[2 * k - 1]
    BY <1>0, <1>8, PrepareIs
  <2>3. PrepareLine(k)
    BY <1>0, <1>8 DEF Paired
  <2>4. PrepareOf(journal[2 * k - 1].tx).envelope.sequence \in {Len(log), Len(log) + 1}
    BY <1>8, <2>2, <2>3 DEF PrepareLine
  <2> QED
    BY <1>1, <1>3, <1>4, <1>5, <1>6, <2>1, <2>4 DEF Audited, Combined, p
<1>9. CASE Len(journal) = 2 * Len(log) + 1
  <2>1. Len(log) + 1 \in Pos /\ Len(journal) = 2 * (Len(log) + 1) - 1
    BY <1>0, <1>9 DEF Pos
  <2> QED
    BY <1>8, <2>1
<1>10. CASE Len(journal) = 2 * Len(log) - 1
  <2>1. Len(log) \in Pos
    BY <1>0, <1>10 DEF Pos
  <2> QED
    BY <1>8, <1>10, <2>1
<1> QED
  BY <1>0, <1>7, <1>9, <1>10 DEF Lengths

-----------------------------------------------------------------------------
(* The three lines of an append *)

\* What Append does to a sequence.
LEMMA SeqGrows ==
  ASSUME NEW S, NEW q \in Seq(S), NEW x \in S
  PROVE  /\ Append(q, x) \in Seq(S)
         /\ Len(Append(q, x)) = Len(q) + 1
         /\ \A i \in 1 .. Len(q) : Append(q, x)[i] = q[i]
         /\ Append(q, x)[Len(q) + 1] = x
  OBVIOUS

\* The first n elements of a sequence.
LEMMA SubSeqFirst ==
  ASSUME NEW S, NEW q \in Seq(S), NEW n \in Nat, n <= Len(q)
  PROVE  /\ SubSeq(q, 1, n) \in Seq(S) /\ Len(SubSeq(q, 1, n)) = n
         /\ \A k \in 1 .. n : SubSeq(q, 1, n)[k] = q[k]
  OBVIOUS

\* Files cut back to lengths that fit each other are still paired.
LEMMA Dropped ==
  ASSUME Types, FilesInv, MaxEvents \in Nat, NEW n \in Nat, NEW m \in Nat, n <= Len(log), m <= Len(journal),
         m \in {2 * n - 1, 2 * n, 2 * n + 1},
         log' = SubSeq(log, 1, n), journal' = SubSeq(journal, 1, m)
  PROVE  Types' /\ FilesInv'
<1>0. /\ log \in Seq(Envelope) /\ journal \in Seq(Entry) /\ Len(log) \in Nat /\ Len(journal) \in Nat
      /\ Paired /\ Lengths
  BY DEF Types, FilesInv, Paired
<1>1. log' \in Seq(Envelope) /\ Len(log') = n /\ \A k \in 1 .. n : log'[k] = log[k]
  BY <1>0, SubSeqFirst
<1>2. journal' \in Seq(Entry) /\ Len(journal') = m /\ \A k \in 1 .. m : journal'[k] = journal[k]
  BY <1>0, SubSeqFirst
<1>3. \A k \in 0 .. n : HeadAt(log', k) = HeadAt(log, k)
  BY <1>1 DEF HeadAt
<1>4. \A k \in 0 .. m : JournalHead(journal', k) = JournalHead(journal, k)
  BY <1>2 DEF JournalHead
<1>5. ChainVerifies(log')
  <2> SUFFICES ASSUME NEW k \in 1 .. n
               PROVE  log'[k].sequence = k /\ log'[k].previous_hash = HeadAt(log', k - 1)
    BY <1>1 DEF ChainVerifies
  <2>1. k \in 1 .. Len(log) /\ k - 1 \in 0 .. n
    BY <1>0
  <2> QED
    BY <1>1, <1>3, <2>1 DEF FilesInv, ChainVerifies
<1> DEFINE Fine(j, k) ==
        /\ j[k].journal_sequence = k
        /\ j[k].previous_journal_hash = JournalHead(j, k - 1)
        /\ j[k].kind = "PREPARE" =>
             /\ k > 1 => j[k - 1].kind = "COMMIT"
             /\ \A i \in 1..(k - 1) : j[i].tx # j[k].tx
        /\ j[k].kind = "COMMIT" =>
             /\ k > 1
             /\ [j[k - 1] EXCEPT !.kind = "COMMIT", !.journal_sequence = k,
                    !.previous_journal_hash = JournalHead(j, k - 1)] = j[k]
             /\ j[k - 1].kind = "PREPARE"
<1>f. ASSUME NEW k \in 1 .. m PROVE Fine(journal', k)
  <2>1. k \in 1 .. Len(journal) /\ k - 1 \in 0 .. m
    BY <1>0, <1>f
  <2>2. Fine(journal, k)
    BY <2>1 DEF FilesInv, JournalVerifies
  <2>3. journal'[k] = journal[k] /\ JournalHead(journal', k - 1) = JournalHead(journal, k - 1)
    BY <1>2, <1>4, <1>f, <2>1
  <2>4. k > 1 => journal'[k - 1] = journal[k - 1]
    BY <1>2, <1>f
  <2>5. \A i \in 1 .. (k - 1) : journal'[i] = journal[i]
    BY <1>2, <1>f
  <2> QED
    BY <2>2, <2>3, <2>4, <2>5
<1>6. JournalVerifies(journal')
  BY <1>2, <1>f DEF JournalVerifies
<1> HIDE DEF Fine
<1>7. Lengths'
  BY <1>0, <1>1, <1>2 DEF Lengths
<1>8. ASSUME NEW k \in Pos, 2 * k - 1 <= m PROVE PrepareLine(k)'
  <2>1. PrepareLine(k)
    BY <1>0, <1>8 DEF Paired, Pos
  <2>2. 2 * k - 1 \in 1 .. m /\ k - 1 \in 0 .. n /\ \A i \in Pos : i < k => 2 * i - 1 \in 1 .. m
    BY <1>8 DEF Pos
  <2>3. k <= n => k \in 1 .. n /\ k <= Len(log)
    BY <1>0 DEF Pos
  <2> QED
    BY <1>1, <1>2, <1>3, <2>1, <2>2, <2>3 DEF PrepareLine
<1>9. ASSUME NEW k \in Pos, 2 * k <= m PROVE CommitLine(k)'
  <2>1. CommitLine(k)
    BY <1>0, <1>9 DEF Paired, Pos
  <2>2. 2 * k - 1 \in 1 .. m /\ 2 * k \in 1 .. m
    BY <1>9 DEF Pos
  <2> QED
    BY <1>2, <2>1, <2>2 DEF CommitLine
<1> QED
  BY <1>1, <1>2, <1>5, <1>6, <1>7, <1>8, <1>9 DEF FilesInv, Paired, Types

\* A journal that verifies still does after a PREPARE of a new transaction, or
\* the COMMIT of the PREPARE at its end.
LEMMA JournalGrows ==
  ASSUME Types, JournalVerifies(journal), NEW x \in Entry, journal' = Append(journal, x),
         x.journal_sequence = Len(journal) + 1,
         x.previous_journal_hash = JournalHead(journal, Len(journal)),
         x.kind = "PREPARE" =>
           /\ Len(journal) > 0 => journal[Len(journal)].kind = "COMMIT"
           /\ \A i \in 1 .. Len(journal) : journal[i].tx # x.tx,
         x.kind = "COMMIT" =>
           /\ Len(journal) > 0 /\ journal[Len(journal)].kind = "PREPARE"
           /\ journal[Len(journal)].tx = x.tx /\ journal[Len(journal)].envelope = x.envelope
  PROVE  JournalVerifies(journal')
<1> DEFINE n == Len(journal)
<1>0. n \in Nat /\ journal \in Seq(Entry)
  BY DEF Types
<1>1. /\ Len(journal') = n + 1
      /\ \A i \in 1 .. n : journal'[i] = journal[i]
      /\ journal'[n + 1] = x
  BY <1>0, SeqGrows
<1>2. \A k \in 0 .. n : JournalHead(journal', k) = JournalHead(journal, k)
  BY <1>0, <1>1 DEF JournalHead
<1> HIDE DEF n
<1> DEFINE Fine(j, k) ==
        /\ j[k].journal_sequence = k
        /\ j[k].previous_journal_hash = JournalHead(j, k - 1)
        /\ j[k].kind = "PREPARE" =>
             /\ k > 1 => j[k - 1].kind = "COMMIT"
             /\ \A i \in 1..(k - 1) : j[i].tx # j[k].tx
        /\ j[k].kind = "COMMIT" =>
             /\ k > 1
             /\ [j[k - 1] EXCEPT !.kind = "COMMIT", !.journal_sequence = k,
                    !.previous_journal_hash = JournalHead(j, k - 1)] = j[k]
             /\ j[k - 1].kind = "PREPARE"
<1>3. ASSUME NEW k \in 1 .. n PROVE Fine(journal', k)
  <2>1. Fine(journal, k)
    BY <1>3 DEF JournalVerifies, n
  <2>2. k - 1 \in 0 .. n /\ journal'[k] = journal[k] /\ (k > 1 => journal'[k - 1] = journal[k - 1])
    BY <1>0, <1>1, <1>3
  <2>3. JournalHead(journal', k - 1) = JournalHead(journal, k - 1)
    BY <1>2, <2>2
  <2>4. \A i \in 1 .. (k - 1) : journal'[i] = journal[i]
    BY <1>0, <1>1, <1>3
  <2> QED
    BY <2>1, <2>2, <2>3, <2>4
<1>4. ASSUME NEW k, k = n + 1 PROVE Fine(journal', k)
  <2>1. k - 1 = n /\ JournalHead(journal', k - 1) = x.previous_journal_hash
    BY <1>0, <1>2, <1>4 DEF n
  <2>2. /\ journal'[k] = x
        /\ journal'[k].journal_sequence = k
        /\ journal'[k].previous_journal_hash = JournalHead(journal', k - 1)
    BY <1>1, <1>4, <2>1 DEF n
  <2>3. CASE x.kind = "PREPARE"
    <3>1. k > 1 => journal'[k - 1].kind = "COMMIT"
      <4>1. n > 0 => journal[n].kind = "COMMIT" /\ n \in 1 .. n
        BY <1>0, <2>3 DEF n
      <4>2. k > 1 => n > 0
        BY <1>0, <1>4
      <4> QED
        BY <1>1, <2>1, <4>1, <4>2
    <3>2. \A i \in 1 .. (k - 1) : journal'[i].tx # journal'[k].tx
      BY <1>1, <2>1, <2>2, <2>3 DEF n
    <3>3. journal'[k].kind # "COMMIT"
      BY <2>2, <2>3
    <3> QED
      BY <2>2, <3>1, <3>2, <3>3, Zenon
  <2>4. CASE x.kind = "COMMIT"
    <3>1. k > 1 /\ n \in 1 .. n /\ journal'[k - 1] = journal[n] /\ journal[n].kind = "PREPARE"
      <4>1. n > 0 /\ journal[n].kind = "PREPARE"
        BY <2>4 DEF n
      <4>2. k > 1 /\ n \in 1 .. n
        BY <1>0, <1>4, <4>1
      <4> QED
        BY <1>1, <2>1, <4>1, <4>2
    <3>2. journal[n] \in Entry /\ journal[n].tx = x.tx /\ journal[n].envelope = x.envelope
      BY <1>0, <2>4, <3>1 DEF n
    <3>3. [journal[n] EXCEPT !.kind = "COMMIT", !.journal_sequence = k,
                    !.previous_journal_hash = x.previous_journal_hash] = x
      BY <1>4, <2>4, <3>2 DEF Entry, n
    <3>4. journal'[k].kind # "PREPARE"
      BY <2>2, <2>4
    <3> QED
      BY <2>1, <2>2, <2>4, <3>1, <3>3, <3>4
  <2> QED
    BY <2>3, <2>4 DEF Entry
<1>5. ASSUME NEW k \in 1 .. Len(journal') PROVE Fine(journal', k)
  <2>1. k \in 1 .. n \/ k = n + 1
    BY <1>0, <1>1, <1>5
  <2> HIDE DEF Fine
  <2> QED
    BY <1>3, <1>4, <2>1
<1> QED
  BY <1>5 DEF JournalVerifies

\* A PREPARE line keeps the files paired.
LEMMA WritesPrepare ==
  ASSUME Types, FilesInv, MaxEvents \in Nat, NEW tx \in Txs, NEW e \in Envelope,
         Len(journal) = 2 * Len(log), ~ Prepared(tx), MatchesBefore(log, e), e.sequence <= MaxEvents,
         log' = log, journal' = Append(journal, MakeEntry("PREPARE", tx, e))
  PROVE  Types' /\ FilesInv'
<1> DEFINE x == MakeEntry("PREPARE", tx, e)
           n == Len(journal)
           L == Len(log)
<1>0. n \in Nat /\ L \in Nat /\ n = 2 * L /\ journal \in Seq(Entry) /\ Paired
  BY DEF Types, FilesInv
<1>1. /\ x \in Entry /\ x.kind = "PREPARE" /\ x.tx = tx /\ x.envelope = e
      /\ x.journal_sequence = n + 1 /\ x.previous_journal_hash = JournalHead(journal, n)
  BY EntryTyped, MadeEntry
<1> HIDE DEF x
<1>2. /\ journal' \in Seq(Entry) /\ Len(journal') = n + 1
      /\ \A i \in 1 .. n : journal'[i] = journal[i]
      /\ journal'[n + 1] = x
  BY <1>0, <1>1, SeqGrows DEF x
<1>3. ASSUME NEW k \in Pos, 2 * k - 1 <= n
      PROVE  PrepareLine(k) /\ journal[2 * k - 1].tx # tx
  BY <1>0, <1>3, PreparedIs DEF Paired
<1>4. ASSUME NEW k \in Pos, 2 * k <= n
      PROVE  CommitLine(k) /\ journal[2 * k].tx # tx
  <2>1. 2 * k - 1 <= n
    BY <1>0, <1>4 DEF Pos
  <2> QED
    BY <1>0, <1>3, <1>4, <2>1 DEF Paired, CommitLine
<1>5. \A i \in 1 .. n : journal[i].tx # tx
  <2> SUFFICES ASSUME NEW i \in 1 .. n PROVE journal[i].tx # tx
    OBVIOUS
  <2>0. i \in Pos
    BY <1>0 DEF Pos
  <2>1. PICK k \in Pos : i = 2 * k - 1 \/ i = 2 * k
    BY <2>0, Parity
  <2>2. i <= n
    BY <1>0
  <2> HIDE DEF n
  <2> QED
    BY <1>3, <1>4, <2>1, <2>2
<1>6. n > 0 => journal[n].kind = "COMMIT"
  <2> SUFFICES ASSUME n > 0 PROVE journal[n].kind = "COMMIT"
    OBVIOUS
  <2>1. L \in Pos /\ 2 * L <= n
    BY <1>0 DEF Pos
  <2>2. CommitLine(L)
    BY <1>4, <2>1
  <2> QED
    BY <1>0, <2>2 DEF CommitLine
<1>7. JournalVerifies(journal')
  BY <1>0, <1>1, <1>5, <1>6, JournalGrows DEF FilesInv, x
<1>8. ChainVerifies(log')
  BY DEF FilesInv
<1>9. Lengths'
  <2>1. e.sequence = L + 1
    BY DEF MatchesBefore
  <2>2. L + 1 <= MaxEvents
    BY <2>1
  <2> QED
    BY <1>0, <1>2, <2>2 DEF Lengths
<1>10. ASSUME NEW k \in Pos, 2 * k - 1 <= Len(journal') PROVE PrepareLine(k)'
  <2>0. \A i \in Pos : i < k => 2 * i - 1 \in 1 .. n
    BY <1>0, <1>2, <1>10 DEF Pos
  <2>1. CASE 2 * k - 1 <= n
    <3>1. 2 * k - 1 \in 1 .. n
      BY <1>0, <2>1 DEF Pos
    <3> QED
      BY <1>2, <1>3, <2>0, <2>1, <3>1 DEF PrepareLine
  <2>2. CASE 2 * k - 1 = n + 1
    <3>1. k = L + 1 /\ k - 1 = L
      BY <1>0, <2>2 DEF Pos
    <3>2. journal'[2 * k - 1] = x
      BY <1>2, <2>2
    <3>3. e.sequence = k /\ e.previous_hash = HeadAt(log, k - 1) /\ ~ (k <= Len(log'))
      BY <1>0, <3>1 DEF MatchesBefore, HeadOf
    <3>4. \A i \in Pos : i < k => journal'[2 * i - 1].tx # tx
      BY <1>2, <1>5, <2>0
    <3> QED
      BY <1>1, <3>2, <3>3, <3>4 DEF PrepareLine
  <2>3. 2 * k - 1 <= n \/ 2 * k - 1 = n + 1
    <3>1. n \in Nat /\ k \in Nat /\ 2 * k - 1 <= n + 1
      BY <1>0, <1>2, <1>10 DEF Pos
    <3> HIDE DEF n
    <3> QED
      BY <3>1
  <2> QED
    BY <2>1, <2>2, <2>3
<1>11. ASSUME NEW k \in Pos, 2 * k <= Len(journal') PROVE CommitLine(k)'
  <2>1. 2 * k \in 1 .. n /\ 2 * k - 1 \in 1 .. n /\ 2 * k <= n
    BY <1>0, <1>2, <1>11 DEF Pos
  <2> QED
    BY <1>2, <1>4, <2>1 DEF CommitLine
<1> QED
  BY <1>2, <1>7, <1>8, <1>9, <1>10, <1>11 DEF FilesInv, Paired, Types

\* A COMMIT line keeps the files paired.
LEMMA WritesCommit ==
  ASSUME Types, FilesInv, MaxEvents \in Nat, NEW tx \in Txs, NEW e \in Envelope,
         Len(journal) = 2 * Len(log) - 1, Pending(tx, e),
         log' = log, journal' = Append(journal, MakeEntry("COMMIT", tx, e))
  PROVE  Types' /\ FilesInv'
<1> DEFINE x == MakeEntry("COMMIT", tx, e)
           n == Len(journal)
           L == Len(log)
<1>0. n \in Nat /\ L \in Nat /\ n = 2 * L - 1 /\ L \in Pos /\ n > 0 /\ journal \in Seq(Entry) /\ Paired
  BY DEF Types, FilesInv, Pos
<1>1. /\ x \in Entry /\ x.kind = "COMMIT" /\ x.tx = tx /\ x.envelope = e
      /\ x.journal_sequence = n + 1 /\ x.previous_journal_hash = JournalHead(journal, n)
  BY EntryTyped, MadeEntry
<1> HIDE DEF x
<1>2. /\ journal' \in Seq(Entry) /\ Len(journal') = n + 1
      /\ \A i \in 1 .. n : journal'[i] = journal[i]
      /\ journal'[n + 1] = x
  BY <1>0, <1>1, SeqGrows DEF x
<1>3. journal[n].kind = "PREPARE" /\ journal[n].tx = tx /\ journal[n].envelope = e
  BY DEF Pending
<1>7. JournalVerifies(journal')
  BY <1>0, <1>1, <1>3, JournalGrows DEF FilesInv, x
<1>8. ChainVerifies(log')
  BY DEF FilesInv
<1>9. Lengths'
  BY <1>0, <1>2 DEF Lengths, Paired
<1>10. ASSUME NEW k \in Pos, 2 * k - 1 <= Len(journal') PROVE PrepareLine(k)'
  <2>1. 2 * k - 1 \in 1 .. n /\ 2 * k - 1 <= n /\ \A i \in Pos : i < k => 2 * i - 1 \in 1 .. n
    BY <1>0, <1>2, <1>10 DEF Pos
  <2>2. PrepareLine(k)
    BY <1>0, <2>1 DEF Paired
  <2> QED
    BY <1>2, <2>1, <2>2 DEF PrepareLine
<1>11. ASSUME NEW k \in Pos, 2 * k <= Len(journal') PROVE CommitLine(k)'
  <2>1. CASE 2 * k <= n
    <3>1. 2 * k \in 1 .. n /\ 2 * k - 1 \in 1 .. n /\ CommitLine(k)
      BY <1>0, <2>1 DEF Pos, Paired
    <3> QED
      BY <1>2, <3>1 DEF CommitLine
  <2>2. CASE 2 * k = n + 1
    <3>1. 2 * k - 1 = n /\ n \in 1 .. n
      BY <1>0, <2>2 DEF Pos
    <3>2. journal'[2 * k] = x /\ journal'[2 * k - 1] = journal[n]
      BY <1>2, <2>2, <3>1
    <3> QED
      BY <1>1, <1>3, <3>2 DEF CommitLine
  <2> QED
    BY <1>0, <1>2, <1>11, <2>1, <2>2 DEF Pos
<1> QED
  BY <1>2, <1>7, <1>8, <1>9, <1>10, <1>11 DEF FilesInv, Paired, Types

\* An event line keeps the files paired, and passes the check after it.
LEMMA WritesEvent ==
  ASSUME Types, FilesInv, MaxEvents \in Nat, NEW tx \in Txs, NEW e \in Envelope,
         Len(journal) = 2 * Len(log) + 1, Pending(tx, e),
         log' = Append(log, e), journal' = journal
  PROVE  Types' /\ FilesInv' /\ MatchesAfter(log', e)
<1> DEFINE n == Len(journal)
           L == Len(log)
<1>0. /\ n \in Nat /\ L \in Nat /\ n = 2 * L + 1 /\ L + 1 \in Pos /\ log \in Seq(Envelope) /\ Paired
      /\ n = 2 * (L + 1) - 1 /\ L + 1 - 1 = L
  BY DEF Types, FilesInv, Pos
<1>1. /\ log' \in Seq(Envelope) /\ Len(log') = L + 1
      /\ \A i \in 1 .. L : log'[i] = log[i]
      /\ log'[L + 1] = e
  BY <1>0, SeqGrows
<1>2. PrepareLine(L + 1) /\ journal[n].envelope = e
  BY <1>0 DEF Paired, Pending
<1>3. e.sequence = L + 1 /\ e.previous_hash = HeadAt(log, L)
  BY <1>0, <1>2 DEF PrepareLine
<1>4. \A k \in 0 .. L : HeadAt(log', k) = HeadAt(log, k)
  BY <1>0, <1>1 DEF HeadAt
<1>5. MatchesAfter(log', e)
  BY <1>0, <1>1, <1>3 DEF MatchesAfter, HeadOf, HeadAt
<1>6. ChainVerifies(log')
  <2> SUFFICES ASSUME NEW k \in 1 .. Len(log')
               PROVE  log'[k].sequence = k /\ log'[k].previous_hash = HeadAt(log', k - 1)
    BY DEF ChainVerifies
  <2>1. CASE k \in 1 .. L
    <3>1. log[k].sequence = k /\ log[k].previous_hash = HeadAt(log, k - 1) /\ k - 1 \in 0 .. L
      BY <1>0, <2>1 DEF FilesInv, ChainVerifies
    <3> QED
      BY <1>1, <1>4, <2>1, <3>1
  <2>2. CASE k = L + 1
    <3>1. k - 1 = L /\ L \in 0 .. L
      BY <1>0, <2>2
    <3> QED
      BY <1>1, <1>3, <1>4, <2>2, <3>1
  <2> QED
    BY <1>0, <1>1, <2>1, <2>2
<1>7. JournalVerifies(journal')
  BY DEF FilesInv
<1>8. Lengths'
  BY <1>0, <1>1 DEF Lengths, Paired
<1>9. ASSUME NEW k \in Pos, 2 * k - 1 <= Len(journal') PROVE PrepareLine(k)'
  <2>1. PrepareLine(k) /\ k - 1 \in 0 .. L /\ k <= L + 1
    BY <1>0, <1>9 DEF Paired, Pos
  <2>2. journal[2 * k - 1].envelope.previous_hash = HeadAt(log', k - 1)
    BY <1>4, <2>1 DEF PrepareLine
  <2>3. journal[2 * k - 1].envelope = log'[k]
    <3>1. CASE k <= L
      <4>1. k \in 1 .. L
        BY <1>0, <3>1 DEF Pos
      <4> QED
        BY <1>1, <2>1, <3>1, <4>1 DEF PrepareLine
    <3>2. CASE k = L + 1
      BY <1>0, <1>1, <1>2, <3>2
    <3> QED
      BY <1>0, <2>1, <3>1, <3>2 DEF Pos
  <2> QED
    BY <2>1, <2>2, <2>3 DEF PrepareLine
<1>10. ASSUME NEW k \in Pos, 2 * k <= Len(journal') PROVE CommitLine(k)'
  BY <1>0, <1>10 DEF Paired, CommitLine
<1> QED
  BY <1>1, <1>5, <1>6, <1>7, <1>8, <1>9, <1>10 DEF FilesInv, Paired, Types

\* A step that takes no line from a file.
Grown ==
    /\ Len(log) <= Len(log') /\ \A k \in 1 .. Len(log) : log'[k] = log[k]
    /\ Len(journal) <= Len(journal') /\ \A k \in 1 .. Len(journal) : journal'[k] = journal[k]

\* Files that nobody touches stay as they are.
LEMMA Still ==
  ASSUME Types, FilesInv, UNCHANGED <<log, journal>>
  PROVE  Types' /\ FilesInv' /\ Grown
<1>1. Types'
  BY DEF Types
<1>2. ChainVerifies(log)' /\ JournalVerifies(journal)'
  BY DEF FilesInv
<1>3. Lengths'
  BY DEF FilesInv, Paired, Lengths
<1>4. \A k \in Pos : (2 * k - 1 <= Len(journal) => PrepareLine(k)) => (2 * k - 1 <= Len(journal) => PrepareLine(k))'
  BY DEF PrepareLine
<1>5. \A k \in Pos : (2 * k <= Len(journal) => CommitLine(k)) => (2 * k <= Len(journal) => CommitLine(k))'
  BY DEF CommitLine
<1>6. Paired'
  BY <1>3, <1>4, <1>5 DEF FilesInv, Paired
<1> QED
  BY <1>1, <1>2, <1>6 DEF FilesInv, Grown, Types

-----------------------------------------------------------------------------
(* The store that holds the lock *)

\* The store inside the lock works on a transaction, and it is alone.
LEMMA JobHeld ==
  ASSUME StoreInv, NEW s \in Stores, pc[s] \in Locked
  PROVE  /\ job[s].tx \in Txs /\ job[s].envelope \in Envelope
         /\ \A u \in Stores : u # s => pc[u] \notin Locked
  BY DEF StoreInv, Work

\* What the line of each step leaves: the next step finds what it expects.
LEMMA PutEffect ==
  ASSUME StoreInv, NEW s \in Stores, pc[s] \in Writing, Put(s)
  PROVE  /\ Types' /\ FilesInv' /\ Grown
         /\ pc[s] = "prepare" =>
              /\ Len(journal') = 2 * Len(log') + 1 /\ log' = log
              /\ \A tx, e : tx = job[s].tx /\ e = job[s].envelope => Pending(tx, e)'
         /\ pc[s] = "event" =>
              /\ Len(journal') = 2 * Len(log') - 1 /\ journal' = journal
              /\ log' = Append(log, job[s].envelope)
              /\ Len(journal) = 2 * Len(log) + 1 /\ MatchesAfter(log', job[s].envelope)
              /\ \A tx, e : tx = job[s].tx /\ e = job[s].envelope => Pending(tx, e) /\ Pending(tx, e)'
         /\ pc[s] = "commit" =>
              /\ Len(journal') = 2 * Len(log') /\ log' = log
              /\ \A tx : tx = job[s].tx => Committed(tx)'
<1>m. MaxEvents \in Nat
  BY ConstantsAssumption
<1>0. Types /\ FilesInv /\ Work(s)
  BY DEF StoreInv, TypeInv
<1>1. job[s].tx \in Txs /\ job[s].envelope \in Envelope
  BY JobHeld DEF Locked
<1>2. PICK tx \in Txs, e \in Envelope : tx = job[s].tx /\ e = job[s].envelope
  BY <1>1
<1>3. Len(log) \in Nat /\ Len(journal) \in Nat /\ log \in Seq(Envelope) /\ journal \in Seq(Entry)
  BY <1>0 DEF Types
<1>4. CASE pc[s] = "prepare"
  <2>1. log' = log /\ journal' = Append(journal, MakeEntry("PREPARE", tx, e))
    BY <1>2, <1>4 DEF Put
  <2>2. /\ Len(journal) = 2 * Len(log) /\ ~ Prepared(tx) /\ MatchesBefore(log, e)
        /\ e.sequence <= MaxEvents
    BY <1>0, <1>2, <1>4 DEF Work
  <2>3. Types' /\ FilesInv'
    BY <1>m, <1>0, <2>1, <2>2, WritesPrepare
  <2>4. MakeEntry("PREPARE", tx, e) \in Entry
    BY <1>0, EntryTyped
  <2>5. /\ Len(journal') = Len(journal) + 1 /\ journal'[Len(journal) + 1] = MakeEntry("PREPARE", tx, e)
        /\ \A k \in 1 .. Len(journal) : journal'[k] = journal[k]
        /\ journal' \in Seq(Entry)
    BY <1>3, <2>1, <2>4, SeqGrows
  <2>6. Grown
    BY <1>3, <2>1, <2>5 DEF Grown
  <2>7. journal' # <<>> /\ Len(journal') = 2 * Len(log') + 1
    <3>1. Len(journal') = 2 * Len(log') + 1 /\ Len(journal') # 0
      BY <1>3, <2>1, <2>2, <2>5
    <3>2. Len(<<>>) = 0
      OBVIOUS
    <3> QED
      BY <3>1, <3>2
  <2>8. Pending(tx, e)'
    BY <2>5, <2>7, MadeEntry DEF Pending
  <2> QED
    BY <1>2, <1>4, <2>1, <2>3, <2>6, <2>7, <2>8
<1>5. CASE pc[s] = "event"
  <2>1. log' = Append(log, e) /\ journal' = journal
    BY <1>2, <1>5 DEF Put
  <2>2. Len(journal) = 2 * Len(log) + 1 /\ Pending(tx, e)
    BY <1>0, <1>2, <1>5 DEF Work
  <2>3. Types' /\ FilesInv' /\ MatchesAfter(log', e)
    BY <1>m, <1>0, <2>1, <2>2, WritesEvent
  <2>4. Len(log') = Len(log) + 1 /\ \A k \in 1 .. Len(log) : log'[k] = log[k]
    BY <1>3, <2>1, SeqGrows
  <2>5. Grown
    BY <1>3, <2>1, <2>4 DEF Grown
  <2>6. Len(journal') = 2 * Len(log') - 1
    BY <1>3, <2>1, <2>2, <2>4
  <2>7. Pending(tx, e)'
    BY <2>1, <2>2 DEF Pending
  <2> QED
    BY <1>2, <1>5, <2>1, <2>2, <2>3, <2>5, <2>6, <2>7
<1>6. CASE pc[s] = "commit"
  <2>1. log' = log /\ journal' = Append(journal, MakeEntry("COMMIT", tx, e))
    BY <1>2, <1>6 DEF Put
  <2>2. Len(journal) = 2 * Len(log) - 1 /\ Pending(tx, e)
    BY <1>0, <1>2, <1>6 DEF Work
  <2>3. Types' /\ FilesInv'
    BY <1>m, <1>0, <2>1, <2>2, WritesCommit
  <2>4. MakeEntry("COMMIT", tx, e) \in Entry
    BY <1>0, EntryTyped
  <2>5. /\ Len(journal') = Len(journal) + 1 /\ journal'[Len(journal) + 1] = MakeEntry("COMMIT", tx, e)
        /\ \A k \in 1 .. Len(journal) : journal'[k] = journal[k]
    BY <1>3, <2>1, <2>4, SeqGrows
  <2>6. Grown
    BY <1>3, <2>1, <2>5 DEF Grown
  <2>7. Len(journal') = 2 * Len(log')
    BY <1>3, <2>1, <2>2, <2>5
  <2>8. Committed(tx)'
    <3>1. Len(journal) + 1 \in 1 .. Len(journal')
      BY <1>3, <2>5
    <3> QED
      BY <2>5, <3>1, MadeEntry DEF Committed
  <2> QED
    BY <1>2, <1>6, <2>1, <2>3, <2>6, <2>7, <2>8
<1> QED
  BY <1>4, <1>5, <1>6 DEF Writing

\* A store outside the lock has nothing to keep true.
LEMMA WorkIdle ==
  ASSUME NEW s \in Stores, pc'[s] \notin Locked
  PROVE  Work(s)'
  BY DEF Work, Locked, Writing

\* What a store knows stays true while the files and its own state stand still.
LEMMA WorkStands ==
  ASSUME NEW s \in Stores, Work(s), pc'[s] = pc[s], job'[s] = job[s],
         UNCHANGED <<log, journal, notApplied>>,
         \A u \in Stores : pc'[u] \in Locked => pc[u] \in Locked
  PROVE  Work(s)'
  BY DEF Work, Prepared, Committed, Pending

\* A store that leaves the lock.
LEMMA JobTyped ==
  ASSUME TypeInv, NEW s \in Stores, NEW step, Leave(s, step)
  PROVE  /\ job' \in [Stores -> [tx : Txs, envelope : Envelope] \union {Nobody}]
         /\ pc'[s] = step /\ \A u \in Stores : u # s => pc'[u] = pc[u] /\ job'[u] = job[u]
         /\ step \in {"down", "idle"} => pc' \in [Stores -> Locked \union {"down", "idle", "creating"}]
  BY DEF TypeInv, Leave, Become

-----------------------------------------------------------------------------
(* What power may take *)

\* How many lines each file has.
LEMMA LinesAre ==
  ASSUME Types
  PROVE  /\ Lines \in [Files -> Nat] /\ Lines["log"] = Len(log) /\ Lines["journal"] = Len(journal)
         /\ Len(log) \in Nat /\ Len(journal) \in Nat
<1>1. Len(log) \in Nat /\ Len(journal) \in Nat
  BY DEF Types
<1> QED
  BY <1>1 DEF Lines, Files

\* A call that acts on what it has read leaves nothing exposed.
LEMMA TailRead ==
  ASSUME Types, UNCHANGED <<log, journal>>, read' = Lines
  PROVE  TailInv' /\ read' \in [Files -> Nat]
<1>1. /\ read' \in [Files -> Nat] /\ read'["log"] = Len(log') /\ read'["journal"] = Len(journal')
      /\ Len(log') \in Nat /\ Len(journal') \in Nat
  BY LinesAre
<1>2. ~ ExposedLog' /\ ~ ExposedJournal'
  BY <1>1 DEF ExposedLog, ExposedJournal
<1> QED
  BY <1>1, <1>2 DEF TailInv

\* A step that moves no file, and takes no lock.
LEMMA TailStands ==
  ASSUME TailInv, UNCHANGED <<log, journal, synced, read>>,
         \A s \in Stores : pc'[s] \in Locked => \E u \in Stores : pc[u] \in Locked
  PROVE  TailInv'
  BY DEF TailInv, ExposedLog, ExposedJournal

-----------------------------------------------------------------------------
(* One lemma for each kind of step *)

\* Nothing happens to the files, and nobody enters or holds on to the lock anew.
LEMMA CalmStep ==
  ASSUME StoreInv, UNCHANGED <<files, job, notApplied, budget>>, read' = read \/ read' = Lines,
         pc' \in [Stores -> Locked \union {"down", "idle", "creating"}],
         \A u \in Stores : pc'[u] \in Locked => pc'[u] = pc[u],
         checkpoint' \in [events : Seq(Envelope), entries : Seq(Entry)]
  PROVE  StoreInv' /\ Grown
<1>0. TypeInv /\ Types /\ FilesInv /\ TailInv
  BY DEF StoreInv, TypeInv
<1>1. UNCHANGED <<log, journal, synced>>
  BY DEF files
<1>2. Types' /\ FilesInv' /\ Grown
  BY <1>0, <1>1, Still
<1>3. TailInv' /\ read' \in [Files -> Nat]
  <2>1. CASE read' = read
    BY <1>0, <1>1, <2>1, TailStands DEF TypeInv
  <2>2. CASE read' = Lines
    BY <1>0, <1>1, <2>2, TailRead
  <2> QED
    BY <2>1, <2>2
<1>4. TypeInv'
  BY <1>0, <1>1, <1>2, <1>3 DEF TypeInv
<1>5. ASSUME NEW u \in Stores PROVE Work(u)'
  <2>1. CASE pc'[u] \notin Locked
    BY <2>1, WorkIdle
  <2>2. CASE pc'[u] \in Locked
    <3>1. Work(u) /\ pc'[u] = pc[u]
      BY <2>2 DEF StoreInv
    <3> QED
      BY <1>1, <3>1, WorkStands
  <2> QED
    BY <2>1, <2>2
<1> QED
  BY <1>2, <1>3, <1>4, <1>5 DEF StoreInv

\* Opening a store keeps the invariant.
LEMMA OpenStep ==
  ASSUME StoreInv, NEW s \in Stores, Open(s) \/ CreateJournal(s)
  PROVE  StoreInv' /\ Grown
<1>1. PICK step \in {"idle", "creating"} : Become(s, step)
  BY DEF Open, CreateJournal
<1>2. UNCHANGED <<files, job, notApplied, budget, checkpoint, read>>
  BY DEF Open, CreateJournal, history, reliance
<1>3. TypeInv
  BY DEF StoreInv
<1>4. pc' \in [Stores -> Locked \union {"down", "idle", "creating"}]
  BY <1>1, <1>3 DEF TypeInv, Become
<1>5. \A u \in Stores : pc'[u] \in Locked => pc'[u] = pc[u]
  BY <1>1, <1>3 DEF TypeInv, Become, Locked, Writing
<1> QED
  BY <1>2, <1>3, <1>4, <1>5, CalmStep DEF TypeInv

\* The two readers keep the invariant.
LEMMA ReadStep ==
  ASSUME StoreInv, NEW s \in Stores, sign_checkpoint(s) \/ verify_signed_dispatch(s)
  PROVE  StoreInv' /\ Grown
<1>1. UNCHANGED <<files, job, notApplied, budget, pc>> /\ read' = Lines
  BY DEF sign_checkpoint, verify_signed_dispatch, Relied
<1>2. TypeInv /\ log \in Seq(Envelope) /\ journal \in Seq(Entry)
  BY DEF StoreInv, TypeInv, Types
<1>3. checkpoint' \in [events : Seq(Envelope), entries : Seq(Entry)]
  BY <1>2 DEF sign_checkpoint, verify_signed_dispatch, TypeInv
<1> QED
  BY <1>1, <1>2, <1>3, CalmStep DEF TypeInv

\* When nothing is unresolved the journal has two lines for each event.
LEMMA Even ==
  ASSUME StoreInv, Unresolved = {}
  PROVE  Len(journal) = 2 * Len(log)
<1>0. Types /\ Paired /\ Lengths /\ Len(log) \in Nat /\ Len(journal) \in Nat
  BY DEF StoreInv, TypeInv, FilesInv, Paired, Types
<1>1. CASE Len(journal) = 2 * Len(log) + 1
  <2>1. Len(log) + 1 \in Pos /\ Len(journal) = 2 * (Len(log) + 1) - 1
    BY <1>0, <1>1 DEF Pos
  <2> QED
    BY <1>0, <2>1, UnresolvedIs
<1>2. CASE Len(journal) = 2 * Len(log) - 1
  <2>1. Len(log) \in Pos
    BY <1>0, <1>2 DEF Pos
  <2> QED
    BY <1>0, <1>2, <2>1, UnresolvedIs
<1> QED
  BY <1>0, <1>1, <1>2 DEF Lengths

\* A store takes the lock that nobody had.
LEMMA EnterStep ==
  ASSUME StoreInv, NEW s \in Stores, LockFree, NEW step \in Locked, Become(s, step),
         UNCHANGED <<files, budget, checkpoint>>, read' = Lines,
         NEW j \in [tx : Txs, envelope : Envelope], job' = [job EXCEPT ![s] = j],
         step = "prepare" =>
           /\ Len(journal) = 2 * Len(log) /\ ~ Prepared(j.tx) /\ j.tx \notin notApplied'
           /\ MatchesBefore(log, j.envelope) /\ j.envelope.sequence <= MaxEvents,
         step = "event" => Len(journal) = 2 * Len(log) + 1 /\ Pending(j.tx, j.envelope),
         step = "commit" => Len(journal) = 2 * Len(log) - 1 /\ Pending(j.tx, j.envelope),
         step \in {"sync", "postcheck"} => Len(journal) = 2 * Len(log) /\ Committed(j.tx)
  PROVE  StoreInv' /\ Grown
<1>0. TypeInv /\ Types /\ FilesInv
  BY DEF StoreInv, TypeInv
<1>1. UNCHANGED <<log, journal, synced>>
  BY DEF files
<1>2. Types' /\ FilesInv' /\ Grown
  BY <1>0, <1>1, Still
<1>3. TailInv' /\ read' \in [Files -> Nat]
  BY <1>0, <1>1, TailRead
<1>4. /\ pc' \in [Stores -> Locked \union {"down", "idle", "creating"}]
      /\ job' \in [Stores -> [tx : Txs, envelope : Envelope] \union {Nobody}]
      /\ pc'[s] = step /\ job'[s] = j
      /\ \A u \in Stores : u # s => pc'[u] \notin Locked
  BY <1>0 DEF TypeInv, Become, LockFree
<1>5. TypeInv'
  BY <1>0, <1>1, <1>2, <1>3, <1>4 DEF TypeInv
<1>6. Work(s)'
  <2>1. (Prepared(j.tx) <=> Prepared(j.tx)') /\ (Committed(j.tx) <=> Committed(j.tx)')
    BY <1>1 DEF Prepared, Committed
  <2>2. Pending(j.tx, j.envelope) <=> Pending(j.tx, j.envelope)'
    BY <1>1 DEF Pending
  <2>3. Prepared(job[s].tx)' <=> Prepared(j.tx)'
    BY <1>4 DEF Prepared
  <2>4. Committed(job[s].tx)' <=> Committed(j.tx)'
    BY <1>4 DEF Committed
  <2>5. Pending(job[s].tx, job[s].envelope)' <=> Pending(j.tx, j.envelope)'
    BY <1>4 DEF Pending
  <2> QED
    BY <1>1, <1>4, <2>1, <2>2, <2>3, <2>4, <2>5 DEF Work
<1>7. ASSUME NEW u \in Stores, u # s PROVE Work(u)'
  BY <1>4, <1>7, WorkIdle
<1> QED
  BY <1>2, <1>3, <1>5, <1>6, <1>7 DEF StoreInv

\* append, up to its first write, keeps the invariant.
LEMMA AppendStep ==
  ASSUME StoreInv, NEW s \in Stores, NEW tx \in Txs, NEW body \in Bodies, NEW n \in 0 .. Len(log),
         append(s, tx, body, n)
  PROVE  StoreInv' /\ Grown
<1> DEFINE e == sign_v2_event(body, n)
<1>0. TypeInv /\ Types /\ log \in Seq(Envelope) /\ n \in Nat /\ Len(log) \in Nat
  BY DEF StoreInv, TypeInv, Types
<1>1. /\ UNCHANGED <<files, budget, checkpoint>> /\ LockFree /\ Unresolved = {} /\ e.sequence <= MaxEvents
      /\ read' = Lines
  BY DEF append, Enter, Relied
<1>2. CASE UNCHANGED <<pc, job, notApplied>>
  BY <1>0, <1>1, <1>2, CalmStep DEF TypeInv
<1>3. CASE /\ ~Prepared(tx) /\ MatchesBefore(log, e) /\ Become(s, "prepare")
           /\ job' = [job EXCEPT ![s] = [tx |-> tx, envelope |-> e]]
           /\ notApplied' = notApplied \ {tx}
  <2>1. e \in Envelope
    <3>1. HeadAt(log, n) \in Hash /\ n + 1 \in Nat
      BY <1>0, Heads
    <3> QED
      BY <3>1 DEF sign_v2_event, Envelope
  <2> HIDE DEF e
  <2>2. [tx |-> tx, envelope |-> e] \in [tx : Txs, envelope : Envelope]
    BY <2>1
  <2>3. PICK j \in [tx : Txs, envelope : Envelope] :
          j = [tx |-> tx, envelope |-> e] /\ j.tx = tx /\ j.envelope = e
    BY <2>2
  <2>4. Len(journal) = 2 * Len(log)
    BY <1>1, Even
  <2>5. "prepare" \in Locked
    BY DEF Locked, Writing
  <2>6. job' = [job EXCEPT ![s] = j] /\ j.tx \notin notApplied'
    BY <1>3, <2>3
  <2>7. PICK step \in Locked : step = "prepare"
    BY <2>5
  <2>8. /\ step # "event" /\ step # "commit" /\ step \notin {"sync", "postcheck"}
        /\ Become(s, step)
    BY <1>3, <2>7
  <2>9. /\ ~ Prepared(j.tx) /\ MatchesBefore(log, j.envelope) /\ j.envelope.sequence <= MaxEvents
    BY <1>1, <1>3, <2>3
  <2> QED
    BY <1>1, <2>4, <2>6, <2>8, <2>9, EnterStep
<1> QED
  BY <1>2, <1>3 DEF append

\* reconcile_transaction goes on exactly where the transaction stopped.
LEMMA ReconcileWork ==
  ASSUME StoreInv, NEW tx \in Txs, Prepared(tx), Unresolved \subseteq {tx}
  PROVE  /\ PrepareOf(tx).envelope \in Envelope
         /\ ReconcileStep(tx) \in {"sync", "event", "commit"}
         /\ ReconcileStep(tx) = "sync" => Len(journal) = 2 * Len(log) /\ Committed(tx)
         /\ ReconcileStep(tx) = "event" => Len(journal) = 2 * Len(log) + 1 /\ Pending(tx, PrepareOf(tx).envelope)
         /\ ReconcileStep(tx) = "commit" => Len(journal) = 2 * Len(log) - 1 /\ Pending(tx, PrepareOf(tx).envelope)
<1>0. Types /\ Paired /\ Lengths /\ Len(log) \in Nat /\ Len(journal) \in Nat
  BY DEF StoreInv, TypeInv, FilesInv, Paired, Types
<1>1. PICK k \in Pos : 2 * k - 1 <= Len(journal) /\ journal[2 * k - 1].tx = tx
  BY <1>0, PreparedIs
<1>2. PrepareOf(tx) = journal[2 * k - 1]
  BY <1>0, <1>1, PrepareIs
<1>3. 2 * k - 1 \in 1 .. Len(journal) /\ journal[2 * k - 1] \in Entry
  <2>1. 2 * k - 1 \in 1 .. Len(journal)
    BY <1>0, <1>1 DEF Pos
  <2> QED
    BY <1>0, <2>1 DEF Types
<1>4. PrepareOf(tx).envelope \in Envelope
  BY <1>2, <1>3 DEF Entry
<1>5. ReconcileStep(tx) \in {"sync", "event", "commit"}
  BY DEF ReconcileStep
<1>6. CASE Committed(tx)
  <2>1. Unresolved = {}
    BY <1>6 DEF Unresolved
  <2>2. Len(journal) = 2 * Len(log)
    BY <2>1, Even
  <2>3. ReconcileStep(tx) = "sync"
    BY <1>6 DEF ReconcileStep
  <2> QED
    BY <1>4, <1>6, <2>2, <2>3
<1>7. CASE ~ Committed(tx)
  <2>1. ~ (2 * k <= Len(journal))
    BY <1>0, <1>1, <1>7, CommittedIs
  <2>2. Len(journal) = 2 * k - 1
    BY <1>0, <1>1, <2>1 DEF Pos
  <2>3. PrepareLine(k)
    BY <1>0, <1>1 DEF Paired
  <2>4. Pending(tx, PrepareOf(tx).envelope)
    <3>1. journal # <<>>
      <4>1. Len(journal) # 0
        BY <2>2 DEF Pos
      <4>2. Len(<<>>) = 0
        OBVIOUS
      <4> QED
        BY <4>1, <4>2
    <3> QED
      BY <1>1, <1>2, <2>2, <2>3, <3>1 DEF Pending, PrepareLine
  <2>5. PrepareOf(tx).envelope.sequence = k /\ PrepareOf(tx).envelope.previous_hash = HeadAt(log, k - 1)
    BY <1>2, <2>3 DEF PrepareLine
  <2>6. MatchesBefore(log, PrepareOf(tx).envelope) <=> k = Len(log) + 1
    BY <1>0, <2>5 DEF MatchesBefore, HeadOf, Pos
  <2>7. ReconcileStep(tx) = IF k = Len(log) + 1 THEN "event" ELSE "commit"
    BY <1>7, <2>6 DEF ReconcileStep
  <2>8. IF k = Len(log) + 1 THEN Len(journal) = 2 * Len(log) + 1 ELSE Len(journal) = 2 * Len(log) - 1
    BY <1>0, <2>2 DEF Lengths, Pos
  <2> QED
    BY <1>4, <2>4, <2>7, <2>8
<1> QED
  BY <1>6, <1>7

\* reconcile_transaction, up to its first write, keeps the invariant.
LEMMA ReconcileLedger ==
  ASSUME StoreInv, NEW s \in Stores, NEW tx \in Txs, reconcile_transaction(s, tx)
  PROVE  StoreInv' /\ Grown
<1>1. /\ UNCHANGED <<files, budget, checkpoint>> /\ LockFree /\ Prepared(tx) /\ Unresolved \subseteq {tx}
      /\ read' = Lines
      /\ Become(s, ReconcileStep(tx))
      /\ job' = [job EXCEPT ![s] = [tx |-> tx, envelope |-> PrepareOf(tx).envelope]]
  BY DEF reconcile_transaction, Enter, Relied, history
<1>2. /\ PrepareOf(tx).envelope \in Envelope
      /\ ReconcileStep(tx) \in {"sync", "event", "commit"}
      /\ ReconcileStep(tx) = "sync" => Len(journal) = 2 * Len(log) /\ Committed(tx)
      /\ ReconcileStep(tx) = "event" => Len(journal) = 2 * Len(log) + 1 /\ Pending(tx, PrepareOf(tx).envelope)
      /\ ReconcileStep(tx) = "commit" => Len(journal) = 2 * Len(log) - 1 /\ Pending(tx, PrepareOf(tx).envelope)
  BY <1>1, ReconcileWork
<1>3. [tx |-> tx, envelope |-> PrepareOf(tx).envelope] \in [tx : Txs, envelope : Envelope]
  BY <1>2
<1>4. PICK j \in [tx : Txs, envelope : Envelope] :
        /\ j = [tx |-> tx, envelope |-> PrepareOf(tx).envelope]
        /\ j.tx = tx /\ j.envelope = PrepareOf(tx).envelope
  BY <1>3
<1>5. PICK step \in Locked : step = ReconcileStep(tx) /\ step \in {"sync", "event", "commit"}
  BY <1>2 DEF Locked, Writing
<1>6. Become(s, step) /\ job' = [job EXCEPT ![s] = j]
  BY <1>1, <1>4, <1>5
<1>7. /\ step # "prepare"
      /\ step = "event" => Len(journal) = 2 * Len(log) + 1 /\ Pending(j.tx, j.envelope)
      /\ step = "commit" => Len(journal) = 2 * Len(log) - 1 /\ Pending(j.tx, j.envelope)
      /\ step \in {"sync", "postcheck"} => Len(journal) = 2 * Len(log) /\ Committed(j.tx)
  BY <1>2, <1>4, <1>5
<1> QED
  BY <1>1, <1>6, <1>7, EnterStep

\* What an operation does to the lines of the files: nothing, or it writes its own.
Touches(s) == UNCHANGED <<log, journal>> \/ (pc[s] \in Writing /\ Put(s))

\* Whatever a step leaves in the files, they stay paired and only grow.
LEMMA Touched ==
  ASSUME StoreInv, NEW s \in Stores, Touches(s)
  PROVE  Types' /\ FilesInv' /\ Grown
<1>1. Types /\ FilesInv
  BY DEF StoreInv, TypeInv
<1>2. CASE UNCHANGED <<log, journal>>
  BY <1>1, <1>2, Still
<1>3. CASE pc[s] \in Writing /\ Put(s)
  BY <1>3, PutEffect
<1> QED
  BY <1>2, <1>3 DEF Touches

\* A call that returns, raises or dies keeps the invariant.
LEMMA LeaveStep ==
  ASSUME StoreInv, NEW s \in Stores, NEW step \in {"down", "idle"}, Leave(s, step), Touches(s),
         pc[s] \notin Locked => UNCHANGED <<log, journal, notApplied>>,
         TailInv', synced' \in [Files -> Nat], budget' \in [faults : Nat, losses : Nat],
         read' \in [Files -> Nat],
         checkpoint' = checkpoint
  PROVE  StoreInv' /\ Grown
<1>0. TypeInv /\ \A u \in Stores : Work(u)
  BY DEF StoreInv
<1>1. Types' /\ FilesInv' /\ Grown
  BY Touched
<1>2. /\ job' \in [Stores -> [tx : Txs, envelope : Envelope] \union {Nobody}]
      /\ pc' \in [Stores -> Locked \union {"down", "idle", "creating"}]
      /\ pc'[s] = step /\ \A u \in Stores : u # s => pc'[u] = pc[u] /\ job'[u] = job[u]
  BY <1>0, JobTyped
<1>3. TypeInv'
  BY <1>0, <1>1, <1>2 DEF TypeInv
<1>4. pc'[s] \notin Locked
  BY <1>2 DEF Locked, Writing
<1>5. ASSUME NEW u \in Stores PROVE Work(u)'
  <2>1. CASE pc'[u] \notin Locked
    BY <2>1, WorkIdle
  <2>2. CASE pc'[u] \in Locked
    <3>1. u # s /\ pc'[u] = pc[u] /\ job'[u] = job[u]
      BY <1>2, <1>4, <2>2
    <3>2. pc[s] \notin Locked
      BY <2>2, <3>1, JobHeld
    <3>3. \A v \in Stores : pc'[v] \in Locked => pc[v] \in Locked
      BY <1>2, <1>4
    <3> QED
      BY <1>0, <3>1, <3>2, <3>3, WorkStands
  <2> QED
    BY <2>1, <2>2
<1> QED
  BY <1>1, <1>3, <1>5 DEF StoreInv

\* The holder of the lock goes on to its next step.
LEMMA HoldStep ==
  ASSUME StoreInv, NEW s \in Stores, pc[s] \in Locked, NEW step \in Locked, Become(s, step),
         Touches(s), UNCHANGED <<job, checkpoint>>,
         NEW tx \in Txs, NEW e \in Envelope, tx = job[s].tx, e = job[s].envelope,
         step # "prepare",
         step = "event" => Len(journal') = 2 * Len(log') + 1 /\ Pending(tx, e)',
         step = "commit" => Len(journal') = 2 * Len(log') - 1 /\ Pending(tx, e)',
         step \in {"sync", "postcheck"} => Len(journal') = 2 * Len(log') /\ Committed(tx)',
         TailInv', synced' \in [Files -> Nat], budget' \in [faults : Nat, losses : Nat],
         read' \in [Files -> Nat]
  PROVE  StoreInv' /\ Grown
<1>0. TypeInv /\ Work(s)
  BY DEF StoreInv
<1>1. Types' /\ FilesInv' /\ Grown
  BY Touched
<1>2. /\ pc' \in [Stores -> Locked \union {"down", "idle", "creating"}]
      /\ pc'[s] = step /\ \A u \in Stores : u # s => pc'[u] = pc[u] /\ pc[u] \notin Locked
  BY <1>0, JobHeld DEF TypeInv, Become
<1>3. TypeInv'
  BY <1>0, <1>1, <1>2 DEF TypeInv
<1>4. Work(s)'
  <2>1. /\ job'[s] = job[s] /\ tx = job'[s].tx /\ e = job'[s].envelope
        /\ job'[s] \in [tx : Txs, envelope : Envelope]
    BY <1>0 DEF Work
  <2>4. Committed(job[s].tx)' <=> Committed(tx)'
    BY <2>1 DEF Committed
  <2>5. Pending(job[s].tx, job[s].envelope)' <=> Pending(tx, e)'
    BY <2>1 DEF Pending
  <2> QED
    BY <1>2, <2>1, <2>4, <2>5 DEF Work
<1>5. ASSUME NEW u \in Stores, u # s PROVE Work(u)'
  BY <1>2, <1>5, WorkIdle
<1> QED
  BY <1>1, <1>3, <1>4, <1>5 DEF StoreInv

\* A line that was written and synced leaves nothing exposed.
LEMMA Synced ==
  ASSUME StoreInv, NEW s \in Stores, pc[s] \in Writing, AppendRecord(s), budget' = budget, read' = read
  PROVE  /\ TailInv' /\ synced' \in [Files -> Nat] /\ budget' \in [faults : Nat, losses : Nat]
         /\ read' \in [Files -> Nat]
<1>0. TypeInv /\ TailInv /\ Types /\ pc[s] \in Locked
  BY DEF StoreInv, TypeInv, Locked
<1>1. Put(s) /\ synced' = [synced EXCEPT ![FileOf(pc[s])] = Lines'[FileOf(pc[s])]]
  BY DEF AppendRecord
<1>2. Types' /\ Grown
  BY <1>1, PutEffect
<1>3. /\ Len(log') \in Nat /\ Len(journal') \in Nat /\ Len(log) \in Nat /\ Len(journal) \in Nat
      /\ Len(log) <= Len(log') /\ Len(journal) <= Len(journal')
  BY <1>0, <1>2 DEF Types, Grown
<1>4. Lines' = [f \in Files |-> IF f = "log" THEN Len(log') ELSE Len(journal')]
  BY DEF Lines
<1>5. FileOf(pc[s]) \in Files /\ "log" \in Files /\ "journal" \in Files
  BY DEF FileOf, Files
<1>6. Lines' \in [Files -> Nat] /\ Lines'[FileOf(pc[s])] \in Nat
  BY <1>3, <1>4, <1>5
<1>7. synced' \in [Files -> Nat] /\ read \in [Files -> Nat] /\ synced \in [Files -> Nat]
  BY <1>0, <1>1, <1>5, <1>6 DEF TypeInv
<1>8. ~ ExposedLog /\ ~ ExposedJournal
  BY <1>0 DEF TailInv
<1>9. ~ ExposedLog' /\ ~ ExposedJournal'
  <2>1. CASE pc[s] = "event"
    <3>1. journal' = journal /\ FileOf(pc[s]) = "log"
      BY <1>1, <2>1, PutEffect DEF FileOf
    <3>2. synced'["log"] = Len(log') /\ synced'["journal"] = synced["journal"]
      BY <1>1, <1>4, <1>5, <1>7, <3>1
    <3> QED
      BY <1>3, <1>8, <3>1, <3>2 DEF ExposedLog, ExposedJournal
  <2>2. CASE pc[s] # "event"
    <3>1. log' = log /\ FileOf(pc[s]) = "journal"
      BY <1>1, <2>2, PutEffect DEF FileOf, Writing
    <3>2. synced'["journal"] = Len(journal') /\ synced'["log"] = synced["log"]
      BY <1>1, <1>4, <1>5, <1>7, <3>1
    <3> QED
      BY <1>3, <1>8, <3>1, <3>2 DEF ExposedLog, ExposedJournal
  <2> QED
    BY <2>1, <2>2
<1>10. read'["log"] <= Len(log') /\ read'["journal"] <= Len(journal')
  BY <1>0, <1>3, <1>5, <1>7 DEF TailInv
<1> QED
  BY <1>0, <1>7, <1>9, <1>10 DEF TailInv, TypeInv

\* The three writes keep the invariant: none of their checks ever fails.
LEMMA WriteStep ==
  ASSUME StoreInv, NEW s \in Stores, WritePrepare(s) \/ WriteEvent(s) \/ WriteCommit(s)
  PROVE  /\ StoreInv' /\ Grown /\ pc[s] \in Writing /\ Put(s)
         /\ UNCHANGED <<acked, notApplied, checkpoint, dispatched>>
<1>0. pc[s] \in Writing /\ pc[s] \in Locked /\ Work(s) /\ UNCHANGED <<budget, read, history>>
  BY DEF WritePrepare, WriteEvent, WriteCommit, Writing, Locked, StoreInv, reliance
<1>1. UNCHANGED <<acked, notApplied, checkpoint, dispatched>>
  BY <1>0 DEF history
<1>2. job[s].tx \in Txs /\ job[s].envelope \in Envelope
  BY <1>0, JobHeld
<1>3. PICK tx \in Txs, e \in Envelope : tx = job[s].tx /\ e = job[s].envelope
  BY <1>2
<1>4. CASE WritePrepare(s)
  <2>1. pc[s] = "prepare" /\ AppendRecord(s) /\ Put(s) /\ Become(s, "event") /\ job' = job
    BY <1>4 DEF WritePrepare, AppendRecord
  <2>2. Len(journal') = 2 * Len(log') + 1 /\ Pending(tx, e)'
    BY <1>0, <1>3, <2>1, PutEffect
  <2>3. /\ TailInv' /\ synced' \in [Files -> Nat] /\ budget' \in [faults : Nat, losses : Nat]
        /\ read' \in [Files -> Nat]
    BY <1>0, <2>1, Synced
  <2>4. Touches(s)
    BY <1>0, <2>1 DEF Touches
  <2>5. PICK step \in Locked : step = "event"
    BY DEF Locked, Writing
  <2>6. step # "prepare" /\ step # "commit" /\ step \notin {"sync", "postcheck"} /\ Become(s, step)
    BY <2>1, <2>5
  <2> QED
    BY <1>0, <1>1, <1>3, <2>1, <2>2, <2>3, <2>4, <2>6, HoldStep
<1>5. CASE WriteEvent(s)
  <2>1. pc[s] = "event" /\ AppendRecord(s) /\ Put(s)
    BY <1>5 DEF WriteEvent, AppendRecord
  <2>2. /\ Len(journal') = 2 * Len(log') - 1 /\ Pending(tx, e)'
        /\ MatchesAfter(log', job[s].envelope)
    BY <1>0, <1>3, <2>1, PutEffect
  <2>3. Become(s, "commit") /\ job' = job
    BY <1>5, <2>2 DEF WriteEvent
  <2>4. /\ TailInv' /\ synced' \in [Files -> Nat] /\ budget' \in [faults : Nat, losses : Nat]
        /\ read' \in [Files -> Nat]
    BY <1>0, <2>1, Synced
  <2>5. Touches(s)
    BY <1>0, <2>1 DEF Touches
  <2>6. PICK step \in Locked : step = "commit"
    BY DEF Locked, Writing
  <2>7. step # "prepare" /\ step # "event" /\ step \notin {"sync", "postcheck"} /\ Become(s, step)
    BY <2>3, <2>6
  <2> QED
    BY <1>0, <1>1, <1>3, <2>1, <2>2, <2>3, <2>4, <2>5, <2>7, HoldStep
<1>6. CASE WriteCommit(s)
  <2>0. pc[s] = "commit" /\ Pending(job[s].tx, job[s].envelope)
    BY <1>0, <1>6 DEF WriteCommit, Work
  <2>1. AppendRecord(s) /\ Put(s) /\ Become(s, "postcheck") /\ job' = job
    BY <1>6, <2>0 DEF WriteCommit, AppendRecord, Pending
  <2>2. Len(journal') = 2 * Len(log') /\ Committed(tx)'
    BY <1>0, <1>3, <2>0, <2>1, PutEffect
  <2>4. /\ TailInv' /\ synced' \in [Files -> Nat] /\ budget' \in [faults : Nat, losses : Nat]
        /\ read' \in [Files -> Nat]
    BY <1>0, <2>1, Synced
  <2>5. Touches(s)
    BY <1>0, <2>1 DEF Touches
  <2>6. PICK step \in Locked : step = "postcheck"
    BY DEF Locked, Writing
  <2>7. step # "prepare" /\ step # "event" /\ step # "commit" /\ Become(s, step)
    BY <2>1, <2>6
  <2> QED
    BY <1>0, <1>1, <1>3, <2>1, <2>2, <2>4, <2>5, <2>7, HoldStep
<1> QED
  BY <1>4, <1>5, <1>6

\* _sync_existing keeps the invariant.
LEMMA SyncStep ==
  ASSUME StoreInv, NEW s \in Stores, SyncExisting(s)
  PROVE  StoreInv' /\ Grown
<1>0. pc[s] = "sync" /\ pc[s] \in Locked /\ Work(s) /\ TypeInv /\ TailInv /\ Types
  BY DEF SyncExisting, Locked, StoreInv, TypeInv
<1>1. UNCHANGED <<log, journal, job, checkpoint, budget, read>> /\ synced' = Lines /\ Become(s, "postcheck")
  BY DEF SyncExisting, history, reliance
<1>2. job[s].tx \in Txs /\ job[s].envelope \in Envelope
  BY <1>0, JobHeld
<1>3. PICK tx \in Txs, e \in Envelope : tx = job[s].tx /\ e = job[s].envelope
  BY <1>2
<1>4. Len(journal') = 2 * Len(log') /\ Committed(tx)'
  <2>1. Len(journal) = 2 * Len(log) /\ Committed(tx)
    BY <1>0, <1>3 DEF Work
  <2> QED
    BY <1>1, <2>1 DEF Committed
<1>5. /\ TailInv' /\ synced' \in [Files -> Nat] /\ budget' \in [faults : Nat, losses : Nat]
      /\ read' \in [Files -> Nat]
  <2>1. /\ synced' \in [Files -> Nat] /\ synced'["log"] = Len(log') /\ synced'["journal"] = Len(journal')
        /\ Len(log) \in Nat /\ Len(journal) \in Nat
    BY <1>0, <1>1, LinesAre
  <2>2. ~ ExposedLog' /\ ~ ExposedJournal'
    BY <1>1, <2>1 DEF ExposedLog, ExposedJournal
  <2> QED
    BY <1>0, <1>1, <2>1, <2>2 DEF TailInv, TypeInv
<1>6. Touches(s)
  BY <1>1 DEF Touches
<1>7. PICK step \in Locked : step = "postcheck"
  BY DEF Locked, Writing
<1>8. step # "prepare" /\ step # "event" /\ step # "commit" /\ Become(s, step)
  BY <1>1, <1>7
<1> QED
  BY <1>0, <1>1, <1>3, <1>4, <1>5, <1>6, <1>8, HoldStep

\* The last read keeps the invariant.
LEMMA PostcheckStep ==
  ASSUME StoreInv, NEW s \in Stores, Postcheck(s)
  PROVE  StoreInv' /\ Grown
<1>0. pc[s] \in Locked /\ TypeInv /\ TailInv /\ Types
  BY DEF Postcheck, Locked, StoreInv, TypeInv
<1>1. UNCHANGED <<log, journal, synced, checkpoint, budget>> /\ Leave(s, "idle")
  BY DEF Postcheck, files
<1>2. /\ TailInv' /\ synced' \in [Files -> Nat] /\ budget' \in [faults : Nat, losses : Nat]
      /\ read' \in [Files -> Nat]
  <2>1. CASE read' = read
    BY <1>0, <1>1, <2>1, TailStands DEF TypeInv
  <2>2. CASE read' = Lines
    BY <1>0, <1>1, <2>2, TailRead DEF TypeInv
  <2> QED
    BY <2>1, <2>2 DEF Postcheck, Relied, reliance
<1>3. Touches(s)
  BY <1>1 DEF Touches
<1> QED
  BY <1>0, <1>1, <1>2, <1>3, LeaveStep

\* Nothing, part of a line or a whole line is left behind.
LEMMA LeavesTouch ==
  ASSUME NEW s \in Stores,
         NEW how \in {"nothing"} \union IF pc[s] \in Writing THEN {"part", "line"} ELSE {},
         Leaves(s, how)
  PROVE  /\ Touches(s) /\ synced' = synced
         /\ how = "nothing" => UNCHANGED <<log, journal>>
         /\ pc[s] \notin Locked => UNCHANGED <<log, journal>>
<1>1. CASE how = "nothing"
  BY <1>1 DEF Leaves, Touches, files
<1>2. CASE how = "part"
  <2>1. UNCHANGED <<log, journal, synced>>
    BY <1>2 DEF Leaves
  <2> QED
    BY <1>2, <2>1 DEF Touches
<1>3. CASE how = "line"
  <2>1. pc[s] \in Writing /\ Put(s) /\ synced' = synced
    BY <1>3 DEF Leaves
  <2> QED
    BY <1>3, <2>1 DEF Touches, Locked
<1> QED
  BY <1>1, <1>2, <1>3

\* One fault less is left.
LEMMA Spent ==
  ASSUME TypeInv, Spend
  PROVE  budget' \in [faults : Nat, losses : Nat]
<1>1. budget \in [faults : Nat, losses : Nat] /\ budget.faults > 0
  BY DEF TypeInv, Spend
<1>2. budget' = [budget EXCEPT !.faults = budget.faults - 1]
  BY DEF Spend
<1>3. budget.faults - 1 \in Nat
  BY <1>1
<1> QED
  BY <1>1, <1>2, <1>3

\* A line that a failed or dead call has left is exposed, and no other is.
LEMMA TailLeft ==
  ASSUME StoreInv, NEW s \in Stores, pc[s] \in Writing, Put(s), UNCHANGED <<synced, read>>,
         \A u \in Stores : pc'[u] \notin Locked
  PROVE  TailInv'
<1>0. TailInv /\ Types /\ pc[s] \in Locked /\ TypeInv
  BY DEF StoreInv, TypeInv, Locked
<1>1. Types' /\ Grown
  BY PutEffect
<1>2. /\ Len(log') \in Nat /\ Len(journal') \in Nat /\ Len(log) \in Nat /\ Len(journal) \in Nat
      /\ Len(log) <= Len(log') /\ Len(journal) <= Len(journal')
  BY <1>0, <1>1 DEF Types, Grown
<1>3. /\ read["log"] \in Nat /\ synced["log"] \in Nat /\ read["journal"] \in Nat /\ synced["journal"] \in Nat
  BY <1>0 DEF TypeInv, Files
<1>4. /\ ~ ExposedLog /\ ~ ExposedJournal /\ read["log"] <= Len(log) /\ read["journal"] <= Len(journal)
  BY <1>0 DEF TailInv
<1>5. job[s].tx \in Txs /\ job[s].envelope \in Envelope /\ log \in Seq(Envelope) /\ journal \in Seq(Entry)
  BY <1>0, JobHeld DEF Types
<1>6. CASE pc[s] = "event"
  <2>1. journal' = journal /\ Len(journal') = 2 * Len(log') - 1 /\ Len(log') = Len(log) + 1
    BY <1>5, <1>6, PutEffect, SeqGrows
  <2>2. ~ ExposedJournal'
    BY <1>4, <2>1 DEF ExposedJournal
  <2>3. Len(log') <= read'["log"] + 1 \/ Len(log') <= synced'["log"] + 1
    BY <1>2, <1>3, <1>4, <2>1 DEF ExposedLog
  <2> QED
    BY <1>2, <1>3, <1>4, <2>1, <2>2, <2>3 DEF TailInv
<1>7. CASE pc[s] # "event"
  <2>1. log' = log /\ Len(journal') \in {2 * Len(log') + 1, 2 * Len(log')}
    BY <1>7, PutEffect DEF Writing
  <2>2. Len(journal') = Len(journal) + 1
    <3>1. PICK x \in Entry : journal' = Append(journal, x)
      BY <1>0, <1>5, <1>7, EntryTyped DEF Put, Writing
    <3> QED
      BY <1>5, <3>1, SeqGrows
  <2>3. ~ ExposedLog' /\ Len(journal') # 2 * Len(log') - 1
    BY <1>2, <1>4, <2>1 DEF ExposedLog
  <2>4. Len(journal') <= read'["journal"] + 1 \/ Len(journal') <= synced'["journal"] + 1
    BY <1>2, <1>3, <1>4, <2>2 DEF ExposedJournal
  <2> QED
    BY <1>2, <1>3, <1>4, <2>1, <2>3, <2>4 DEF TailInv
<1> QED
  BY <1>6, <1>7

\* A failed call or a dead process keeps the invariant, wherever it happens.
LEMMA FaultStep ==
  ASSUME StoreInv, NEW s \in Stores, IOFails(s) \/ Crash(s)
  PROVE  /\ StoreInv' /\ Grown /\ Touches(s)
         /\ acked' = acked /\ checkpoint' = checkpoint /\ dispatched' = dispatched
<1>0. TypeInv /\ TailInv /\ Spend /\ read' = read
  BY DEF StoreInv, IOFails, Crash, reliance
<1>1. UNCHANGED <<acked, checkpoint, dispatched>>
  BY DEF IOFails, Crash, history
<1>2. PICK step \in {"down", "idle"} : Leave(s, step)
  BY DEF IOFails, Crash
<1>3. PICK how \in {"nothing"} \union IF pc[s] \in Writing THEN {"part", "line"} ELSE {} : Leaves(s, how)
  BY DEF IOFails, Crash
<1>4. /\ Touches(s) /\ synced' = synced
      /\ pc[s] \notin Locked => UNCHANGED <<log, journal>>
  BY <1>3, LeavesTouch
<1>5. pc[s] \notin Locked => notApplied' = notApplied
  BY DEF IOFails, Crash, history
<1>6. budget' \in [faults : Nat, losses : Nat]
  BY <1>0, Spent
<1>7. synced' \in [Files -> Nat] /\ read' \in [Files -> Nat]
  BY <1>0, <1>4 DEF TypeInv
<1>t. TailInv'
  <2>1. pc'[s] = step /\ step \notin Locked /\ \A u \in Stores : u # s => pc'[u] = pc[u]
    BY <1>0, <1>2, JobTyped DEF Locked, Writing
  <2>2. CASE UNCHANGED <<log, journal>>
    <3>1. \A u \in Stores : pc'[u] \in Locked => \E v \in Stores : pc[v] \in Locked
      BY <2>1
    <3> QED
      BY <1>0, <1>4, <2>2, <3>1, TailStands
  <2>3. CASE pc[s] \in Writing /\ Put(s)
    <3>1. \A u \in Stores : pc'[u] \notin Locked
      BY <2>1, <2>3, JobHeld DEF Locked
    <3> QED
      BY <1>0, <1>4, <2>3, <3>1, TailLeft
  <2> QED
    BY <1>4, <2>2, <2>3 DEF Touches
<1>8. StoreInv' /\ Grown
  BY <1>t, <1>1, <1>2, <1>4, <1>5, <1>6, <1>7, LeaveStep
<1> QED
  BY <1>1, <1>4, <1>8

\* Power takes at most the exposed line, unless it takes what was acted on.
LEMMA PowerTakes ==
  ASSUME StoreInv, PowerLoss, lost' = {}
  PROVE  \E n, m \in Nat :
           /\ n <= Len(log) /\ m <= Len(journal) /\ m \in {2 * n - 1, 2 * n, 2 * n + 1}
           /\ read["log"] <= n /\ read["journal"] <= m
           /\ log' = SubSeq(log, 1, n) /\ journal' = SubSeq(journal, 1, m)
<1>0. /\ TypeInv /\ TailInv /\ Types /\ Lengths /\ log \in Seq(Envelope) /\ journal \in Seq(Entry)
      /\ Len(log) \in Nat /\ Len(journal) \in Nat
  BY DEF StoreInv, TypeInv, Types, FilesInv, Paired
<1>1. /\ read["log"] \in Nat /\ synced["log"] \in Nat /\ read["journal"] \in Nat /\ synced["journal"] \in Nat
  BY <1>0 DEF TypeInv, Files
<1>2. PICK n \in synced["log"]..Len(log) : log' = SubSeq(log, 1, n)
  BY DEF PowerLoss
<1>3. PICK m \in synced["journal"]..Len(journal) : journal' = SubSeq(journal, 1, m)
  BY DEF PowerLoss
<1>4. n \in Nat /\ m \in Nat /\ n <= Len(log) /\ m <= Len(journal) /\ synced["log"] <= n /\ synced["journal"] <= m
  BY <1>0, <1>1
<1>5. Len(log') = n /\ Len(journal') = m
  BY <1>0, <1>2, <1>3, <1>4, SubSeqFirst
<1>6. read["log"] <= n /\ read["journal"] <= m
  <2>1. {f \in Files : Lines'[f] < read[f]} = {}
    BY DEF PowerLoss
  <2>2. Lines'["log"] = n /\ Lines'["journal"] = m
    BY <1>5 DEF Lines, Files
  <2>3. "log" \in Files /\ "journal" \in Files
    BY DEF Files
  <2>4. ~ (n < read["log"]) /\ ~ (m < read["journal"])
    BY <2>1, <2>2, <2>3
  <2> QED
    BY <1>1, <1>4, <2>4
<1>7. n < Len(log) => ExposedLog /\ n = Len(log) - 1
  <2>1. n < Len(log) => ExposedLog
    BY <1>0, <1>1, <1>4, <1>6 DEF ExposedLog
  <2> QED
    BY <1>0, <1>1, <1>4, <1>6, <2>1 DEF TailInv
<1>8. m < Len(journal) => ExposedJournal /\ m = Len(journal) - 1
  <2>1. m < Len(journal) => ExposedJournal
    BY <1>0, <1>1, <1>4, <1>6 DEF ExposedJournal
  <2> QED
    BY <1>0, <1>1, <1>4, <1>6, <2>1 DEF TailInv
<1>9. m \in {2 * n - 1, 2 * n, 2 * n + 1}
  <2>1. CASE n < Len(log)
    <3>1. n = Len(log) - 1 /\ m = Len(journal) /\ Len(journal) = 2 * Len(log) - 1
      BY <1>0, <1>4, <1>7, <1>8, <2>1 DEF TailInv
    <3> QED
      BY <1>0, <1>4, <3>1
  <2>2. CASE n = Len(log) /\ m < Len(journal)
    <3>1. m = Len(journal) - 1 /\ Len(journal) # 2 * Len(log) - 1
      BY <1>0, <1>8, <2>2 DEF TailInv
    <3> QED
      BY <1>0, <1>4, <2>2, <3>1 DEF Lengths
  <2>3. CASE n = Len(log) /\ m = Len(journal)
    BY <1>0, <2>3 DEF Lengths
  <2> QED
    BY <1>0, <1>4, <2>1, <2>2, <2>3
<1> QED
  BY <1>2, <1>3, <1>4, <1>6, <1>9

\* The lines that were acted on stay in the files.
Keeps ==
    /\ read["log"] <= read'["log"] /\ read["journal"] <= read'["journal"]
    /\ \A k \in 1..read["log"] : k \in 1..Len(log') /\ log'[k] = log[k]
    /\ \A k \in 1..read["journal"] : k \in 1..Len(journal') /\ journal'[k] = journal[k]

\* Power loss leaves reconcilable files and every line that was acted on.
LEMMA PowerStep ==
  ASSUME StoreInv, PowerLoss, lost' = {}
  PROVE  StoreInv' /\ Keeps /\ UNCHANGED <<acked, notApplied, checkpoint, dispatched>>
<1>0. /\ TypeInv /\ Types /\ FilesInv /\ log \in Seq(Envelope) /\ journal \in Seq(Entry)
      /\ budget \in [faults : Nat, losses : Nat] /\ Len(log) \in Nat /\ Len(journal) \in Nat
      /\ read \in [Files -> Nat] /\ read["log"] \in Nat /\ read["journal"] \in Nat
  BY DEF StoreInv, TypeInv, Types, Files
<1>1. PICK n, m \in Nat :
           /\ n <= Len(log) /\ m <= Len(journal) /\ m \in {2 * n - 1, 2 * n, 2 * n + 1}
           /\ read["log"] <= n /\ read["journal"] <= m
           /\ log' = SubSeq(log, 1, n) /\ journal' = SubSeq(journal, 1, m)
  BY PowerTakes
<1>2. Types' /\ FilesInv'
  BY <1>0, <1>1, Dropped, ConstantsAssumption
<1>3. /\ Len(log') = n /\ Len(journal') = m
      /\ \A k \in 1 .. n : log'[k] = log[k]
      /\ \A k \in 1 .. m : journal'[k] = journal[k]
  BY <1>0, <1>1, SubSeqFirst
<1>4. UNCHANGED <<acked, notApplied, checkpoint, dispatched>> /\ read' = read
  BY DEF PowerLoss, history
<1>5. Keeps
  <2>1. /\ \A k \in 1 .. read["log"] : k \in 1 .. n
        /\ \A k \in 1 .. read["journal"] : k \in 1 .. m
    BY <1>0, <1>1
  <2> QED
    BY <1>0, <1>3, <1>4, <2>1 DEF Keeps
<1>6. synced' \in [Files -> Nat] /\ synced'["log"] = n /\ synced'["journal"] = m
  <2>1. synced' = Lines'
    BY DEF PowerLoss
  <2>2. Lines' = [f \in Files |-> IF f = "log" THEN n ELSE m]
    BY <1>3 DEF Lines
  <2> QED
    BY <2>1, <2>2 DEF Files
<1>7. budget' \in [faults : Nat, losses : Nat]
  <2>1. budget' = [budget EXCEPT !.losses = budget.losses - 1] /\ budget.losses - 1 \in Nat
    BY <1>0 DEF PowerLoss
  <2> QED
    BY <1>0, <2>1
<1>8. pc' = [s \in Stores |-> "down"] /\ job' = [s \in Stores |-> Nobody]
  BY DEF PowerLoss
<1>9. TypeInv'
  BY <1>0, <1>2, <1>4, <1>6, <1>7, <1>8 DEF TypeInv
<1>10. \A s \in Stores : pc'[s] \notin Locked
  BY <1>8 DEF Locked, Writing
<1>11. TailInv'
  <2>1. ~ ExposedLog' /\ ~ ExposedJournal'
    BY <1>3, <1>6 DEF ExposedLog, ExposedJournal
  <2> QED
    BY <1>1, <1>3, <1>4, <1>10, <2>1 DEF TailInv
<1>12. \A s \in Stores : Work(s)'
  BY <1>10, WorkIdle
<1> QED
  BY <1>2, <1>4, <1>5, <1>9, <1>11, <1>12 DEF StoreInv

-----------------------------------------------------------------------------
(* The invariant *)

\* The invariant holds of a store that was never opened.
LEMMA StoreInitial ==
  ASSUME Init
  PROVE  StoreInv
<1>1. /\ log = <<>> /\ journal = <<>> /\ synced = [f \in Files |-> 0] /\ read = [f \in Files |-> 0]
      /\ pc = [s \in Stores |-> "down"] /\ job = [s \in Stores |-> Nobody]
      /\ checkpoint = [events |-> <<>>, entries |-> <<>>] /\ budget \in Budgets
  BY DEF Init
<1>2. Len(<<>>) = 0 /\ \A S : <<>> \in Seq(S)
  OBVIOUS
<1>3. budget \in [faults : Nat, losses : Nat]
  BY <1>1, ConstantsAssumption
<1>4. Types
  BY <1>1, <1>2 DEF Types
<1>5. TypeInv
  BY <1>1, <1>2, <1>3, <1>4 DEF TypeInv
<1>6. Len(log) = 0 /\ Len(journal) = 0 /\ MaxEvents \in Nat
  BY <1>1, <1>2, ConstantsAssumption
<1>7. TailInv
  <2>1. read["log"] = 0 /\ read["journal"] = 0
    BY <1>1 DEF Files
  <2>2. \A s \in Stores : pc[s] \notin Locked
    BY <1>1 DEF Locked, Writing
  <2> QED
    BY <1>6, <2>1, <2>2 DEF TailInv, ExposedLog, ExposedJournal
<1>8. FilesInv
  <2>2. Lengths
    BY <1>6 DEF Lengths
  <2>3. ChainVerifies(log) /\ JournalVerifies(journal)
    BY <1>6 DEF ChainVerifies, JournalVerifies
  <2>4. \A k \in Pos : ~ (2 * k - 1 <= Len(journal)) /\ ~ (2 * k <= Len(journal))
    BY <1>6 DEF Pos
  <2> QED
    BY <2>2, <2>3, <2>4 DEF FilesInv, Paired
<1>9. \A s \in Stores : Work(s)
  BY <1>1 DEF Work, Locked, Writing
<1> QED
  BY <1>5, <1>7, <1>8, <1>9 DEF StoreInv

\* Every step but a power loss keeps the invariant, and only adds lines to the
\* files.
LEMMA StoreGrows ==
  ASSUME StoreInv, [Next]_vars, ~ PowerLoss
  PROVE  StoreInv' /\ Grown
<1>1. CASE UNCHANGED vars
  <2>1. UNCHANGED <<files, job, notApplied, budget, pc, checkpoint, read>>
    BY <1>1 DEF vars, history, reliance
  <2>2. TypeInv
    BY DEF StoreInv
  <2> QED
    BY <2>1, <2>2, CalmStep DEF TypeInv
<1>3. ASSUME NEW s \in Stores, Open(s) \/ CreateJournal(s)
      PROVE  StoreInv' /\ Grown
  BY <1>3, OpenStep
<1>4. ASSUME NEW s \in Stores, WritePrepare(s) \/ WriteEvent(s) \/ WriteCommit(s)
      PROVE  StoreInv' /\ Grown
  BY <1>4, WriteStep
<1>5. ASSUME NEW s \in Stores, SyncExisting(s) PROVE StoreInv' /\ Grown
  BY <1>5, SyncStep
<1>6. ASSUME NEW s \in Stores, Postcheck(s) PROVE StoreInv' /\ Grown
  BY <1>6, PostcheckStep
<1>7. ASSUME NEW s \in Stores, IOFails(s) \/ Crash(s) PROVE StoreInv' /\ Grown
  BY <1>7, FaultStep
<1>8. ASSUME NEW s \in Stores, sign_checkpoint(s) \/ verify_signed_dispatch(s)
      PROVE  StoreInv' /\ Grown
  BY <1>8, ReadStep
<1>9. ASSUME NEW s \in Stores, NEW tx \in Txs, reconcile_transaction(s, tx)
      PROVE  StoreInv' /\ Grown
  BY <1>9, ReconcileLedger
<1>10. ASSUME NEW s \in Stores, NEW tx \in Txs, NEW b \in Bodies, NEW n \in 0 .. Len(log),
              append(s, tx, b, n)
       PROVE  StoreInv' /\ Grown
  BY <1>10, AppendStep
<1> QED
  BY <1>1, <1>3, <1>4, <1>5, <1>6, <1>7, <1>8, <1>9, <1>10 DEF Next, Progress

\* No step but a power loss takes a line, and a step that relies on the files
\* relies on all of their lines.
LEMMA RelianceGrows ==
  ASSUME [Next]_vars, ~ PowerLoss
  PROVE  lost' = lost /\ (read' = read \/ read' = Lines)
<1>1. CASE UNCHANGED vars
  BY <1>1 DEF vars, reliance
<1>2. ASSUME NEW s \in Stores, Open(s) \/ Progress(s) \/ IOFails(s) \/ Crash(s)
      PROVE  lost' = lost /\ (read' = read \/ read' = Lines)
  BY <1>2 DEF Open, Progress, CreateJournal, WritePrepare, WriteEvent, WriteCommit, SyncExisting,
              Postcheck, IOFails, Crash, reliance, Relied
<1>3. ASSUME NEW s \in Stores, sign_checkpoint(s) \/ verify_signed_dispatch(s)
      PROVE  lost' = lost /\ (read' = read \/ read' = Lines)
  BY <1>3 DEF sign_checkpoint, verify_signed_dispatch, Relied
<1>4. ASSUME NEW s \in Stores, NEW tx \in Txs, reconcile_transaction(s, tx)
      PROVE  lost' = lost /\ (read' = read \/ read' = Lines)
  BY <1>4 DEF reconcile_transaction, Relied
<1>5. ASSUME NEW s \in Stores, NEW tx \in Txs, NEW b \in Bodies, NEW n \in 0 .. Len(log),
              append(s, tx, b, n)
      PROVE  lost' = lost /\ (read' = read \/ read' = Lines)
  BY <1>5 DEF append, Relied
<1> QED
  BY <1>1, <1>2, <1>3, <1>4, <1>5 DEF Next

\* A file that has lost a line that was acted on is remembered.
LEMMA LostStays ==
  ASSUME [Next]_vars, lost' = {}
  PROVE  lost = {}
<1>1. CASE PowerLoss
  BY <1>1 DEF PowerLoss
<1>2. CASE ~ PowerLoss
  BY <1>2, RelianceGrows
<1> QED
  BY <1>1, <1>2

\* Every step keeps the invariant and what was acted on, unless it is lost.
LEMMA StoreKept ==
  ASSUME StoreInv, [Next]_vars, lost' = {}
  PROVE  StoreInv' /\ Keeps
<1>1. CASE PowerLoss
  BY <1>1, PowerStep
<1>2. CASE ~ PowerLoss
  <2>1. StoreInv' /\ Grown /\ (read' = read \/ read' = Lines)
    BY <1>2, StoreGrows, RelianceGrows
  <2>2. /\ Types /\ read \in [Files -> Nat] /\ read["log"] <= Len(log) /\ read["journal"] <= Len(journal)
        /\ Len(log') \in Nat /\ Len(journal') \in Nat
    BY <2>1 DEF StoreInv, TypeInv, TailInv, Types
  <2>3. /\ Lines["log"] = Len(log) /\ Lines["journal"] = Len(journal)
        /\ Len(log) \in Nat /\ Len(journal) \in Nat
        /\ read["log"] \in Nat /\ read["journal"] \in Nat
    BY <2>2, LinesAre DEF Files
  <2>4. /\ \A k \in 1 .. read["log"] : k \in 1 .. Len(log) /\ k \in 1 .. Len(log')
        /\ \A k \in 1 .. read["journal"] : k \in 1 .. Len(journal) /\ k \in 1 .. Len(journal')
    BY <2>1, <2>2, <2>3 DEF Grown
  <2>5. read["log"] <= read'["log"] /\ read["journal"] <= read'["journal"]
    BY <2>1, <2>2, <2>3
  <2> QED
    BY <2>1, <2>4, <2>5 DEF Grown, Keeps
<1> QED
  BY <1>1, <1>2

\* However calls fail, processes die between two of the three writes of an
\* append and the power fails, in any order, the two files pass the audit of
\* _read_combined_unlocked unless a line was cut or one that a later call had
\* acted on was lost: no interruption locks reconcile_transaction out.
THEOREM StoreAlwaysReconcilable == Spec => []StoreReconcilable
<1> DEFINE Inv == lost = {} => StoreInv
<1>1. Init => Inv
  BY StoreInitial
<1>2. Inv /\ [Next]_vars => Inv'
  BY StoreKept, LostStays
<1>3. Inv => StoreReconcilable
  BY AuditHolds, ConstantsAssumption DEF StoreInv, TypeInv, StoreReconcilable
<1> QED
  BY <1>1, <1>2, <1>3, PTL DEF Spec

-----------------------------------------------------------------------------
(* The answers *)

\* No line that is written is of a transaction whose append was refused.
LEMMA PutRefusals ==
  ASSUME StoreInv, NotAppliedIsTrue, NEW s \in Stores, pc[s] \in Writing, Put(s), notApplied' = notApplied
  PROVE  NotAppliedIsTrue'
<1>0. Types /\ Work(s) /\ job[s].tx \in Txs /\ job[s].envelope \in Envelope
  BY JobHeld DEF StoreInv, TypeInv, Locked
<1>1. PICK tx \in Txs, e \in Envelope : tx = job[s].tx /\ e = job[s].envelope
  BY <1>0
<1>2. ASSUME NEW kind \in {"PREPARE", "COMMIT"}, journal' = Append(journal, MakeEntry(kind, tx, e)),
             kind = "PREPARE" => tx \notin notApplied
      PROVE  NotAppliedIsTrue'
  <2>1. PICK x \in Entry : x = MakeEntry(kind, tx, e) /\ x.kind = kind /\ x.tx = tx
    BY <1>0, EntryTyped, MadeEntry
  <2>2. /\ Len(journal') = Len(journal) + 1 /\ journal'[Len(journal) + 1] = x
        /\ \A k \in 1 .. Len(journal) : journal'[k] = journal[k]
    BY <1>0, <1>2, <2>1, SeqGrows DEF Types
  <2>3. Len(journal) \in Nat
    BY <1>0 DEF Types
  <2> SUFFICES ASSUME NEW t \in notApplied, NEW k \in 1 .. Len(journal'),
                      journal'[k].kind = "PREPARE", journal'[k].tx = t
               PROVE  FALSE
    BY DEF NotAppliedIsTrue, Prepared
  <2>4. CASE k \in 1 .. Len(journal)
    BY <2>2, <2>4 DEF NotAppliedIsTrue, Prepared
  <2>5. CASE k = Len(journal) + 1
    BY <1>2, <2>1, <2>2, <2>5
  <2> QED
    BY <2>2, <2>3, <2>4, <2>5
<1>3. CASE pc[s] = "prepare"
  <2>1. journal' = Append(journal, MakeEntry("PREPARE", tx, e)) /\ tx \notin notApplied
    BY <1>0, <1>1, <1>3 DEF Put, Work
  <2> QED
    BY <1>2, <2>1
<1>4. CASE pc[s] = "event"
  <2>1. journal' = journal
    BY <1>4 DEF Put
  <2> QED
    BY <2>1 DEF NotAppliedIsTrue, Prepared
<1>5. CASE pc[s] = "commit"
  <2>1. journal' = Append(journal, MakeEntry("COMMIT", tx, e)) /\ "COMMIT" # "PREPARE"
    BY <1>1, <1>5 DEF Put
  <2> QED
    BY <1>2, <2>1
<1> QED
  BY <1>3, <1>4, <1>5 DEF Writing

\* A refusal stays true in every step.
LEMMA RefusalsKept ==
  ASSUME StoreInv, NotAppliedIsTrue, [Next]_vars, lost' = {}
  PROVE  NotAppliedIsTrue'
<1>1. ASSUME UNCHANGED journal, notApplied' \subseteq notApplied PROVE NotAppliedIsTrue'
  BY <1>1 DEF NotAppliedIsTrue, Prepared
<1>2. CASE UNCHANGED vars
  BY <1>1, <1>2 DEF vars, files, history
<1>3. CASE PowerLoss
  <2>1. PICK m \in Nat : m <= Len(journal) /\ journal' = SubSeq(journal, 1, m)
    BY <1>3, PowerTakes
  <2>2. journal \in Seq(Entry) /\ Len(journal) \in Nat
    BY DEF StoreInv, TypeInv, Types
  <2>3. Len(journal') = m /\ \A k \in 1 .. m : k \in 1 .. Len(journal) /\ journal'[k] = journal[k]
    BY <2>1, <2>2, SubSeqFirst
  <2>4. notApplied' = notApplied
    BY <1>3 DEF PowerLoss, history
  <2> QED
    BY <2>3, <2>4 DEF NotAppliedIsTrue, Prepared
<1>4. ASSUME NEW s \in Stores, WritePrepare(s) \/ WriteEvent(s) \/ WriteCommit(s)
      PROVE  NotAppliedIsTrue'
  BY <1>4, WriteStep, PutRefusals
<1>5. ASSUME NEW s \in Stores,
             \/ Open(s) \/ CreateJournal(s) \/ SyncExisting(s) \/ Postcheck(s)
             \/ sign_checkpoint(s) \/ verify_signed_dispatch(s)
      PROVE  NotAppliedIsTrue'
  BY <1>1, <1>5 DEF Open, CreateJournal, SyncExisting, Postcheck, sign_checkpoint,
                    verify_signed_dispatch, files, history
<1>6. ASSUME NEW s \in Stores, NEW tx \in Txs, reconcile_transaction(s, tx)
      PROVE  NotAppliedIsTrue'
  BY <1>1, <1>6 DEF reconcile_transaction, files, history
<1>7. ASSUME NEW s \in Stores, NEW tx \in Txs, NEW b \in Bodies, NEW n \in 0 .. Len(log),
              append(s, tx, b, n)
      PROVE  NotAppliedIsTrue'
  BY <1>1, <1>7 DEF append, files
<1>8. ASSUME NEW s \in Stores, Touches(s), notApplied' = notApplied PROVE NotAppliedIsTrue'
  <2>1. CASE UNCHANGED <<log, journal>>
    BY <1>1, <1>8, <2>1
  <2>2. CASE pc[s] \in Writing /\ Put(s)
    BY <1>8, <2>2, PutRefusals
  <2> QED
    BY <1>8, <2>1, <2>2 DEF Touches
<1>9. ASSUME NEW s \in Stores, Crash(s) PROVE NotAppliedIsTrue'
  <2>1. Touches(s) /\ notApplied' = notApplied
    BY <1>9, FaultStep DEF Crash, history
  <2> QED
    BY <1>8, <2>1
<1>10. ASSUME NEW s \in Stores, IOFails(s) PROVE NotAppliedIsTrue'
  <2>1. CASE notApplied' = notApplied
    BY <1>8, <1>10, <2>1, FaultStep
  <2>2. CASE notApplied' # notApplied
    <3>1. PICK how \in {"nothing"} \union IF pc[s] \in Writing THEN {"part", "line"} ELSE {} :
             Leaves(s, how) /\ ProvenNotApplied(s, how) /\ notApplied' = notApplied \union {job[s].tx}
      BY <1>10, <2>2 DEF IOFails
    <3>2. pc[s] = "prepare" /\ journal' = journal
      BY <3>1, LeavesTouch DEF ProvenNotApplied
    <3>3. ~ Prepared(job[s].tx)
      BY <3>2 DEF StoreInv, Work
    <3> QED
      BY <3>1, <3>2, <3>3 DEF NotAppliedIsTrue, Prepared
  <2> QED
    BY <2>1, <2>2
<1> QED
  BY <1>2, <1>3, <1>4, <1>5, <1>6, <1>7, <1>9, <1>10 DEF Next, Progress

\* What was read from the files and is kept by whoever read it.
ReadInv ==
    /\ Len(checkpoint.entries) = 2 * Len(checkpoint.events)
    /\ Len(checkpoint.events) <= read["log"] /\ Len(checkpoint.entries) <= read["journal"]
    /\ \A k \in 1..Len(checkpoint.events) : checkpoint.events[k] = log[k]
    /\ \A k \in 1..Len(checkpoint.entries) : checkpoint.entries[k] = journal[k]
DispatchInv ==
    \A h \in dispatched : \E k \in 1..read["journal"] :
         journal[k].kind = "COMMIT" /\ event_hash(journal[k].envelope) = h

\* A checkpoint stays a prefix of files that keep what was acted on.
LEMMA CheckpointKept ==
  ASSUME StoreInv, StoreInv', Keeps, ReadInv, checkpoint' = checkpoint
  PROVE  ReadInv'
<1>0. /\ Len(checkpoint.events) \in Nat /\ Len(checkpoint.entries) \in Nat
      /\ read["log"] \in Nat /\ read["journal"] \in Nat /\ read'["log"] \in Nat /\ read'["journal"] \in Nat
  BY DEF StoreInv, TypeInv, Files
<1>1. \A k \in 1 .. Len(checkpoint.events) : k \in 1 .. read["log"]
  BY <1>0 DEF ReadInv
<1>2. \A k \in 1 .. Len(checkpoint.entries) : k \in 1 .. read["journal"]
  BY <1>0 DEF ReadInv
<1>3. Len(checkpoint.events) <= read'["log"] /\ Len(checkpoint.entries) <= read'["journal"]
  BY <1>0 DEF ReadInv, Keeps
<1> QED
  BY <1>1, <1>2, <1>3 DEF ReadInv, Keeps

\* An accepted dispatch stays committed.
LEMMA DispatchKept ==
  ASSUME StoreInv, StoreInv', Keeps, DispatchInv, dispatched' = dispatched
  PROVE  DispatchInv'
<1>0. read["journal"] \in Nat /\ read'["journal"] \in Nat
  BY DEF StoreInv, TypeInv, Files
<1>1. \A k \in 1 .. read["journal"] : k \in 1 .. read'["journal"] /\ journal'[k] = journal[k]
  BY <1>0 DEF Keeps
<1> QED
  BY <1>1 DEF DispatchInv

\* A checkpoint is signed of files with nothing unresolved.
LEMMA CheckpointSigned ==
  ASSUME StoreInv, NEW s \in Stores, sign_checkpoint(s)
  PROVE  ReadInv'
<1>0. Len(log) \in Nat /\ Len(journal) \in Nat
  BY DEF StoreInv, TypeInv, Types
<1>1. Len(journal) = 2 * Len(log)
  BY Even DEF sign_checkpoint, Readable, Clean
<1>2. checkpoint' = [events |-> log, entries |-> journal] /\ log' = log /\ journal' = journal
  BY DEF sign_checkpoint, files
<1>3. checkpoint'.events = log /\ checkpoint'.entries = journal
  BY <1>2
<1>4. read'["log"] = Len(log) /\ read'["journal"] = Len(journal)
  BY LinesAre DEF StoreInv, TypeInv, sign_checkpoint, Relied
<1> QED
  BY <1>0, <1>1, <1>2, <1>3, <1>4 DEF ReadInv

\* The head of a chain with nothing unresolved is a committed event.
LEMMA DispatchAccepted ==
  ASSUME StoreInv, DispatchInv, NEW s \in Stores, verify_signed_dispatch(s)
  PROVE  DispatchInv'
<1>0. Len(log) \in Nat /\ Len(journal) \in Nat /\ log \in Seq(Envelope) /\ Paired
  BY DEF StoreInv, TypeInv, Types, FilesInv
<1>1. Len(journal) = 2 * Len(log)
  BY Even DEF verify_signed_dispatch, Readable, Clean
<1>2. dispatched' = dispatched \union {HeadOf(log)} /\ journal' = journal /\ log # <<>>
  BY DEF verify_signed_dispatch, files
<1>3. PICK n \in Pos : n = Len(log)
  BY <1>0, <1>2 DEF Pos
<1>4. 2 * n <= Len(journal) /\ 2 * n - 1 <= Len(journal) /\ 2 * n \in 1 .. Len(journal)
  BY <1>0, <1>1, <1>3 DEF Pos
<1>5. CommitLine(n) /\ PrepareLine(n)
  BY <1>0, <1>4 DEF Paired
<1>6. journal[2 * n].kind = "COMMIT" /\ journal[2 * n].envelope = log[n]
  BY <1>3, <1>5 DEF CommitLine, PrepareLine, Pos
<1>7. HeadOf(log) = event_hash(log[n])
  BY <1>3 DEF HeadOf, HeadAt, Pos
<1>8. read'["journal"] = Len(journal) /\ read["journal"] \in Nat /\ read["journal"] <= Len(journal)
  BY LinesAre DEF StoreInv, TypeInv, TailInv, Files, verify_signed_dispatch, Relied
<1>9. \A k \in 1 .. read["journal"] : k \in 1 .. read'["journal"]
  BY <1>0, <1>8
<1> QED
  BY <1>2, <1>4, <1>6, <1>7, <1>8, <1>9 DEF DispatchInv

\* Only sign_checkpoint and verify_signed_dispatch record an answer.
LEMMA CheckpointUntouched ==
  ASSUME [Next]_vars
  PROVE  /\ checkpoint' = checkpoint \/ \E s \in Stores : sign_checkpoint(s)
         /\ dispatched' = dispatched \/ \E s \in Stores : verify_signed_dispatch(s)
<1>1. CASE UNCHANGED vars
  BY <1>1 DEF vars, history
<1>2. CASE PowerLoss
  BY <1>2 DEF PowerLoss, history
<1>3. ASSUME NEW s \in Stores,
             \/ Open(s) \/ Progress(s) \/ IOFails(s) \/ Crash(s)
             \/ \E tx \in Txs : reconcile_transaction(s, tx)
             \/ \E tx \in Txs, b \in Bodies, n \in 0..Len(log) : append(s, tx, b, n)
      PROVE  checkpoint' = checkpoint /\ dispatched' = dispatched
  BY <1>3 DEF Open, Progress, CreateJournal, WritePrepare, WriteEvent, WriteCommit, SyncExisting,
              Postcheck, IOFails, Crash, reconcile_transaction, append, history
<1>4. ASSUME NEW s \in Stores, sign_checkpoint(s) PROVE dispatched' = dispatched
  BY <1>4 DEF sign_checkpoint
<1>5. ASSUME NEW s \in Stores, verify_signed_dispatch(s) PROVE checkpoint' = checkpoint
  BY <1>5 DEF verify_signed_dispatch
<1> QED
  BY <1>1, <1>2, <1>3, <1>4, <1>5 DEF Next

\* Two sequences of one length with the same elements.
LEMMA SameSeq ==
  ASSUME NEW S, NEW p \in Seq(S), NEW q \in Seq(S), Len(p) <= Len(q),
         \A k \in 1 .. Len(p) : p[k] = q[k]
  PROVE  /\ p = SubSeq(q, 1, Len(p))
         /\ Len(p) = Len(q) => p = q
  OBVIOUS

\* The invariant of the answers gives ReadsStay.
LEMMA ReadsAgree ==
  ASSUME StoreInv, ReadInv, DispatchInv
  PROVE  ReadsStay
<1>0. /\ checkpoint.events \in Seq(Envelope) /\ checkpoint.entries \in Seq(Entry)
      /\ log \in Seq(Envelope) /\ journal \in Seq(Entry)
  BY DEF StoreInv, TypeInv, Types
<1>r. /\ Len(checkpoint.events) <= Len(log) /\ Len(checkpoint.entries) <= Len(journal)
      /\ \A k \in 1 .. read["journal"] : k \in 1 .. Len(journal)
  <2>1. /\ Len(checkpoint.events) \in Nat /\ Len(checkpoint.entries) \in Nat
        /\ Len(log) \in Nat /\ Len(journal) \in Nat /\ read["log"] \in Nat /\ read["journal"] \in Nat
        /\ read["log"] <= Len(log) /\ read["journal"] <= Len(journal)
    BY <1>0 DEF StoreInv, TypeInv, TailInv, Files
  <2> QED
    BY <2>1 DEF ReadInv
<1>1. /\ checkpoint.events = SubSeq(log, 1, Len(checkpoint.events))
      /\ Len(checkpoint.events) = Len(log) => checkpoint.events = log
  BY <1>0, <1>r, SameSeq DEF ReadInv
<1>2. /\ checkpoint.entries = SubSeq(journal, 1, Len(checkpoint.entries))
      /\ Len(checkpoint.entries) = Len(journal) => checkpoint.entries = journal
  BY <1>0, <1>r, SameSeq DEF ReadInv
<1>3. ASSUME Clean, Len(checkpoint.events) = Len(log) PROVE Pinned(checkpoint)
  <2>1. Len(journal) = 2 * Len(log)
    BY <1>3, Even DEF Clean
  <2>2. Len(checkpoint.entries) = Len(journal)
    BY <1>3, <2>1 DEF ReadInv
  <2> QED
    BY <1>1, <1>2, <1>3, <2>2 DEF Pinned
<1> QED
  BY <1>r, <1>1, <1>2, <1>3 DEF ReadsStay, ReadInv, DispatchInv

\* What a caller was told stays true: after RetryableAppendNotApplied nothing of
\* the transaction is ever on file until it is appended again, a signed
\* checkpoint is a prefix of both files, and a dispatch that
\* verify_signed_dispatch accepted is a committed event, whatever fails, until a
\* power loss takes an unsynced line that was acted on.
THEOREM AnswersTrue == Spec => []AnswersStayTrue
<1> DEFINE Told == StoreInv /\ NotAppliedIsTrue /\ ReadInv /\ DispatchInv
           Inv == lost = {} => Told
<1>1. Init => Inv
  <2> SUFFICES ASSUME Init PROVE Told
    OBVIOUS
  <2>1. StoreInv
    BY StoreInitial
  <2>2. notApplied = {} /\ dispatched = {} /\ checkpoint = [events |-> <<>>, entries |-> <<>>]
        /\ log = <<>> /\ journal = <<>> /\ read = [f \in Files |-> 0]
    BY DEF Init
  <2>3. Len(<<>>) = 0 /\ read["log"] = 0 /\ read["journal"] = 0
    BY <2>2 DEF Files
  <2>4. ReadInv
    BY <2>2, <2>3 DEF ReadInv
  <2> QED
    BY <2>1, <2>2, <2>4 DEF NotAppliedIsTrue, Prepared, DispatchInv
<1>2. Inv /\ [Next]_vars => Inv'
  <2> SUFFICES ASSUME Inv, [Next]_vars, lost' = {} PROVE Told'
    OBVIOUS
  <2>0. Told
    BY LostStays
  <2>1. StoreInv' /\ Keeps
    BY <2>0, StoreKept
  <2>2. NotAppliedIsTrue'
    BY <2>0, RefusalsKept
  <2>3. ReadInv'
    BY <2>0, <2>1, CheckpointKept, CheckpointSigned, CheckpointUntouched
  <2>4. DispatchInv'
    BY <2>0, <2>1, DispatchKept, DispatchAccepted, CheckpointUntouched
  <2> QED
    BY <2>1, <2>2, <2>3, <2>4
<1>3. Inv => AnswersStayTrue
  BY ReadsAgree DEF AnswersStayTrue
<1> QED
  BY <1>1, <1>2, <1>3, PTL DEF Spec

-----------------------------------------------------------------------------
(* The refinement *)

\* The transaction of the k-th event is that of the k-th PREPARE.
LEMMA TxIs ==
  ASSUME StoreInv, NEW k \in 1 .. Len(log)
  PROVE  /\ k \in Pos /\ 2 * k - 1 \in 1 .. Len(journal)
         /\ TxOf(k) = journal[2 * k - 1].tx /\ TxOf(k) \in Txs
<1>0. Len(log) \in Nat /\ Len(journal) \in Nat /\ Lengths /\ journal \in Seq(Entry)
  BY DEF StoreInv, TypeInv, Types, FilesInv, Paired
<1>1. k \in Pos /\ 2 * k - 1 \in 1 .. Len(journal) /\ 2 * k - 1 <= Len(journal)
  BY <1>0 DEF Lengths, Pos
<1> DEFINE n == (Len(journal) + 1) \div 2
<1>2. n \in Nat /\ k <= n
  BY <1>0, <1>1, Halves
<1>3. Prepares(journal) = [i \in 1 .. n |-> journal[2 * i - 1]]
  BY DEF Prepares
<1> HIDE DEF n
<1>4. Len(Prepares(journal)) = n /\ k \in 1 .. n
  BY <1>1, <1>2, <1>3 DEF Pos
<1>5. Prepares(journal)[k] = journal[2 * k - 1]
  BY <1>3, <1>4
<1>6. journal[2 * k - 1] \in Entry
  BY <1>0, <1>1
<1>7. journal[2 * k - 1].tx \in Txs
  BY <1>6 DEF Entry
<1> QED
  BY <1>1, <1>2, <1>4, <1>5, <1>7 DEF TxOf

\* The same of the next state.
LEMMA TxWillBe ==
  ASSUME NEW CONSTANT k
  PROVE  (StoreInv /\ k \in 1 .. Len(log) =>
            /\ k \in Pos /\ 2 * k - 1 \in 1 .. Len(journal)
            /\ TxOf(k) = journal[2 * k - 1].tx /\ TxOf(k) \in Txs)'
<1>1. StoreInv /\ k \in 1 .. Len(log) =>
        /\ k \in Pos /\ 2 * k - 1 \in 1 .. Len(journal)
        /\ TxOf(k) = journal[2 * k - 1].tx /\ TxOf(k) \in Txs
  BY TxIs
<1> QED
  BY <1>1, PTL

\* The log of ExactlyOnceLog.
Entries == [k \in 1..Len(log) |-> TxOf(k)]

\* Lines of the journal do not change the abstract log.
LEMMA EntriesStay ==
  ASSUME StoreInv, StoreInv', Grown, log' = log
  PROVE  Entries' = Entries
<1>1. ASSUME NEW k \in 1 .. Len(log) PROVE TxOf(k)' = TxOf(k)
  <2>1. TxOf(k) = journal[2 * k - 1].tx /\ 2 * k - 1 \in 1 .. Len(journal)
    BY TxIs
  <2>2. TxOf(k)' = journal'[2 * k - 1].tx
    BY TxWillBe
  <2> QED
    BY <2>1, <2>2 DEF Grown
<1> QED
  BY <1>1 DEF Entries

\* An event line is an Apply of a transaction that was not applied.
LEMMA EntriesGrow ==
  ASSUME StoreInv, StoreInv', NEW s \in Stores, pc[s] = "event", Put(s), UNCHANGED <<acked, lost>>
  PROVE  \E tx \in Txs : ExactlyOnce!Apply(tx)
<1>0. /\ Len(log) \in Nat /\ Len(journal) \in Nat /\ Paired /\ log \in Seq(Envelope)
      /\ pc[s] \in Writing /\ pc[s] \in Locked /\ Work(s)
  BY DEF StoreInv, TypeInv, Types, FilesInv, Writing, Locked
<1>1. job[s].tx \in Txs /\ job[s].envelope \in Envelope
  BY <1>0, JobHeld
<1>2. PICK tx \in Txs : tx = job[s].tx
  BY <1>1
<1>3. log' = Append(log, job[s].envelope) /\ journal' = journal /\ Len(journal) = 2 * Len(log) + 1
  BY <1>0, PutEffect
<1>4. Len(log') = Len(log) + 1
  BY <1>0, <1>1, <1>3, SeqGrows
<1>5. PICK n \in Pos : n = Len(log) + 1 /\ 2 * n - 1 = Len(journal)
  BY <1>0, <1>3 DEF Pos
<1>6. journal[2 * n - 1].tx = tx
  BY <1>0, <1>2, <1>5 DEF Work, Pending
<1>7. ASSUME NEW k \in 1 .. Len(log) PROVE TxOf(k)' = TxOf(k) /\ TxOf(k) # tx /\ TxOf(k) \in Txs
  <2>1. k \in Pos /\ TxOf(k) = journal[2 * k - 1].tx /\ TxOf(k) \in Txs
    BY TxIs
  <2>2. k \in 1 .. Len(log') /\ k < n
    BY <1>0, <1>4, <1>5
  <2>3. TxOf(k)' = journal'[2 * k - 1].tx
    BY <2>2, TxWillBe
  <2>4. PrepareLine(n)
    BY <1>0, <1>5 DEF Paired
  <2> QED
    BY <1>3, <1>6, <2>1, <2>2, <2>3, <2>4 DEF PrepareLine
<1>8. TxOf(n)' = tx
  <2>1. n \in 1 .. Len(log')
    BY <1>0, <1>4, <1>5 DEF Pos
  <2> QED
    BY <1>3, <1>6, <2>1, TxWillBe
<1>9. Entries' = Append(Entries, tx)
  <2>1. Entries \in Seq(Txs) /\ Len(Entries) = Len(log)
    BY <1>0, <1>7 DEF Entries
  <2>2. /\ Append(Entries, tx) \in Seq(Txs) /\ Len(Append(Entries, tx)) = Len(log) + 1
        /\ \A k \in 1 .. Len(log) : Append(Entries, tx)[k] = Entries[k]
        /\ Append(Entries, tx)[n] = tx
    BY <1>5, <2>1, SeqGrows
  <2>3. /\ \A k \in 1 .. Len(log) + 1 : TxOf(k)' \in Txs
        /\ \A k \in 1 .. Len(log) : TxOf(k)' = Entries[k]
    BY <1>0, <1>5, <1>7, <1>8 DEF Entries
  <2>4. Entries' = [k \in 1 .. Len(log) + 1 |-> TxOf(k)']
    BY <1>4 DEF Entries
  <2>5. Entries' \in Seq(Txs) /\ Len(Entries') = Len(log) + 1
    BY <1>0, <2>3, <2>4
  <2>6. ASSUME NEW k \in 1 .. Len(log) + 1 PROVE Entries'[k] = Append(Entries, tx)[k]
    <3>1. CASE k = n
      BY <1>8, <2>2, <2>4, <3>1
    <3>2. CASE k \in 1 .. Len(log)
      BY <2>2, <2>3, <2>4, <3>2
    <3>3. k = n \/ k \in 1 .. Len(log)
      BY <1>0, <1>5
    <3> HIDE DEF Entries
    <3> QED
      BY <3>1, <3>2, <3>3
  <2>7. Len(Entries') <= Len(Append(Entries, tx)) /\ Len(Entries') = Len(Append(Entries, tx))
    BY <1>0, <2>2, <2>5
  <2> HIDE DEF Entries
  <2> QED
    BY <2>2, <2>5, <2>6, <2>7, SameSeq
<1>10. tx \notin ExactlyOnce!Applied(Entries)
  <2>1. Len(Entries) = Len(log) /\ \A k \in 1 .. Len(log) : Entries[k] # tx
    BY <1>0, <1>7 DEF Entries
  <2> QED
    BY <2>1 DEF ExactlyOnce!Applied
<1> QED
  BY <1>9, <1>10 DEF ExactlyOnce!Apply, Entries

\* A committed transaction is in the abstract log.
LEMMA CommittedApplied ==
  ASSUME StoreInv, NEW tx \in Txs, Committed(tx)
  PROVE  tx \in ExactlyOnce!Applied(Entries)
<1>0. Types /\ Paired /\ Lengths /\ Len(log) \in Nat /\ Len(journal) \in Nat
  BY DEF StoreInv, TypeInv, FilesInv, Paired, Types
<1>1. PICK k \in Pos : 2 * k <= Len(journal) /\ journal[2 * k - 1].tx = tx
  BY <1>0, CommittedIs
<1>2. k \in 1 .. Len(log)
  BY <1>0, <1>1 DEF Lengths, Pos
<1>3. TxOf(k) = tx
  BY <1>1, <1>2, TxIs
<1>4. Len(Entries) = Len(log) /\ Entries[k] = tx
  BY <1>0, <1>2, <1>3 DEF Entries
<1> QED
  BY <1>2, <1>4 DEF ExactlyOnce!Applied

\* Whatever a step leaves in the files is an Apply or nothing.
LEMMA TouchRefines ==
  ASSUME StoreInv, StoreInv', Grown, NEW s \in Stores, Touches(s), UNCHANGED <<acked, lost>>
  PROVE  (\E tx \in Txs : ExactlyOnce!Apply(tx)) \/ Entries' = Entries
<1>1. CASE pc[s] = "event" /\ Put(s)
  BY <1>1, EntriesGrow
<1>2. CASE UNCHANGED <<log, journal>>
  BY <1>2, EntriesStay
<1>3. CASE pc[s] \in {"prepare", "commit"} /\ Put(s)
  <2>1. log' = log
    BY <1>3, PutEffect DEF Writing
  <2> QED
    BY <2>1, EntriesStay
<1> QED
  BY <1>1, <1>2, <1>3 DEF Touches, Writing

\* A result is returned for a transaction that was applied.
LEMMA AckRefines ==
  ASSUME StoreInv, StoreInv', Grown, log' = log, NEW tx \in Txs, Committed(tx), acked' = acked \union {tx},
         lost' = lost
  PROVE  ExactlyOnce!Ack(tx)
<1>1. Entries' = Entries
  BY EntriesStay
<1>2. tx \in ExactlyOnce!Applied(Entries)
  BY CommittedApplied
<1> QED
  BY <1>1, <1>2 DEF ExactlyOnce!Ack, Entries

\* Every step but a power loss is a step of ExactlyOnceLog or changes nothing of it.
LEMMA StepRefines ==
  ASSUME StoreInv, [Next]_vars, ~ PowerLoss
  PROVE  ExactlyOnce!Next \/ UNCHANGED <<Entries, acked, lost>>
<1>0. StoreInv' /\ Grown /\ lost' = lost
  BY StoreGrows, RelianceGrows
<1>1. ASSUME UNCHANGED <<log, acked>> PROVE UNCHANGED <<Entries, acked, lost>>
  BY <1>0, <1>1, EntriesStay
<1>2. CASE UNCHANGED vars
  BY <1>1, <1>2 DEF vars, files, history
<1>4. ASSUME NEW s \in Stores, Touches(s), acked' = acked
      PROVE  ExactlyOnce!Next \/ UNCHANGED <<Entries, acked, lost>>
  BY <1>0, <1>4, TouchRefines DEF ExactlyOnce!Next
<1>5. ASSUME NEW s \in Stores, WritePrepare(s) \/ WriteEvent(s) \/ WriteCommit(s)
      PROVE  ExactlyOnce!Next \/ UNCHANGED <<Entries, acked, lost>>
  BY <1>4, <1>5, WriteStep DEF Touches
<1>6. ASSUME NEW s \in Stores, IOFails(s) \/ Crash(s)
      PROVE  ExactlyOnce!Next \/ UNCHANGED <<Entries, acked, lost>>
  BY <1>4, <1>6, FaultStep
<1>7. ASSUME NEW s \in Stores,
             \/ Open(s) \/ CreateJournal(s) \/ SyncExisting(s)
             \/ sign_checkpoint(s) \/ verify_signed_dispatch(s)
      PROVE  UNCHANGED <<Entries, acked, lost>>
  BY <1>1, <1>7 DEF Open, CreateJournal, SyncExisting, sign_checkpoint,
                    verify_signed_dispatch, files, history
<1>8. ASSUME NEW s \in Stores, NEW tx \in Txs, reconcile_transaction(s, tx)
      PROVE  UNCHANGED <<Entries, acked, lost>>
  BY <1>1, <1>8 DEF reconcile_transaction, files, history
<1>9. ASSUME NEW s \in Stores, Postcheck(s)
      PROVE  ExactlyOnce!Next \/ UNCHANGED <<Entries, acked, lost>>
  <2>1. log' = log /\ pc[s] = "postcheck" /\ pc[s] \in Locked
    BY <1>9 DEF Postcheck, files, Locked
  <2>2. job[s].tx \in Txs /\ Committed(job[s].tx)
    BY <2>1, JobHeld DEF StoreInv, Work
  <2>3. acked' = acked \/ acked' = acked \union {job[s].tx}
    BY <1>9 DEF Postcheck
  <2>4. CASE acked' = acked
    BY <1>1, <2>1, <2>4
  <2>5. CASE acked' = acked \union {job[s].tx}
    <3>1. ExactlyOnce!Ack(job[s].tx)
      BY <1>0, <2>1, <2>2, <2>5, AckRefines
    <3> QED
      BY <2>2, <3>1 DEF ExactlyOnce!Next
  <2> QED
    BY <2>3, <2>4, <2>5
<1>10. ASSUME NEW s \in Stores, NEW tx \in Txs, NEW b \in Bodies, NEW n \in 0 .. Len(log),
              append(s, tx, b, n)
       PROVE  ExactlyOnce!Next \/ UNCHANGED <<Entries, acked, lost>>
  <2>1. log' = log /\ Unresolved = {}
    BY <1>10 DEF append, files
  <2>2. CASE acked' = acked
    BY <1>1, <2>1, <2>2
  <2>3. CASE Prepared(tx) /\ acked' = acked \union {tx}
    <3>1. Committed(tx)
      BY <2>1, <2>3 DEF Unresolved
    <3>2. ExactlyOnce!Ack(tx)
      BY <1>0, <2>1, <2>3, <3>1, AckRefines
    <3> QED
      BY <3>2 DEF ExactlyOnce!Next
  <2> QED
    BY <1>10, <2>2, <2>3 DEF append
<1> QED
  BY <1>2, <1>5, <1>6, <1>7, <1>8, <1>9, <1>10 DEF Next, Progress

\* A transaction whose result was returned has its COMMIT among the lines that
\* were acted on.
AckInv == \A tx \in acked : tx \in Txs /\ \E k \in Pos : 2 * k <= read["journal"] /\ journal[2 * k - 1].tx = tx

\* Its event is in the abstract log.
LEMMA AckedApplied ==
  ASSUME StoreInv, AckInv
  PROVE  acked \subseteq ExactlyOnce!Applied(Entries)
<1> SUFFICES ASSUME NEW tx \in acked PROVE tx \in ExactlyOnce!Applied(Entries)
  OBVIOUS
<1>1. tx \in Txs
  BY DEF AckInv
<1>2. PICK k \in Pos : 2 * k <= read["journal"] /\ journal[2 * k - 1].tx = tx
  BY DEF AckInv
<1>3. read["journal"] \in Nat /\ Len(journal) \in Nat /\ read["journal"] <= Len(journal) /\ Types /\ Paired
  BY DEF StoreInv, TypeInv, TailInv, Types, Files, FilesInv
<1>4. 2 * k <= Len(journal)
  BY <1>2, <1>3 DEF Pos
<1>5. Committed(tx)
  BY <1>2, <1>3, <1>4, CommittedIs
<1> QED
  BY <1>1, <1>5, CommittedApplied

\* The same of the next state.
LEMMA AckedStaysApplied == (StoreInv /\ AckInv => acked \subseteq ExactlyOnce!Applied(Entries))'
<1>1. StoreInv /\ AckInv => acked \subseteq ExactlyOnce!Applied(Entries)
  BY AckedApplied
<1> QED
  BY <1>1, PTL

\* What is acknowledged was read, and what was read is kept.
LEMMA AcksRest ==
  ASSUME StoreInv, AckInv, [Next]_vars, lost' = {}
  PROVE  AckInv'
<1>0. StoreInv' /\ Keeps /\ read["journal"] \in Nat /\ read'["journal"] \in Nat
  BY StoreKept DEF StoreInv, TypeInv, Files
<1>1. ASSUME NEW k \in Pos, 2 * k <= read["journal"]
      PROVE  2 * k <= read'["journal"] /\ journal'[2 * k - 1] = journal[2 * k - 1]
  <2>1. 2 * k - 1 \in 1 .. read["journal"] /\ 2 * k <= read'["journal"]
    BY <1>0, <1>1 DEF Pos, Keeps
  <2> QED
    BY <1>0, <2>1 DEF Keeps
<1>2. ASSUME acked' = acked PROVE AckInv'
  BY <1>1, <1>2 DEF AckInv
<1>3. ASSUME NEW tx \in Txs, Committed(tx), acked' = acked \union {tx}, journal' = journal, read' = Lines
      PROVE  AckInv'
  <2>1. Types /\ Paired
    BY DEF StoreInv, TypeInv, FilesInv
  <2>2. PICK k \in Pos : 2 * k <= Len(journal) /\ journal[2 * k - 1].tx = tx
    BY <1>3, <2>1, CommittedIs
  <2>3. read'["journal"] = Len(journal)
    BY <1>3, <2>1, LinesAre
  <2> QED
    BY <1>1, <1>3, <2>2, <2>3 DEF AckInv
<1>4. CASE PowerLoss \/ UNCHANGED vars
  BY <1>2, <1>4 DEF PowerLoss, vars, history
<1>5. ASSUME NEW s \in Stores,
             \/ Open(s) \/ CreateJournal(s) \/ SyncExisting(s) \/ IOFails(s) \/ Crash(s)
             \/ WritePrepare(s) \/ WriteEvent(s) \/ WriteCommit(s)
             \/ sign_checkpoint(s) \/ verify_signed_dispatch(s)
      PROVE  AckInv'
  BY <1>2, <1>5 DEF Open, CreateJournal, SyncExisting, IOFails, Crash, WritePrepare, WriteEvent,
                    WriteCommit, sign_checkpoint, verify_signed_dispatch, history
<1>6. ASSUME NEW s \in Stores, NEW tx \in Txs, reconcile_transaction(s, tx)
      PROVE  AckInv'
  BY <1>2, <1>6 DEF reconcile_transaction, history
<1>7. ASSUME NEW s \in Stores, Postcheck(s)
      PROVE  AckInv'
  <2>1. journal' = journal /\ pc[s] = "postcheck" /\ pc[s] \in Locked
    BY <1>7 DEF Postcheck, files, Locked
  <2>2. job[s].tx \in Txs /\ Committed(job[s].tx)
    BY <2>1, JobHeld DEF StoreInv, Work
  <2>3. acked' = acked \/ (acked' = acked \union {job[s].tx} /\ read' = Lines)
    BY <1>7 DEF Postcheck, Relied
  <2> QED
    BY <1>2, <1>3, <2>1, <2>2, <2>3
<1>8. ASSUME NEW s \in Stores, NEW tx \in Txs, NEW b \in Bodies, NEW n \in 0 .. Len(log),
              append(s, tx, b, n)
      PROVE  AckInv'
  <2>1. journal' = journal /\ Unresolved = {} /\ read' = Lines
    BY <1>8 DEF append, files, Relied
  <2>2. acked' = acked \/ (Prepared(tx) /\ acked' = acked \union {tx})
    BY <1>8 DEF append
  <2>3. Prepared(tx) => Committed(tx)
    BY <2>1 DEF Unresolved
  <2> QED
    BY <1>2, <1>3, <2>1, <2>2, <2>3
<1> QED
  BY <1>4, <1>5, <1>6, <1>7, <1>8 DEF Next, Progress

\* A power loss takes events that nobody was told of.
LEMMA PowerRefines ==
  ASSUME StoreInv, AckInv, PowerLoss, [Next]_vars, lost = {}, lost' = {}
  PROVE  ExactlyOnce!Lose
<1>1. StoreInv' /\ AckInv'
  BY StoreKept, AcksRest
<1>2. acked' = acked
  BY DEF PowerLoss, history
<1>3. PICK n, m \in Nat :
           /\ n <= Len(log) /\ m <= Len(journal)
           /\ log' = SubSeq(log, 1, n) /\ journal' = SubSeq(journal, 1, m)
  BY PowerTakes
<1>4. log \in Seq(Envelope) /\ journal \in Seq(Entry) /\ Len(log) \in Nat
  BY DEF StoreInv, TypeInv, Types
<1>5. Len(log') = n /\ Len(journal') = m /\ \A k \in 1 .. m : journal'[k] = journal[k]
  BY <1>3, <1>4, SubSeqFirst
<1>6. ASSUME NEW k \in 1 .. n PROVE TxOf(k)' = TxOf(k)
  <2>1. k \in 1 .. Len(log) /\ k \in 1 .. Len(log')
    BY <1>3, <1>4, <1>5
  <2>2. TxOf(k) = journal[2 * k - 1].tx
    BY <2>1, TxIs
  <2>3. TxOf(k)' = journal'[2 * k - 1].tx /\ 2 * k - 1 \in 1 .. Len(journal')
    BY <1>1, <2>1, TxWillBe
  <2> QED
    BY <1>5, <2>2, <2>3
<1>7. Entries \in Seq(Txs) /\ Len(Entries) = Len(log) /\ \A k \in 1 .. Len(log) : Entries[k] = TxOf(k)
  <2>1. \A k \in 1 .. Len(log) : TxOf(k) \in Txs
    BY TxIs
  <2> QED
    BY <1>4, <2>1 DEF Entries
<1>8. Entries' = [k \in 1 .. n |-> TxOf(k)']
  BY <1>5 DEF Entries
<1>9. Entries' \in Seq(Txs) /\ Len(Entries') = n /\ \A k \in 1 .. n : Entries'[k] = Entries[k]
  <2>1. \A k \in 1 .. n : TxOf(k)' = Entries[k] /\ Entries[k] \in Txs
    BY <1>3, <1>4, <1>6, <1>7
  <2>2. Entries' = [k \in 1 .. n |-> Entries[k]]
    BY <1>8, <2>1
  <2> HIDE DEF Entries
  <2> QED
    BY <1>3, <2>1, <2>2
<1>10. Entries' = SubSeq(Entries, 1, n)
  <2>1. n <= Len(Entries)
    BY <1>3, <1>7
  <2> HIDE DEF Entries
  <2> QED
    BY <1>3, <1>7, <1>9, <2>1, SameSeq
<1>11. acked \subseteq ExactlyOnce!Applied(Entries')
  <2>1. acked' \subseteq ExactlyOnce!Applied(Entries)'
    BY <1>1, AckedStaysApplied
  <2> QED
    BY <1>2, <2>1 DEF ExactlyOnce!Applied
<1>12. n \in 0 .. Len(Entries)
  BY <1>3, <1>7
<1>13. UNCHANGED (lost # {})
  OBVIOUS
<1> QED
  BY <1>2, <1>10, <1>11, <1>12, <1>13 DEF ExactlyOnce!Lose, Entries

\* Every step of the store is a step of ExactlyOnceLog or changes nothing of it.
LEMMA StoreRefines ==
  ASSUME lost = {} => StoreInv /\ AckInv, [Next]_vars
  PROVE  ExactlyOnce!Next \/ UNCHANGED <<Entries, acked, lost>>
<1>1. CASE lost' # {}
  <2>1. (lost' # {}) = TRUE
    BY <1>1
  <2> QED
    BY <2>1 DEF ExactlyOnce!Next, ExactlyOnce!Forfeit
<1>2. CASE lost' = {}
  <2>1. lost = {} /\ StoreInv /\ AckInv
    BY <1>2, LostStays
  <2>2. CASE PowerLoss
    BY <1>2, <2>1, <2>2, PowerRefines DEF ExactlyOnce!Next
  <2>3. CASE ~ PowerLoss
    BY <2>1, <2>3, StepRefines
  <2> QED
    BY <2>2, <2>3
<1> QED
  BY <1>1, <1>2

\* The store implements ExactlyOnceLog: append and reconcile_transaction apply a
\* transaction at most once, return a result only for one that was applied, and
\* never lose it, whatever fails, until a power loss takes an unsynced line that
\* was acted on.
THEOREM StoreImplementsExactlyOnce == Spec => ImplementsExactlyOnce
<1> DEFINE Inv == lost = {} => StoreInv /\ AckInv
<1>1. Init => Inv
  BY StoreInitial DEF Init, AckInv
<1>2. Inv /\ [Next]_vars => Inv'
  BY StoreKept, AcksRest, LostStays
<1>3. Init => ExactlyOnce!Init
  <2> SUFFICES ASSUME Init PROVE ExactlyOnce!Init
    OBVIOUS
  <2>1. log = <<>> /\ acked = {} /\ lost = {}
    BY DEF Init
  <2>2. Len(log) = 0
    BY <2>1
  <2>3. [k \in 1 .. Len(log) |-> TxOf(k)] = <<>>
    BY <2>2
  <2>4. (lost # {}) = FALSE
    BY <2>1
  <2> QED
    BY <2>1, <2>3, <2>4 DEF ExactlyOnce!Init
<1>4. Inv /\ [Next]_vars => [ExactlyOnce!Next]_<<Entries, acked, lost # {}>>
  <2> SUFFICES ASSUME Inv, [Next]_vars
               PROVE  ExactlyOnce!Next \/ UNCHANGED <<Entries, acked, lost # {}>>
    OBVIOUS
  <2>1. ExactlyOnce!Next \/ UNCHANGED <<Entries, acked, lost>>
    BY StoreRefines
  <2>2. CASE ExactlyOnce!Next
    BY <2>2
  <2>3. CASE UNCHANGED <<Entries, acked, lost>>
    <3>1. (lost' # {}) = (lost # {})
      BY <2>3
    <3> QED
      BY <2>3, <3>1
  <2> QED
    BY <2>1, <2>2, <2>3
<1> QED
  BY <1>1, <1>2, <1>3, <1>4, PTL DEF Spec, ImplementsExactlyOnce, ExactlyOnce!Spec, Entries
=============================================================================
