---------------------------- MODULE SheetZipProofs ----------------------------
(***************************************************************************)
(* Theorems about SheetZip, for any number of workers, files and attempts  *)
(* and any sizes and limits: what the parts hold, what a late attempt may  *)
(* do, and that a ready ZIP is what was promised.                          *)
(*                                                                         *)
(* The inductive invariant ZipInv says of the checkpoint of the job, and   *)
(* of the one that the holder of the claim works on, that the parts of its *)
(* chain, in this order and with what is gathered, are the ZIP so far      *)
(* (Sound).  Names say which attempt made them, and an attempt that has    *)
(* not committed has no name in what the job, or a sweep, refers to        *)
(* (Apart): what late attempts write and delete is their own.              *)
(*                                                                         *)
(* The predicates take the values they are about as parameters, so that    *)
(* the lemmas about the parts of a step are about values alone.            *)
(***************************************************************************)
EXTENDS SheetZip, TLAPS, FiniteSetTheorems, SequenceTheorems, WellFoundedInduction

-----------------------------------------------------------------------------
(* What FlattenSeq of the community modules returns, for sequences of any length.  It is *)
(* defined by recursion on the length; the proofs take the first place where two such    *)
(* recursions would differ, which exists since the natural numbers are well founded.     *)

\* Every set of natural numbers that is not empty has a least one.
LEMMA LeastNumber ==
    ASSUME NEW T, T \subseteq Nat, T # {}
    PROVE  \E n \in T : \A m \in T : n <= m
  <1>1. PICK x \in T : \A y \in T : ~ (<<y, x>> \in OpToRel(<, Nat))
    BY NatLessThanWellFounded, WFMin
  <1>2. \A y \in T : ~ (y < x)
    BY <1>1 DEF OpToRel
  <1> QED BY <1>2

\* Induction, of sets of numbers.
LEMMA SetInduction ==
    ASSUME NEW S, 0 \in S, \A n \in Nat : n \in S => n + 1 \in S
    PROVE  Nat \subseteq S
  <1>1. SUFFICES ASSUME Nat \ S # {}
                 PROVE  FALSE
      OBVIOUS
  <1>2. PICK n \in Nat \ S : \A m \in Nat \ S : n <= m
      BY <1>1, LeastNumber
  <1>3. n - 1 \in Nat /\ n - 1 \in S
      BY <1>2
  <1> QED BY <1>2, <1>3

\* g[i] is the first i sequences of s, one behind the other.
Beginnings(s, n, g) == g = [i \in 1 .. n |-> IF i = 1 THEN s[i] ELSE g[i - 1] \o s[i]]

\* One place of them.
LEMMA BeginningsAt ==
    ASSUME NEW s, NEW n \in Nat, NEW g, Beginnings(s, n, g), NEW i \in 1 .. n
    PROVE  /\ i = 1 => g[i] = s[i]
           /\ i # 1 => g[i] = g[i - 1] \o s[i]
  <1>1. g[i] = IF i = 1 THEN s[i] ELSE g[i - 1] \o s[i]
    BY DEF Beginnings
  <1> QED BY <1>1

\* One more.
LEMMA BeginningsGrow ==
    ASSUME NEW s, NEW n \in Nat, NEW g, Beginnings(s, n, g)
    PROVE  \E h : Beginnings(s, n + 1, h)
  <1> DEFINE h == [i \in 1 .. n + 1 |-> IF i = n + 1 THEN (IF i = 1 THEN s[i] ELSE g[n] \o s[i]) ELSE g[i]]
  <1>1. ASSUME NEW i \in 1 .. n + 1
        PROVE  h[i] = IF i = 1 THEN s[i] ELSE h[i - 1] \o s[i]
    <2>1. CASE i = n + 1
      <3>1. CASE i = 1
        BY <2>1, <3>1
      <3>2. CASE i # 1
        <4>1. i - 1 = n /\ n \in 1 .. n + 1 /\ n # n + 1
          BY <2>1, <3>2
        <4>2. h[i - 1] = g[n]
          BY <4>1
        <4> QED BY <2>1, <3>2, <4>2
      <3> QED BY <3>1, <3>2
    <2>2. CASE i # n + 1
      <3>1. i \in 1 .. n
        BY <2>2
      <3>2. h[i] = g[i]
        BY <2>2
      <3>3. g[i] = IF i = 1 THEN s[i] ELSE g[i - 1] \o s[i]
        BY <3>1 DEF Beginnings
      <3>4. i # 1 => h[i - 1] = g[i - 1]
        BY <3>1
      <3> QED BY <3>2, <3>3, <3>4
    <2> QED BY <2>1, <2>2
  <1>2. h = [i \in 1 .. n + 1 |-> IF i = 1 THEN s[i] ELSE h[i - 1] \o s[i]]
    <2> HIDE DEF h
    <2>1. h = [i \in 1 .. n + 1 |-> h[i]]
      BY DEF h
    <2> QED BY <1>1, <2>1
  <1> QED BY <1>2 DEF Beginnings

\* There are some, for any length.
LEMMA BeginningsExist ==
    ASSUME NEW s, NEW n \in Nat
    PROVE  \E g : Beginnings(s, n, g)
  <1> DEFINE S == {m \in Nat : \E g : Beginnings(s, m, g)}
  <1>1. 0 \in S
    <2>1. Beginnings(s, 0, [i \in 1 .. 0 |-> 0])
      BY DEF Beginnings
    <2> QED BY <2>1
  <1>2. \A m \in Nat : m \in S => m + 1 \in S
    BY BeginningsGrow
  <1>3. Nat \subseteq S
    <2> HIDE DEF S
    <2> QED BY <1>1, <1>2, SetInduction
  <1> QED BY <1>3

\* They depend on the sequences up to that place only.
LEMMA BeginningsUnique ==
    ASSUME NEW s, NEW t, NEW n \in Nat, NEW m \in Nat, n <= m,
           \A i \in 1 .. n : s[i] = t[i],
           NEW g, Beginnings(s, n, g), NEW h, Beginnings(t, m, h)
    PROVE  \A i \in 1 .. n : g[i] = h[i]
  <1> DEFINE T == {i \in 1 .. n : g[i] # h[i]}
  <1>1. SUFFICES ASSUME T # {}
                 PROVE  FALSE
      OBVIOUS
  <1>2. PICK i \in T : \A j \in T : i <= j
    <2>1. T \subseteq Nat
      OBVIOUS
    <2> HIDE DEF T
    <2> QED BY <1>1, <2>1, LeastNumber
  <1>3. i \in 1 .. n /\ i \in 1 .. m /\ g[i] # h[i]
      BY <1>2
  <1>4. g[i] = IF i = 1 THEN s[i] ELSE g[i - 1] \o s[i]
      BY <1>3 DEF Beginnings
  <1>5. h[i] = IF i = 1 THEN t[i] ELSE h[i - 1] \o t[i]
      BY <1>3 DEF Beginnings
  <1>6. i # 1 => g[i - 1] = h[i - 1]
      BY <1>2, <1>3
  <1> QED BY <1>3, <1>4, <1>5, <1>6

\* FlattenSeq is the last of the beginnings.
LEMMA FlattenIs ==
    ASSUME NEW s, NEW n \in Nat \ {0}, Len(s) = n, NEW g, Beginnings(s, n, g)
    PROVE  FlattenSeq(s) = g[n]
  <1> DEFINE f == CHOOSE f : f = [i \in 1 .. Len(s) |-> IF i = 1 THEN s[i] ELSE f[i - 1] \o s[i]]
  <1>1. FlattenSeq(s) = f[n]
    <2>1. FlattenSeq(s) = IF Len(s) = 0 THEN s ELSE f[Len(s)]
      BY Zenon DEF FlattenSeq
    <2> QED BY <2>1
  <1>2. Beginnings(s, n, f)
    <2>1. g = [i \in 1 .. Len(s) |-> IF i = 1 THEN s[i] ELSE g[i - 1] \o s[i]]
      BY Zenon DEF Beginnings
    <2>2. f = [i \in 1 .. Len(s) |-> IF i = 1 THEN s[i] ELSE f[i - 1] \o s[i]]
      BY <2>1, Zenon
    <2> QED BY <2>2, Zenon DEF Beginnings
  <1>3. f[n] = g[n]
    <2> HIDE DEF f
    <2>1. \A i \in 1 .. n : f[i] = g[i]
      BY <1>2, BeginningsUnique
    <2> QED BY <2>1
  <1> QED BY <1>1, <1>3

\* Nothing gives nothing.
LEMMA FlattenEmpty ==
    ASSUME NEW s, Len(s) = 0
    PROVE  FlattenSeq(s) = s
    BY Zenon DEF FlattenSeq

\* One more sequence at the end.
THEOREM FlattenAppend ==
    ASSUME NEW E, NEW s \in Seq(Seq(E)), NEW x \in Seq(E)
    PROVE  FlattenSeq(Append(s, x)) = FlattenSeq(s) \o x
  <1>0. PICK t : t = Append(s, x)
      OBVIOUS
  <1>1. PICK n \in Nat : n = Len(s)
      OBVIOUS
  <1>2. PICK m \in Nat : m = n + 1
      OBVIOUS
  <1>3. Len(t) = m /\ t[m] = x /\ m # 0 /\ n <= m
      BY <1>0, <1>1, <1>2
  <1>4. \A i \in 1 .. n : s[i] = t[i]
      BY <1>0, <1>1
  <1>5. PICK h : Beginnings(t, m, h)
      BY BeginningsExist
  <1>6. FlattenSeq(t) = h[m]
      BY <1>3, <1>5, FlattenIs
  <1>7. /\ m = 1 => h[m] = x
        /\ m # 1 => h[m] = h[m - 1] \o x
    <2>1. m \in 1 .. m
      BY <1>3
    <2> QED BY <1>3, <1>5, <2>1, BeginningsAt
  <1>8. CASE n = 0
    <2>1. s = <<>>
      <3>1. Len(s) = 0
          BY <1>1, <1>8
      <3> QED BY <3>1, EmptySeq
    <2>2. FlattenSeq(s) = <<>>
        BY <2>1, FlattenEmpty
    <2>3. <<>> \o x = x
        OBVIOUS
    <2> QED BY <1>0, <1>2, <1>6, <1>7, <1>8, <2>2, <2>3
  <1>9. CASE n # 0
    <2>1. PICK g : Beginnings(s, n, g)
        BY BeginningsExist
    <2>2. FlattenSeq(s) = g[n]
        BY <1>1, <1>9, <2>1, FlattenIs
    <2>3. \A i \in 1 .. n : g[i] = h[i]
      <3>1. n <= m
        BY <1>2
      <3> QED
        BY <3>1, <1>4, <1>5, <2>1, BeginningsUnique
    <2>4. g[n] = h[n]
        BY <1>9, <2>3
    <2>5. m # 1 /\ m - 1 = n
        BY <1>2, <1>9
    <2> QED BY <1>0, <1>6, <1>7, <2>2, <2>4, <2>5
  <1> QED BY <1>8, <1>9

\* Sequences over a set give a sequence over that set.
THEOREM FlattenType ==
    ASSUME NEW E, NEW s \in Seq(Seq(E))
    PROVE  FlattenSeq(s) \in Seq(E)
  <1>0. PICK n \in Nat : n = Len(s)
      OBVIOUS
  <1>1. CASE n = 0
    <2>1. s = <<>>
      <3>1. Len(s) = 0
          BY <1>0, <1>1
      <3> QED BY <3>1, EmptySeq
    <2>2. FlattenSeq(s) = <<>>
        BY <2>1, FlattenEmpty
    <2> QED BY <2>2
  <1>2. CASE n # 0
    <2>1. PICK g : Beginnings(s, n, g)
        BY BeginningsExist
    <2> DEFINE S == {i \in Nat : i \in 1 .. n => g[i] \in Seq(E)}
    <2>2. 0 \in S
        OBVIOUS
    <2>3. ASSUME NEW i \in Nat, i \in S
          PROVE  i + 1 \in S
      <3>1. ASSUME i + 1 \in 1 .. n
            PROVE  g[i + 1] \in Seq(E)
        <4>0. PICK j \in 1 .. n : j = i + 1
            BY <3>1
        <4>1. /\ j = 1 => g[j] = s[j]
              /\ j # 1 => g[j] = g[j - 1] \o s[j]
            BY <2>1, BeginningsAt
        <4>2. s[j] \in Seq(E)
            BY <1>0
        <4>3. CASE j = 1
            BY <4>0, <4>1, <4>2, <4>3
        <4>4. CASE j # 1
          <5>1. j - 1 = i /\ g[i] \in Seq(E)
              BY <2>3, <4>0, <4>4
          <5>2. g[j] = g[i] \o s[j]
              BY <4>1, <4>4, <5>1
          <5>3. g[i] \o s[j] \in Seq(E)
              BY <4>2, <5>1
          <5> QED BY <4>0, <5>2, <5>3
        <4> QED BY <4>3, <4>4
      <3> QED BY <3>1
    <2>4. Nat \subseteq S
      <3> HIDE DEF S
      <3> QED BY <2>2, <2>3, SetInduction
    <2>5. g[n] \in Seq(E)
        BY <1>2, <2>4
    <2>6. FlattenSeq(s) = g[n]
        BY <1>0, <1>2, <2>1, FlattenIs
    <2> QED BY <2>5, <2>6
  <1> QED BY <1>1, <1>2

\* Sequences of their own.
LEMMA FlattenOne ==
    ASSUME NEW E, NEW x \in Seq(E)
    PROVE  FlattenSeq(<<x>>) = x
  <1>1. <<x>> = Append(<<>>, x) /\ <<>> \in Seq(Seq(E))
      OBVIOUS
  <1>2. FlattenSeq(<<x>>) = FlattenSeq(<<>>) \o x
      BY <1>1, FlattenAppend
  <1>3. FlattenSeq(<<>>) = <<>>
      BY FlattenEmpty
  <1>4. <<>> \o x = x
      OBVIOUS
  <1> QED BY <1>2, <1>3, <1>4

-----------------------------------------------------------------------------
(* Types *)

Manifests == [size : Sizes, partial : BOOLEAN]
Entries == [file : Files, offset : Nat]
Listings == [file : 0 .. N, offset : Nat]
Records ==
    {Header(f) : f \in Files} \cup {Data(f, n) : f \in Files, n \in Nat}
    \cup {Descriptor(f) : f \in Files} \cup {MissingList(files) : files \in SUBSET Files}
    \cup {Directory(entries) : entries \in Seq(Listings)}
Pieces == Seq(Records)
Chains == Seq(Names)
Done == 0 .. N
Checkpoints == [done : Done, open : BOOLEAN, read : Nat, start : Nat, written : Nat,
                chain : Chains, entries : Seq(Entries), missing : SUBSET Files]
Places == {"idle", "claimed", "loop", "chunk", "write", "compose", "commit",
           "end", "zip", "verify", "publish", "sweep", "giveup"}
Outcomes == {"building", "incomplete", "failed", "ready"}
States == {"building"} \cup Ended
Attempts == 0 .. MaxAttempts
WorkerRecords == [at : Places, attempt : Attempts, cp : Checkpoints, buf : Pieces,
                  first : BOOLEAN, outcome : Outcomes, created : SUBSET Names,
                  obsolete : SUBSET Names]
Leases == 0 .. StepLease
Patience == 0 .. Abandoned
Days == 0 .. ReadyTtl
JobRecords == [state : States, cp : Checkpoints, attempt : Attempts, lease : Leases,
               patience : Patience, left : Days, zip : Names \cup {<<>>}, cleaned : BOOLEAN]
Stores == UNION {[names -> Pieces] : names \in SUBSET Names}

Typed ==
    /\ manifest \in Manifests /\ sources \subseteq Files
    /\ job \in JobRecords /\ workers \in [Workers -> WorkerRecords]
    /\ attempts \in Attempts /\ store \in Stores /\ sweeping \in BOOLEAN

-----------------------------------------------------------------------------
(* The ZIP so far *)

\* Files that are in the ZIP, and the first n chunks of a file with its header.
FilesOf(entries) == [i \in DOMAIN entries |-> entries[i].file]
Begun(f, n) == <<Header(f)>> \o [k \in 1 .. n |-> Data(f, k)]
WholeFile(m, f) == Begun(f, m.size[f]) \o <<Descriptor(f)>>
WholeFiles(m, files) == FlattenSeq([i \in DOMAIN files |-> WholeFile(m, files[i])])

\* What the ZIP holds at a checkpoint, up to its end records.
Opened(cp) == IF cp.open THEN Begun(cp.done + 1, cp.read) ELSE <<>>
Progress(m, cp) == WholeFiles(m, FilesOf(cp.entries)) \o Opened(cp)
EndOf(m, cp) ==
    IF m.partial /\ cp.missing # {}
    THEN <<MissingList(cp.missing), Directory(Append(cp.entries, [file |-> 0, offset |-> cp.written]))>>
    ELSE <<Directory(cp.entries)>>

\* What the objects of these names hold, one behind the other.
ContentIn(st, names) == FlattenSeq([i \in DOMAIN names |-> st[names[i]]])
StoredIn(st, names) == \A i \in DOMAIN names : names[i] \in DOMAIN st

\* The entries are those of the files that are done and not missing, in order,
\* each at the place of its header.
Listed(m, cp) ==
    /\ \A i \in DOMAIN cp.entries :
         /\ cp.entries[i].file <= cp.done
         /\ cp.entries[i].file \notin cp.missing
         /\ cp.entries[i].offset < Len(Progress(m, cp))
         /\ Progress(m, cp)[cp.entries[i].offset + 1] = Header(cp.entries[i].file)
    /\ \A i, k \in DOMAIN cp.entries : i < k => cp.entries[i].file < cp.entries[k].file
    /\ \A f \in Files : f <= cp.done /\ f \notin cp.missing =>
         \E i \in DOMAIN cp.entries : cp.entries[i].file = f
    /\ \A f \in cp.missing : f <= cp.done
    /\ cp.missing # {} => m.partial
    /\ cp.open => /\ cp.start < Len(Progress(m, cp))
                  /\ Progress(m, cp)[cp.start + 1] = Header(cp.done + 1)

\* The parts of the chain and what is gathered behind them are the ZIP so far.
Sound(m, st, cp, buf) ==
    /\ StoredIn(st, cp.chain)
    /\ Len(ContentIn(st, cp.chain)) = cp.written
    /\ ContentIn(st, cp.chain) \o buf = Progress(m, cp)
    /\ Listed(m, cp)

\* An open file is one of the manifest; nothing of a closed one is read.
Bounded(cp) == IF cp.open THEN cp.done < N ELSE cp.read = 0

-----------------------------------------------------------------------------
(* Workers *)

\* In a step that has not committed.
Working(me) == me.at \notin {"idle", "sweep", "giveup"}
Holding(j, me) == j.state = "building" /\ Working(me) /\ me.attempt = j.attempt

Kinds == {"part", "composite"}
EndName(me) == Name("end", Len(me.cp.chain), me.attempt)
ZipName(me) == Name("zip", 0, me.attempt)

\* Of any worker, also one that has lost its claim.
Own(me) ==
    /\ Bounded(me.cp)
    /\ \A n \in me.created : n[3] = me.attempt
    /\ \A n \in ToSet(me.cp.chain) : n[1] \in Kinds
    /\ me.at \notin {"commit", "sweep"} => me.obsolete = {}
    /\ me.at # "publish" => me.outcome # "ready"
    /\ me.at = "chunk" => me.cp.open
    /\ Working(me) =>
         /\ IF me.at = "compose" THEN Len(me.cp.chain) <= ComposeLimit
                                 ELSE Len(me.cp.chain) < ComposeLimit
         /\ IF me.at \in {"compose", "commit"} THEN Len(me.cp.chain) <= me.attempt
                                               ELSE Len(me.cp.chain) < me.attempt

\* "b" is not behind "a".
Follows(a, b) ==
    /\ b.done > a.done \/ (b.done = a.done /\ b.read >= a.read /\ (a.open => b.open))
    /\ a.missing \subseteq b.missing
    /\ Len(a.entries) <= Len(b.entries)
    /\ \A i \in 1 .. Len(a.entries) : a.entries[i] = b.entries[i]

\* Of the worker that holds the claim.
Holder(m, j, st, me) ==
    /\ Follows(j.cp, me.cp)
    /\ \A n \in ToSet(me.cp.chain) \cup me.obsolete :
         n \in ToSet(j.cp.chain) \/ n[3] = me.attempt
    /\ \A n \in ToSet(me.cp.chain) :
         \/ n \in ToSet(j.cp.chain)
         \/ me.at = "compose" /\ n[1] = "part"
         \/ me.at = "commit"
    /\ me.obsolete \cap ToSet(me.cp.chain) = {}
    /\ me.at \notin {"write", "commit", "publish"} => me.outcome = "building"
    /\ me.outcome = "building" \/ me.at = "publish" =>
         /\ Sound(m, st, me.cp, me.buf)
         /\ me.at \notin {"loop", "chunk", "write"} => me.buf = <<>>
    /\ me.at \in {"claimed", "end", "zip", "verify", "publish"} => me.cp = j.cp
    /\ me.at \in {"end", "zip", "verify", "publish"} => me.cp.done = N /\ ~ me.cp.open
    /\ me.at = "zip" => /\ EndName(me) \in DOMAIN st
                        /\ st[EndName(me)] = EndOf(m, me.cp)
    /\ me.at \in {"verify", "publish"} => /\ ZipName(me) \in DOMAIN st
                                          /\ st[ZipName(me)] = Progress(m, me.cp) \o EndOf(m, me.cp)

Workmen ==
    \A w \in Workers :
        /\ Own(workers[w])
        /\ Holding(job, workers[w]) => Holder(manifest, job, store, workers[w])

-----------------------------------------------------------------------------
(* The job *)

JobSound(m, j, st) ==
    /\ Bounded(j.cp)
    /\ Len(j.cp.chain) < ComposeLimit
    /\ \A n \in ToSet(j.cp.chain) : n[1] \in Kinds
    /\ j.state = "building" => Sound(m, st, j.cp, <<>>)
    /\ j.state = "ready" /\ j.left > 0 =>
         /\ j.zip \in DOMAIN st
         /\ st[j.zip] = Progress(m, j.cp) \o EndOf(m, j.cp)
         /\ j.cp.done = N /\ ~ j.cp.open
         /\ Listed(m, j.cp)

\* What the job refers to, and what the sweep of a worker that has committed may
\* delete.
Kept(j) == (IF j.state = "building" THEN ToSet(j.cp.chain) ELSE {})
           \cup (IF j.state = "ready" THEN {j.zip} ELSE {})
Swept(me) == IF me.at = "sweep" THEN me.obsolete ELSE {}

Numbers ==
    /\ job.attempt <= attempts /\ Len(job.cp.chain) <= attempts
    /\ \A w \in Workers : /\ workers[w].attempt <= attempts
                          /\ workers[w].at # "idle" => workers[w].attempt # 0
    /\ \A v, w \in Workers : v # w /\ workers[v].at # "idle" /\ workers[w].at # "idle" =>
         workers[v].attempt # workers[w].attempt

\* An attempt that has not committed made nothing of what the job refers to or a
\* sweep deletes.
Settled(n) == n[3] <= attempts /\ \A w \in Workers : Working(workers[w]) => workers[w].attempt # n[3]

Apart ==
    /\ \A n \in Kept(job) : Settled(n)
    /\ \A w \in Workers : \A n \in Swept(workers[w]) : Settled(n) /\ n \notin Kept(job)

Swiping == sweeping => job.state # "building" /\ job.left = 0

ZipInv == Typed /\ Workmen /\ JobSound(manifest, job, store) /\ Numbers /\ Apart /\ Swiping

-----------------------------------------------------------------------------
(* Constants, names and records *)

LEMMA Numbered == N \in Nat /\ Files = 1 .. N
<1>1. N \in Nat
  BY ManifestAssumption, FS_CardinalityType DEF N
<1> QED
  BY <1>1, ManifestAssumption DEF N

\* Each file has a size.
LEMMA SizesOf ==
    ASSUME NEW m \in Manifests
    PROVE  m.partial \in BOOLEAN /\ \A f \in Files : m.size[f] \in Nat
<1>1. m.size \in Sizes /\ m.partial \in BOOLEAN
  BY DEF Manifests
<1>2. m.size \in Seq(Nat) /\ DOMAIN m.size = Files
  BY <1>1, LimitsAssumption
<1> QED
  BY <1>1, <1>2

\* The limits are numbers.
LEMMA Limits ==
    /\ MaxZip \in Nat /\ MaxAttempts \in Nat /\ ComposeLimit \in Nat /\ ComposeLimit > 1
    /\ StepLease \in Nat \ {0} /\ Abandoned \in Nat \ {0} /\ ReadyTtl \in Nat \ {0}
  BY LimitsAssumption

\* A name tells the attempt that made it.
LEMMA NameFields ==
    ASSUME NEW n \in Names
    PROVE  n[3] \in 1 .. MaxAttempts
  BY DEF Names

\* The names an attempt may give.
LEMMA Named ==
    ASSUME NEW kind \in {"part", "composite", "end", "zip"}, NEW i \in Attempts,
           NEW a \in Attempts, a # 0
    PROVE  /\ Name(kind, i, a) \in Names
           /\ Name(kind, i, a)[1] = kind /\ Name(kind, i, a)[3] = a
  BY Limits DEF Name, Names, Attempts

\* The names of one attempt that are not in a chain.
LEMMA NamesDiffer ==
    ASSUME NEW me
    PROVE  /\ EndName(me)[1] \notin Kinds /\ ZipName(me)[1] \notin Kinds
           /\ EndName(me) # ZipName(me)
           /\ EndName(me)[3] = me.attempt /\ ZipName(me)[3] = me.attempt
  BY DEF EndName, ZipName, Name, Kinds

\* What a ZIP is made of.
LEMMA RecordKinds ==
    /\ \A f \in Files : Header(f) \in Records /\ Descriptor(f) \in Records
    /\ \A f \in Files, n \in Nat : Data(f, n) \in Records
    /\ \A files \in SUBSET Files : MissingList(files) \in Records
    /\ \A entries \in Seq(Listings) : Directory(entries) \in Records
  BY DEF Records

\* The end records are pieces of a ZIP.
LEMMA EndType ==
    ASSUME NEW m, NEW cp \in Checkpoints
    PROVE  EndOf(m, cp) \in Pieces
<1>1. cp.missing \in SUBSET Files /\ cp.entries \in Seq(Entries) /\ cp.written \in Nat
  BY DEF Checkpoints
<1>2. Entries \subseteq Listings
  BY Numbered DEF Entries, Listings
<1>3. cp.entries \in Seq(Listings)
  BY <1>1, <1>2
<1>4. [file |-> 0, offset |-> cp.written] \in Listings
  BY <1>1, Numbered DEF Listings
<1>5. Append(cp.entries, [file |-> 0, offset |-> cp.written]) \in Seq(Listings)
  BY <1>3, <1>4
<1>6. CASE m.partial /\ cp.missing # {}
  <2>1. EndOf(m, cp) = <<MissingList(cp.missing),
                         Directory(Append(cp.entries, [file |-> 0, offset |-> cp.written]))>>
    BY <1>6 DEF EndOf
  <2>2. MissingList(cp.missing) \in Records
        /\ Directory(Append(cp.entries, [file |-> 0, offset |-> cp.written])) \in Records
    BY <1>1, <1>5, RecordKinds
  <2> QED
    BY <2>1, <2>2 DEF Pieces
<1>7. CASE ~ (m.partial /\ cp.missing # {})
  <2>1. EndOf(m, cp) = <<Directory(cp.entries)>>
    BY <1>7 DEF EndOf
  <2>2. Directory(cp.entries) \in Records
    BY <1>3, RecordKinds
  <2> QED
    BY <2>1, <2>2 DEF Pieces
<1> QED
  BY <1>6, <1>7

\* EndRecords, with the manifest as a parameter.
LEMMA EndRecordsIs ==
    ASSUME NEW cp
    PROVE  EndRecords(cp) = EndOf(manifest, cp)
  BY DEF EndRecords, EndOf

-----------------------------------------------------------------------------
(* Pieces of files *)

LEMMA BegunType ==
    ASSUME NEW f \in Files, NEW n \in Nat
    PROVE  Begun(f, n) \in Pieces
<1>1. <<Header(f)>> \in Pieces
  BY RecordKinds DEF Pieces
<1>2. [k \in 1 .. n |-> Data(f, k)] \in Pieces
  BY RecordKinds DEF Pieces
<1> QED
  BY <1>1, <1>2 DEF Begun, Pieces

\* A file that has just been opened.
LEMMA BegunZero ==
    ASSUME NEW f \in Files
    PROVE  Begun(f, 0) = <<Header(f)>>
<1>1. [k \in 1 .. 0 |-> Data(f, k)] = <<>>
  OBVIOUS
<1>2. <<Header(f)>> \o <<>> = <<Header(f)>>
  OBVIOUS
<1> QED
  BY <1>1, <1>2 DEF Begun

\* One more chunk of a file.
LEMMA BegunNext ==
    ASSUME NEW f \in Files, NEW n \in Nat
    PROVE  Begun(f, n + 1) = Append(Begun(f, n), Data(f, n + 1))
<1> DEFINE s == [k \in 1 .. n |-> Data(f, k)]
           t == [k \in 1 .. n + 1 |-> Data(f, k)]
<1>1. t = Append(s, Data(f, n + 1))
  OBVIOUS
<1>2. s \in Pieces /\ Data(f, n + 1) \in Records /\ <<Header(f)>> \in Pieces
  BY RecordKinds DEF Pieces
<1>3. Begun(f, n) = <<Header(f)>> \o s /\ Begun(f, n + 1) = <<Header(f)>> \o t
  BY DEF Begun
<1> HIDE DEF s, t
<1>4. PICK h \in Pieces : h = <<Header(f)>>
  BY <1>2
<1>5. h \o Append(s, Data(f, n + 1)) = Append(h \o s, Data(f, n + 1))
  BY <1>2 DEF Pieces
<1> QED
  BY <1>1, <1>3, <1>4, <1>5

\* A whole file is all its chunks and its descriptor.
LEMMA WholeFileType ==
    ASSUME NEW m \in Manifests, NEW f \in Files
    PROVE  /\ WholeFile(m, f) \in Pieces
           /\ WholeFile(m, f) = Append(Begun(f, m.size[f]), Descriptor(f))
<1>1. Begun(f, m.size[f]) \in Pieces
  BY SizesOf, BegunType
<1>2. Descriptor(f) \in Records
  BY RecordKinds
<1> QED
  BY <1>1, <1>2 DEF WholeFile, Pieces

\* An entry names a file and a place.
LEMMA EntryFields ==
    \A e \in Entries : e.file \in Files /\ e.offset \in Nat
  BY DEF Entries

\* A function on 1 .. n is a sequence of what it holds.
LEMMA SequenceOf ==
    ASSUME NEW E, NEW n \in Nat, NEW s, s = [i \in 1 .. n |-> s[i]], \A i \in 1 .. n : s[i] \in E
    PROVE  s \in Seq(E) /\ Len(s) = n /\ DOMAIN s = 1 .. n
<1>1. s \in [1 .. n -> E]
  OBVIOUS
<1> QED
  BY <1>1

\* The files that are done are pieces of a ZIP.
LEMMA WholeFilesType ==
    ASSUME NEW m \in Manifests, NEW entries \in Seq(Entries)
    PROVE  WholeFiles(m, FilesOf(entries)) \in Pieces
<1>0. PICK n \in Nat : n = Len(entries)
  OBVIOUS
<1>1. \A i \in 1 .. n : entries[i].file \in Files
  BY <1>0, EntryFields
<1>2. /\ DOMAIN FilesOf(entries) = 1 .. n
      /\ \A i \in 1 .. n : FilesOf(entries)[i] \in Files
  BY <1>0, <1>1 DEF FilesOf
<1>3. PICK s : s = [i \in DOMAIN FilesOf(entries) |-> WholeFile(m, FilesOf(entries)[i])]
  OBVIOUS
<1>4. s \in Seq(Pieces)
  <2>1. s = [i \in 1 .. n |-> s[i]] /\ \A i \in 1 .. n : s[i] \in Pieces
    BY <1>2, <1>3, WholeFileType
  <2> QED
    BY <2>1, SequenceOf
<1>5. FlattenSeq(s) \in Pieces
  BY <1>4, FlattenType DEF Pieces
<1> QED
  BY <1>3, <1>5 DEF WholeFiles

\* One more file is done.
LEMMA WholeFilesNext ==
    ASSUME NEW m \in Manifests, NEW entries \in Seq(Entries), NEW e \in Entries
    PROVE  WholeFiles(m, FilesOf(Append(entries, e)))
             = WholeFiles(m, FilesOf(entries)) \o WholeFile(m, e.file)
<1>1. PICK fs : fs = FilesOf(entries)
  OBVIOUS
<1>2. PICK gs : gs = FilesOf(Append(entries, e))
  OBVIOUS
<1>3. PICK n \in Nat : n = Len(entries)
  OBVIOUS
<1>4. e.file \in Files /\ \A i \in 1 .. n : entries[i].file \in Files
  BY <1>3, EntryFields
<1>5. /\ DOMAIN fs = 1 .. n /\ DOMAIN gs = 1 .. n + 1
      /\ \A i \in 1 .. n : fs[i] = entries[i].file /\ gs[i] = entries[i].file
      /\ gs[n + 1] = e.file
  BY <1>1, <1>2, <1>3 DEF FilesOf
<1>6. PICK s : s = [i \in DOMAIN fs |-> WholeFile(m, fs[i])]
  OBVIOUS
<1>7. PICK t : t = [i \in DOMAIN gs |-> WholeFile(m, gs[i])]
  OBVIOUS
<1>8. s \in Seq(Pieces)
  BY <1>4, <1>5, <1>6, WholeFileType
<1>9. WholeFile(m, e.file) \in Pieces
  BY <1>4, WholeFileType
<1>10. t = Append(s, WholeFile(m, e.file))
  <2>1. Len(s) = n /\ \A i \in 1 .. n : s[i] = WholeFile(m, fs[i])
    BY <1>5, <1>6, <1>8
  <2>2. \A i \in 1 .. n + 1 : t[i] = IF i = n + 1 THEN WholeFile(m, e.file) ELSE s[i]
    BY <1>5, <1>7, <2>1
  <2>3. t = [i \in 1 .. n + 1 |-> t[i]]
    BY <1>5, <1>7
  <2>4. t \in Seq(Pieces)
    <3>1. \A i \in 1 .. n + 1 : t[i] \in Pieces
      <4>1. \A i \in 1 .. n : s[i] \in Pieces
        BY <1>8, <2>1
      <4>2. ASSUME NEW i \in 1 .. n + 1
            PROVE  t[i] \in Pieces
        <5>1. CASE i = n + 1
          <6>1. t[i] = WholeFile(m, e.file)
            BY <2>2, <5>1
          <6> QED
            BY <1>9, <6>1
        <5>2. CASE i # n + 1
          <6>1. t[i] = s[i] /\ i \in 1 .. n
            BY <2>2, <5>2
          <6> QED
            BY <4>1, <6>1
        <5> QED
          BY <5>1, <5>2
      <4> QED
        BY <4>2
    <3>2. PICK l \in Nat : l = n + 1
      OBVIOUS
    <3>3. t = [i \in 1 .. l |-> t[i]] /\ \A i \in 1 .. l : t[i] \in Pieces
      BY <2>3, <3>1, <3>2
    <3> QED
      BY <3>3, SequenceOf
  <2>5. Len(t) = n + 1
    BY <2>3, <2>4
  <2> QED
    BY <1>8, <1>9, <2>1, <2>2, <2>4, <2>5
<1>11. FlattenSeq(t) = FlattenSeq(s) \o WholeFile(m, e.file)
  BY <1>8, <1>9, <1>10, FlattenAppend DEF Pieces
<1> QED
  BY <1>1, <1>2, <1>6, <1>7, <1>11 DEF WholeFiles

-----------------------------------------------------------------------------
(* Contents of objects *)

LEMMA StoreFields ==
    ASSUME NEW st \in Stores
    PROVE  DOMAIN st \subseteq Names /\ \A n \in DOMAIN st : st[n] \in Pieces
<1>1. PICK names \in SUBSET Names : st \in [names -> Pieces]
  BY DEF Stores
<1> QED
  BY <1>1

\* What a store is.
LEMMA StoreIs ==
    ASSUME NEW st, NEW names \in SUBSET Names, st = [n \in names |-> st[n]],
           \A n \in names : st[n] \in Pieces
    PROVE  st \in Stores
<1>1. st \in [names -> Pieces]
  OBVIOUS
<1> QED
  BY <1>1 DEF Stores

\* Objects one behind the other are pieces of a ZIP.
LEMMA ContentType ==
    ASSUME NEW st \in Stores, NEW names \in Chains, StoredIn(st, names)
    PROVE  ContentIn(st, names) \in Pieces
<1>0. PICK n \in Nat : n = Len(names)
  BY DEF Chains
<1>1. DOMAIN names = 1 .. n
  BY <1>0 DEF Chains
<1>2. \A i \in 1 .. n : st[names[i]] \in Pieces
  BY <1>1, StoreFields DEF StoredIn
<1>3. PICK s : s = [i \in DOMAIN names |-> st[names[i]]]
  OBVIOUS
<1>4. s \in Seq(Pieces)
  <2>1. s = [i \in 1 .. n |-> s[i]] /\ \A i \in 1 .. n : s[i] \in Pieces
    BY <1>1, <1>2, <1>3
  <2> QED
    BY <2>1, SequenceOf
<1>5. FlattenSeq(s) \in Pieces
  BY <1>4, FlattenType DEF Pieces
<1> QED
  BY <1>3, <1>5 DEF ContentIn

\* One more object at the end of a chain.
LEMMA ContentAppend ==
    ASSUME NEW st \in Stores, NEW names \in Chains, StoredIn(st, names), NEW name \in DOMAIN st
    PROVE  /\ StoredIn(st, Append(names, name))
           /\ ContentIn(st, Append(names, name)) = ContentIn(st, names) \o st[name]
<1>0. PICK n \in Nat : n = Len(names)
  BY DEF Chains
<1>1. DOMAIN names = 1 .. n
  BY <1>0 DEF Chains
<1>2. name \in Names /\ st[name] \in Pieces
  BY StoreFields
<1>3. PICK more : more = Append(names, name)
  OBVIOUS
<1>4. /\ DOMAIN more = 1 .. n + 1 /\ more[n + 1] = name
      /\ \A i \in 1 .. n : more[i] = names[i]
  BY <1>0, <1>2, <1>3 DEF Chains
<1>5. StoredIn(st, more)
  BY <1>1, <1>4 DEF StoredIn
<1>6. PICK s : s = [i \in DOMAIN names |-> st[names[i]]]
  OBVIOUS
<1>7. PICK t : t = [i \in DOMAIN more |-> st[more[i]]]
  OBVIOUS
<1>8. s \in Seq(Pieces) /\ Len(s) = n /\ DOMAIN s = 1 .. n
  <2>1. \A i \in 1 .. n : st[names[i]] \in Pieces
    BY <1>1, StoreFields DEF StoredIn
  <2>2. s = [i \in 1 .. n |-> s[i]] /\ \A i \in 1 .. n : s[i] \in Pieces
    BY <1>1, <1>6, <2>1
  <2> QED
    BY <2>2, SequenceOf
<1>9. PICK l \in Nat : l = n + 1
  OBVIOUS
<1>10. t \in Seq(Pieces) /\ Len(t) = l /\ DOMAIN t = 1 .. l
  <2>1. \A i \in DOMAIN more : st[more[i]] \in Pieces
    BY <1>5, StoreFields DEF StoredIn
  <2>2. t = [i \in 1 .. l |-> t[i]] /\ \A i \in 1 .. l : t[i] \in Pieces
    BY <1>4, <1>7, <1>9, <2>1
  <2> QED
    BY <2>2, SequenceOf
<1>11. t = Append(s, st[name])
  <2>1. t[l] = st[name]
    BY <1>4, <1>7, <1>9
  <2>2. \A i \in 1 .. n : t[i] = s[i]
    BY <1>1, <1>4, <1>6, <1>7
  <2> QED
    BY <1>2, <1>8, <1>9, <1>10, <2>1, <2>2
<1>12. FlattenSeq(t) = FlattenSeq(s) \o st[name]
  BY <1>2, <1>8, <1>11, FlattenAppend DEF Pieces
<1> QED
  BY <1>3, <1>5, <1>6, <1>7, <1>12 DEF ContentIn

\* A chain of one object.
LEMMA ContentOne ==
    ASSUME NEW st \in Stores, NEW name \in DOMAIN st
    PROVE  StoredIn(st, <<name>>) /\ ContentIn(st, <<name>>) = st[name]
<1>1. st[name] \in Pieces
  BY StoreFields
<1>2. StoredIn(st, <<name>>)
  BY DEF StoredIn
<1>3. [i \in DOMAIN <<name>> |-> st[<<name>>[i]]] = <<st[name]>>
  OBVIOUS
<1> QED
  BY <1>1, <1>2, <1>3, FlattenOne DEF ContentIn, Pieces

\* What is in the storage is read the same after other objects changed.
LEMMA ContentSame ==
    ASSUME NEW st, NEW later, NEW names \in Chains, StoredIn(st, names),
           \A n \in ToSet(names) : n \in DOMAIN st => n \in DOMAIN later /\ later[n] = st[n]
    PROVE  StoredIn(later, names) /\ ContentIn(later, names) = ContentIn(st, names)
<1>1. \A i \in DOMAIN names : names[i] \in ToSet(names) /\ names[i] \in DOMAIN st
  BY DEF ToSet, StoredIn
<1>2. \A i \in DOMAIN names : names[i] \in DOMAIN later /\ later[names[i]] = st[names[i]]
  BY <1>1
<1>3. [i \in DOMAIN names |-> later[names[i]]] = [i \in DOMAIN names |-> st[names[i]]]
  BY <1>2
<1> QED
  BY <1>2, <1>3 DEF StoredIn, ContentIn

-----------------------------------------------------------------------------
(* The ZIP so far *)

LEMMA ConcatAppend ==
    ASSUME NEW E, NEW s \in Seq(E), NEW t \in Seq(E), NEW x \in E
    PROVE  s \o Append(t, x) = Append(s \o t, x)
  OBVIOUS

\* The fields of a checkpoint.
LEMMA CheckpointFields ==
    ASSUME NEW cp \in Checkpoints
    PROVE  /\ cp.done \in Done /\ cp.done \in 0 .. N /\ cp.done \in Nat /\ cp.open \in BOOLEAN
           /\ cp.read \in Nat /\ cp.start \in Nat /\ cp.written \in Nat /\ cp.chain \in Chains
           /\ cp.entries \in Seq(Entries) /\ cp.missing \in SUBSET Files
<1>1. /\ cp.done \in Done /\ cp.open \in BOOLEAN
      /\ cp.read \in Nat /\ cp.start \in Nat /\ cp.written \in Nat /\ cp.chain \in Chains
      /\ cp.entries \in Seq(Entries) /\ cp.missing \in SUBSET Files
  BY DEF Checkpoints
<1> QED
  BY <1>1, Numbered DEF Done

\* What is read of an open file.
LEMMA OpenedType ==
    ASSUME NEW cp \in Checkpoints, Bounded(cp)
    PROVE  Opened(cp) \in Pieces
<1>1. CASE cp.open
  <2>1. cp.done + 1 \in Files /\ cp.read \in Nat
    BY <1>1, CheckpointFields, Numbered DEF Bounded
  <2> QED
    BY <1>1, <2>1, BegunType DEF Opened
<1>2. CASE ~ cp.open
  <2>1. Opened(cp) = <<>>
    BY <1>2 DEF Opened
  <2> QED
    BY <2>1 DEF Pieces
<1> QED
  BY <1>1, <1>2

\* The ZIP so far is made of pieces.
LEMMA ProgressType ==
    ASSUME NEW m \in Manifests, NEW cp \in Checkpoints, Bounded(cp)
    PROVE  Progress(m, cp) \in Pieces
<1>1. Opened(cp) \in Pieces
  BY OpenedType
<1>2. WholeFiles(m, FilesOf(cp.entries)) \in Pieces
  BY CheckpointFields, WholeFilesType
<1> QED
  BY <1>1, <1>2 DEF Progress, Pieces

\* The ZIP so far depends on the entries and the open file only.
LEMMA ProgressSame ==
    ASSUME NEW m, NEW a, NEW b, a.entries = b.entries, a.open = b.open,
           a.open => a.done = b.done /\ a.read = b.read
    PROVE  Progress(m, b) = Progress(m, a)
<1>1. Opened(b) = Opened(a)
  BY DEF Opened
<1> QED
  BY <1>1 DEF Progress

\* The ZIP so far grows by the header of the file that is opened,
LEMMA ProgressOpen ==
    ASSUME NEW m \in Manifests, NEW a \in Checkpoints, NEW b \in Checkpoints,
           ~ a.open, b.open, a.done < N, b.done = a.done, b.read = 0, b.entries = a.entries
    PROVE  Progress(m, b) = Append(Progress(m, a), Header(a.done + 1))
<1>1. a.done + 1 \in Files
  BY CheckpointFields, Numbered
<1>2. PICK s \in Pieces : s = WholeFiles(m, FilesOf(a.entries))
  BY CheckpointFields, WholeFilesType
<1>3. Opened(a) = <<>> /\ Opened(b) = <<Header(a.done + 1)>>
  BY <1>1, BegunZero DEF Opened
<1>4. Header(a.done + 1) \in Records
  BY <1>1, RecordKinds
<1>5. Progress(m, a) = s \o <<>> /\ Progress(m, b) = s \o <<Header(a.done + 1)>>
  BY <1>2, <1>3 DEF Progress
<1> QED
  BY <1>4, <1>5 DEF Pieces

\* by a chunk that is read,
LEMMA ProgressRead ==
    ASSUME NEW m \in Manifests, NEW a \in Checkpoints, NEW b \in Checkpoints,
           a.open, b.open, a.done < N, b.done = a.done, b.read = a.read + 1,
           b.entries = a.entries
    PROVE  Progress(m, b) = Append(Progress(m, a), Data(a.done + 1, a.read + 1))
<1>1. PICK f \in Files : f = a.done + 1
  BY CheckpointFields, Numbered
<1>2. PICK s \in Pieces : s = WholeFiles(m, FilesOf(a.entries))
  BY CheckpointFields, WholeFilesType
<1>3. PICK n \in Nat : n = a.read
  BY CheckpointFields
<1>4. Opened(a) = Begun(f, n) /\ Opened(b) = Begun(f, n + 1)
  BY <1>1, <1>3 DEF Opened
<1>5. Begun(f, n) \in Pieces /\ Begun(f, n + 1) = Append(Begun(f, n), Data(f, n + 1))
  BY BegunType, BegunNext
<1>6. Data(f, n + 1) \in Records
  BY RecordKinds
<1>7. Progress(m, a) = s \o Begun(f, n) /\ Progress(m, b) = s \o Append(Begun(f, n), Data(f, n + 1))
  BY <1>2, <1>4, <1>5 DEF Progress
<1>8. s \o Append(Begun(f, n), Data(f, n + 1)) = Append(s \o Begun(f, n), Data(f, n + 1))
  BY <1>5, <1>6, ConcatAppend DEF Pieces
<1> QED
  BY <1>1, <1>3, <1>7, <1>8

\* and by the descriptor of a file that is done.
LEMMA ProgressClose ==
    ASSUME NEW m \in Manifests, NEW a \in Checkpoints, NEW b \in Checkpoints, NEW e \in Entries,
           a.open, ~ b.open, a.done < N, a.read = m.size[a.done + 1],
           b.entries = Append(a.entries, e), e.file = a.done + 1
    PROVE  Progress(m, b) = Append(Progress(m, a), Descriptor(a.done + 1))
<1>1. PICK f \in Files : f = a.done + 1
  BY CheckpointFields, Numbered
<1>2. PICK s \in Pieces : s = WholeFiles(m, FilesOf(a.entries))
  BY CheckpointFields, WholeFilesType
<1>3. PICK t : t = Begun(f, m.size[f])
  OBVIOUS
<1>4. t \in Pieces
  BY <1>3, SizesOf, BegunType
<1>5. WholeFile(m, f) = Append(t, Descriptor(f)) /\ WholeFile(m, f) \in Pieces
  BY <1>3, WholeFileType
<1>6. WholeFiles(m, FilesOf(b.entries)) = s \o WholeFile(m, f)
  BY <1>1, <1>2, CheckpointFields, WholeFilesNext
<1>7. Opened(a) = t /\ Opened(b) = <<>>
  BY <1>1, <1>3 DEF Opened
<1>8. Descriptor(f) \in Records
  BY RecordKinds
<1>9. s \o Append(t, Descriptor(f)) = Append(s \o t, Descriptor(f))
  BY <1>4, <1>8, ConcatAppend DEF Pieces
<1>10. (s \o WholeFile(m, f)) \o <<>> = s \o WholeFile(m, f)
  BY <1>5 DEF Pieces
<1> QED
  BY <1>1, <1>2, <1>5, <1>6, <1>7, <1>9, <1>10 DEF Progress

\* One more record.
LEMMA OneMore ==
    ASSUME NEW s \in Pieces, NEW x \in Records
    PROVE  Append(s, x) \in Pieces
  BY DEF Pieces

\* What is there stays where it is.
LEMMA Grown ==
    ASSUME NEW s \in Pieces, NEW x \in Records, NEW i \in Nat, i < Len(s)
    PROVE  i < Len(Append(s, x)) /\ Append(s, x)[i + 1] = s[i + 1]
<1>1. s \in Seq(Records)
  BY DEF Pieces
<1>2. Len(Append(s, x)) = Len(s) + 1 /\ \A k \in 1 .. Len(s) : Append(s, x)[k] = s[k]
  BY <1>1, AppendProperties
<1>3. Len(s) \in Nat
  BY <1>1
<1>4. i + 1 \in 1 .. Len(s)
  BY <1>3
<1>5. Append(s, x)[i + 1] = s[i + 1]
  BY <1>2, <1>4
<1>6. PICK l : l = Len(Append(s, x))
  OBVIOUS
<1>7. i < l
  BY <1>2, <1>3, <1>6
<1> QED
  BY <1>5, <1>6, <1>7

\* The entries are still right when a file is skipped,
LEMMA ListedSkip ==
    ASSUME NEW m \in Manifests, NEW a \in Checkpoints, NEW b \in Checkpoints,
           ~ a.open, ~ b.open, b.done = a.done + 1, b.missing = a.missing \cup {a.done + 1},
           b.entries = a.entries, m.partial, Listed(m, a)
    PROVE  Listed(m, b)
<1>1. Progress(m, b) = Progress(m, a)
  <2>1. a.open = b.open
    BY CheckpointFields
  <2> QED
    BY <2>1, ProgressSame
<1>2. PICK n \in Nat : n = Len(a.entries) /\ DOMAIN a.entries = 1 .. n
  BY CheckpointFields
<1>3. \A i \in 1 .. n : a.entries[i].file \in Nat
  BY <1>2, CheckpointFields, EntryFields, Numbered
<1>4. a.done \in Nat /\ a.missing \subseteq Nat /\ Files \subseteq Nat
  BY CheckpointFields, Numbered
<1>5. \A i \in 1 .. n : b.entries[i].file <= b.done /\ b.entries[i].file \notin b.missing
  <2>1. \A i \in 1 .. n : a.entries[i].file <= a.done /\ a.entries[i].file \notin a.missing
    BY <1>2 DEF Listed
  <2> QED
    BY <1>3, <1>4, <2>1
<1>6. \A f \in Files : f <= b.done /\ f \notin b.missing =>
        \E i \in DOMAIN b.entries : b.entries[i].file = f
  <2>1. \A f \in Files : f <= a.done /\ f \notin a.missing =>
          \E i \in DOMAIN a.entries : a.entries[i].file = f
    BY DEF Listed
  <2> QED
    BY <1>4, <2>1
<1>7. \A f \in b.missing : f <= b.done
  <2>1. \A f \in a.missing : f <= a.done
    BY DEF Listed
  <2> QED
    BY <1>4, <2>1
<1> QED
  BY <1>1, <1>2, <1>5, <1>6, <1>7 DEF Listed

\* opened,
LEMMA ListedOpen ==
    ASSUME NEW m \in Manifests, NEW a \in Checkpoints, NEW b \in Checkpoints, Bounded(a),
           ~ a.open, b.open, a.done < N, b.done = a.done, b.read = 0, b.missing = a.missing,
           b.entries = a.entries, b.start = Len(Progress(m, a)), Listed(m, a)
    PROVE  Listed(m, b)
<1>1. PICK s \in Pieces : s = Progress(m, a)
  BY ProgressType
<1>2. PICK x \in Records : x = Header(a.done + 1)
  BY CheckpointFields, Numbered, RecordKinds
<1>3. PICK t : t = Progress(m, b)
  OBVIOUS
<1>4. t = Append(s, x)
  BY <1>1, <1>2, <1>3, ProgressOpen
<1>5. \A i \in DOMAIN a.entries : a.entries[i].offset \in Nat
  BY CheckpointFields, EntryFields
<1>6. \A i \in DOMAIN b.entries : /\ b.entries[i].offset < Len(t)
                                  /\ t[b.entries[i].offset + 1] = Header(b.entries[i].file)
  <2>1. \A i \in DOMAIN a.entries : /\ a.entries[i].offset < Len(s)
                                    /\ s[a.entries[i].offset + 1] = Header(a.entries[i].file)
    BY <1>1 DEF Listed
  <2> QED
    BY <1>4, <1>5, <2>1, Grown
<1>7. b.start < Len(t) /\ t[b.start + 1] = Header(b.done + 1)
  <2>1. b.start = Len(s)
    BY <1>1
  <2> QED
    BY <1>2, <1>4, <2>1 DEF Pieces
<1> QED
  BY <1>3, <1>6, <1>7 DEF Listed

\* read,
LEMMA ListedRead ==
    ASSUME NEW m \in Manifests, NEW a \in Checkpoints, NEW b \in Checkpoints, Bounded(a),
           a.open, b.open, b.done = a.done, b.read = a.read + 1, b.missing = a.missing,
           b.entries = a.entries, b.start = a.start, Listed(m, a)
    PROVE  Listed(m, b)
<1>1. PICK s \in Pieces : s = Progress(m, a)
  BY ProgressType
<1>2. PICK x \in Records : x = Data(a.done + 1, a.read + 1)
  BY CheckpointFields, Numbered, RecordKinds DEF Bounded
<1>3. PICK t : t = Progress(m, b)
  OBVIOUS
<1>4. t = Append(s, x)
  BY <1>1, <1>2, <1>3, ProgressRead DEF Bounded
<1>5. a.start \in Nat /\ \A i \in DOMAIN a.entries : a.entries[i].offset \in Nat
  BY CheckpointFields, EntryFields
<1>6. \A i \in DOMAIN b.entries : /\ b.entries[i].offset < Len(t)
                                  /\ t[b.entries[i].offset + 1] = Header(b.entries[i].file)
  <2>1. \A i \in DOMAIN a.entries : /\ a.entries[i].offset < Len(s)
                                    /\ s[a.entries[i].offset + 1] = Header(a.entries[i].file)
    BY <1>1 DEF Listed
  <2> QED
    BY <1>4, <1>5, <2>1, Grown
<1>7. b.start < Len(t) /\ t[b.start + 1] = Header(b.done + 1)
  <2>1. a.start < Len(s) /\ s[a.start + 1] = Header(a.done + 1)
    BY <1>1 DEF Listed
  <2> QED
    BY <1>4, <1>5, <2>1, Grown
<1> QED
  BY <1>3, <1>6, <1>7 DEF Listed

\* and done.
LEMMA ListedClose ==
    ASSUME NEW m \in Manifests, NEW a \in Checkpoints, NEW b \in Checkpoints, Bounded(a),
           NEW e \in Entries, a.open, ~ b.open, b.done = a.done + 1, b.missing = a.missing,
           a.read = m.size[a.done + 1], b.entries = Append(a.entries, e),
           e.file = a.done + 1, e.offset = a.start, Listed(m, a)
    PROVE  Listed(m, b)
<1>1. PICK s \in Pieces : s = Progress(m, a)
  BY ProgressType
<1>2. PICK x \in Records : x = Descriptor(a.done + 1)
  BY CheckpointFields, Numbered, RecordKinds DEF Bounded
<1>3. PICK t : t = Progress(m, b)
  OBVIOUS
<1>4. t = Append(s, x)
  BY <1>1, <1>2, <1>3, ProgressClose DEF Bounded
<1>5. PICK n \in Nat : n = Len(a.entries) /\ DOMAIN a.entries = 1 .. n
  BY CheckpointFields
<1>6. /\ DOMAIN b.entries = 1 .. n + 1 /\ b.entries[n + 1] = e
      /\ \A i \in 1 .. n : b.entries[i] = a.entries[i]
  BY <1>5, CheckpointFields
<1>7. /\ a.start \in Nat /\ a.done \in Nat
      /\ \A i \in 1 .. n : a.entries[i].offset \in Nat /\ a.entries[i].file \in Nat
  <2>1. a.start \in Nat /\ a.done \in Nat
    BY CheckpointFields
  <2>2. \A i \in 1 .. n : a.entries[i] \in Entries
    BY <1>5, CheckpointFields
  <2>3. \A i \in 1 .. n : a.entries[i].offset \in Nat /\ a.entries[i].file \in Files
    BY <2>2, EntryFields
  <2> QED
    BY <2>1, <2>3, Numbered
<1>8. /\ \A i \in 1 .. n : /\ a.entries[i].offset < Len(s)
                           /\ s[a.entries[i].offset + 1] = Header(a.entries[i].file)
                           /\ a.entries[i].file <= a.done /\ a.entries[i].file \notin a.missing
      /\ \A i, k \in 1 .. n : i < k => a.entries[i].file < a.entries[k].file
      /\ a.start < Len(s) /\ s[a.start + 1] = Header(a.done + 1)
      /\ \A f \in a.missing : f <= a.done
  BY <1>1, <1>5 DEF Listed
<1>9. \A i \in 1 .. n + 1 : /\ b.entries[i].offset < Len(t)
                            /\ t[b.entries[i].offset + 1] = Header(b.entries[i].file)
  <2>1. \A i \in 1 .. n : /\ b.entries[i].offset < Len(t)
                          /\ t[b.entries[i].offset + 1] = Header(b.entries[i].file)
    <3>1. \A i \in 1 .. n : a.entries[i].offset < Len(s) /\ a.entries[i].offset \in Nat
      BY <1>7, <1>8
    <3>2. \A i \in 1 .. n : /\ a.entries[i].offset < Len(t)
                            /\ t[a.entries[i].offset + 1] = s[a.entries[i].offset + 1]
      BY <1>4, <3>1, Grown
    <3>3. \A i \in 1 .. n : s[a.entries[i].offset + 1] = Header(a.entries[i].file)
      BY <1>8
    <3> QED
      BY <1>6, <3>2, <3>3
  <2>2. e.offset < Len(t) /\ t[e.offset + 1] = Header(e.file)
    <3>1. PICK i \in Nat : i = a.start
      BY <1>7
    <3>2. i < Len(s)
      BY <1>8, <3>1
    <3>3. i < Len(t) /\ t[i + 1] = s[i + 1]
      BY <1>4, <3>2, Grown
    <3> QED
      BY <1>8, <3>1, <3>3
  <2> QED
    BY <1>6, <2>1, <2>2
<1>10. a.missing \subseteq Nat /\ Files \subseteq Nat
  BY CheckpointFields, Numbered
<1>11. \A i \in 1 .. n + 1 : b.entries[i].file <= b.done /\ b.entries[i].file \notin b.missing
  <2>1. ASSUME NEW i \in 1 .. n
        PROVE  b.entries[i].file <= b.done /\ b.entries[i].file \notin b.missing
    <3>1. a.entries[i].file \in Nat /\ a.entries[i].file <= a.done /\ a.entries[i].file \notin a.missing
      BY <1>7, <1>8
    <3> QED
      BY <1>6, <1>7, <3>1
  <2>2. e.file <= b.done /\ e.file \notin b.missing
    BY <1>7, <1>8, <1>10
  <2> QED
    BY <1>6, <2>1, <2>2
<1>12. \A i, k \in 1 .. n + 1 : i < k => b.entries[i].file < b.entries[k].file
  <2>1. ASSUME NEW i \in 1 .. n + 1, NEW k \in 1 .. n + 1, i < k
        PROVE  b.entries[i].file < b.entries[k].file
    <3>1. i \in 1 .. n /\ b.entries[i].file = a.entries[i].file
      BY <1>6, <2>1
    <3>2. CASE k = n + 1
      <4>1. a.entries[i].file \in Nat /\ a.entries[i].file <= a.done
        BY <1>7, <1>8, <3>1
      <4>2. b.entries[k].file = a.done + 1
        BY <1>6, <3>2
      <4> QED
        BY <1>7, <3>1, <4>1, <4>2
    <3>3. CASE k # n + 1
      <4>1. k \in 1 .. n
        BY <3>3
      <4> QED
        BY <1>6, <1>8, <2>1, <3>1, <4>1
    <3> QED
      BY <3>2, <3>3
  <2> QED
    BY <2>1
<1>13. \A f \in Files : f <= b.done /\ f \notin b.missing =>
         \E i \in 1 .. n + 1 : b.entries[i].file = f
  <2>1. ASSUME NEW f \in Files, f <= b.done, f \notin b.missing
        PROVE  \E i \in 1 .. n + 1 : b.entries[i].file = f
    <3>1. CASE f <= a.done
      <4>1. PICK i \in 1 .. n : a.entries[i].file = f
        BY <1>5, <2>1, <3>1 DEF Listed
      <4>2. i \in 1 .. n + 1 /\ b.entries[i].file = f
        BY <1>6, <4>1
      <4> QED
        BY <4>2
    <3>2. CASE ~ (f <= a.done)
      <4>1. f = e.file
        BY <1>7, <1>10, <2>1, <3>2
      <4>2. n + 1 \in 1 .. n + 1 /\ b.entries[n + 1].file = f
        BY <1>6, <4>1
      <4> QED
        BY <4>2
    <3> QED
      BY <3>1, <3>2
  <2> QED
    BY <2>1
<1>14. \A f \in b.missing : f <= b.done
  BY <1>7, <1>8, <1>10
<1>15. b.missing # {} => m.partial
  BY DEF Listed
<1> QED
  BY <1>3, <1>6, <1>9, <1>11, <1>12, <1>13, <1>14, <1>15 DEF Listed

-----------------------------------------------------------------------------
(* What the parts and the gathered pieces hold, after a step *)

\* The objects of these names are the same in both stores, if in the first.
Keeps(st, later, names) == \A n \in names : n \in DOMAIN st => n \in DOMAIN later /\ later[n] = st[n]

\* A store that keeps the parts.
LEMMA SoundKeeps ==
    ASSUME NEW m, NEW st, NEW later, NEW cp \in Checkpoints, NEW buf,
           Keeps(st, later, ToSet(cp.chain)), Sound(m, st, cp, buf)
    PROVE  Sound(m, later, cp, buf)
<1>1. StoredIn(later, cp.chain) /\ ContentIn(later, cp.chain) = ContentIn(st, cp.chain)
  BY CheckpointFields, ContentSame DEF Sound, Keeps
<1> QED
  BY <1>1 DEF Sound

\* The gathered pieces grow by what the ZIP grows.
LEMMA SoundGrow ==
    ASSUME NEW m, NEW st \in Stores, NEW a \in Checkpoints, NEW b \in Checkpoints,
           NEW buf \in Pieces, NEW x \in Records, Sound(m, st, a, buf),
           b.chain = a.chain, b.written = a.written,
           Progress(m, b) = Append(Progress(m, a), x), Listed(m, b)
    PROVE  Sound(m, st, b, Append(buf, x))
<1>1. PICK c \in Pieces : c = ContentIn(st, a.chain)
  BY CheckpointFields, ContentType DEF Sound
<1>2. c \o buf = Progress(m, a)
  BY <1>1 DEF Sound
<1>3. c \o Append(buf, x) = Append(c \o buf, x)
  BY ConcatAppend DEF Pieces
<1>4. StoredIn(st, b.chain) /\ Len(ContentIn(st, b.chain)) = b.written
  BY DEF Sound
<1> QED
  BY <1>1, <1>2, <1>3, <1>4 DEF Sound

\* Nothing is gathered.
LEMMA SoundSame ==
    ASSUME NEW m, NEW st, NEW a, NEW b, NEW buf, Sound(m, st, a, buf),
           b.chain = a.chain, b.written = a.written,
           Progress(m, b) = Progress(m, a), Listed(m, b)
    PROVE  Sound(m, st, b, buf)
  BY DEF Sound

\* Where the next record goes.
LEMMA SoundOffset ==
    ASSUME NEW m, NEW st \in Stores, NEW cp \in Checkpoints, NEW buf \in Pieces,
           Sound(m, st, cp, buf)
    PROVE  cp.written + Len(buf) = Len(Progress(m, cp))
<1>1. PICK c \in Pieces : c = ContentIn(st, cp.chain)
  BY CheckpointFields, ContentType DEF Sound
<1>2. c \o buf = Progress(m, cp) /\ Len(c) = cp.written
  BY <1>1 DEF Sound
<1>3. Len(c \o buf) = Len(c) + Len(buf)
  BY DEF Pieces
<1> QED
  BY <1>2, <1>3

\* Chain and entries say the same of the ZIP at two checkpoints that agree on
\* the rest.
LEMMA ListedSame ==
    ASSUME NEW m, NEW a, NEW b, b.entries = a.entries, b.done = a.done, b.open = a.open,
           b.read = a.read, b.start = a.start, b.missing = a.missing, Listed(m, a)
    PROVE  Progress(m, b) = Progress(m, a) /\ Listed(m, b)
<1>1. Progress(m, b) = Progress(m, a)
  BY ProgressSame
<1> QED
  BY <1>1 DEF Listed

\* What is gathered becomes a part.
LEMMA SoundWrite ==
    ASSUME NEW m, NEW st \in Stores, NEW later \in Stores, NEW a \in Checkpoints,
           NEW b \in Checkpoints, NEW buf \in Pieces, NEW name \in DOMAIN later,
           Keeps(st, later, ToSet(a.chain)), later[name] = buf, Sound(m, st, a, buf),
           b.chain = Append(a.chain, name), b.written = a.written + Len(buf),
           Progress(m, b) = Progress(m, a), Listed(m, b)
    PROVE  Sound(m, later, b, <<>>)
<1>1. Sound(m, later, a, buf)
  BY SoundKeeps
<1>2. PICK c \in Pieces : c = ContentIn(later, a.chain)
  BY <1>1, CheckpointFields, ContentType DEF Sound
<1>3. c \o buf = Progress(m, a) /\ Len(c) = a.written
  BY <1>1, <1>2 DEF Sound
<1>4. StoredIn(later, b.chain) /\ ContentIn(later, b.chain) = c \o buf
  BY <1>1, <1>2, CheckpointFields, ContentAppend DEF Sound
<1>5. Len(c \o buf) = Len(c) + Len(buf) /\ (c \o buf) \o <<>> = c \o buf
  BY DEF Pieces
<1> QED
  BY <1>3, <1>4, <1>5 DEF Sound

\* The chain becomes one object.
LEMMA SoundCompose ==
    ASSUME NEW m, NEW st \in Stores, NEW later \in Stores, NEW a \in Checkpoints,
           NEW b \in Checkpoints, NEW name \in DOMAIN later,
           later[name] = ContentIn(st, a.chain), Sound(m, st, a, <<>>),
           b.chain = <<name>>, b.written = a.written,
           Progress(m, b) = Progress(m, a), Listed(m, b)
    PROVE  Sound(m, later, b, <<>>)
<1>1. PICK c \in Pieces : c = ContentIn(st, a.chain)
  BY CheckpointFields, ContentType DEF Sound
<1>2. c \o <<>> = Progress(m, a) /\ Len(c) = a.written
  BY <1>1 DEF Sound
<1>3. StoredIn(later, b.chain) /\ ContentIn(later, b.chain) = c
  BY <1>1, ContentOne
<1> QED
  BY <1>2, <1>3 DEF Sound

-----------------------------------------------------------------------------
(* Checkpoints that are not behind *)

LEMMA FollowsSelf ==
    ASSUME NEW cp \in Checkpoints
    PROVE  Follows(cp, cp)
  BY CheckpointFields DEF Follows

\* Not behind, and not behind that.
LEMMA FollowsTransitive ==
    ASSUME NEW a \in Checkpoints, NEW b \in Checkpoints, NEW c \in Checkpoints,
           Follows(a, b), Follows(b, c)
    PROVE  Follows(a, c)
<1>1. /\ a.done \in Nat /\ b.done \in Nat /\ c.done \in Nat
      /\ a.read \in Nat /\ b.read \in Nat /\ c.read \in Nat
      /\ Len(a.entries) \in Nat /\ Len(b.entries) \in Nat /\ Len(c.entries) \in Nat
  BY CheckpointFields
<1>2. \/ c.done > a.done
      \/ c.done = a.done /\ c.read >= a.read /\ (a.open => c.open)
  BY <1>1 DEF Follows
<1>3. a.missing \subseteq c.missing /\ Len(a.entries) <= Len(c.entries)
  BY <1>1 DEF Follows
<1>4. \A i \in 1 .. Len(a.entries) : a.entries[i] = c.entries[i]
  BY <1>1 DEF Follows
<1> QED
  BY <1>2, <1>3, <1>4 DEF Follows

\* The entries of a checkpoint that is not behind begin with the old ones.
LEMMA FollowsIsPrefix ==
    ASSUME NEW a \in Checkpoints, NEW b \in Checkpoints, Follows(a, b)
    PROVE  IsPrefix(a.entries, b.entries)
<1>1. PICK n \in Nat : n = Len(a.entries)
  BY CheckpointFields
<1>2. n <= Len(b.entries) /\ \A i \in 1 .. n : a.entries[i] = b.entries[i]
  BY <1>1 DEF Follows
<1>3. a.entries \in Seq(Entries) /\ b.entries \in Seq(Entries)
  BY CheckpointFields
<1>4. SubSeq(a.entries, 1, n) = SubSeq(b.entries, 1, n)
  BY <1>1, <1>2, <1>3
<1> QED
  BY <1>1, <1>2, <1>4 DEF IsPrefix

\* A step inside one checkpoint: what does not change is not behind.
LEMMA FollowsStep ==
    ASSUME NEW a \in Checkpoints, NEW b \in Checkpoints, b.entries = a.entries,
           a.missing \subseteq b.missing,
           \/ b.done = a.done + 1
           \/ b.done = a.done /\ b.read >= a.read /\ (a.open => b.open)
    PROVE  Follows(a, b)
  BY CheckpointFields DEF Follows

\* A file that is done, with its entry.
LEMMA FollowsClose ==
    ASSUME NEW a \in Checkpoints, NEW b \in Checkpoints, NEW e \in Entries,
           b.entries = Append(a.entries, e), b.missing = a.missing, b.done = a.done + 1
    PROVE  Follows(a, b)
<1>1. PICK n \in Nat : n = Len(a.entries)
  BY CheckpointFields
<1>2. n <= Len(b.entries) /\ \A i \in 1 .. n : a.entries[i] = b.entries[i]
  BY <1>1, CheckpointFields
<1>3. b.done > a.done
  BY CheckpointFields
<1> QED
  BY <1>1, <1>2, <1>3 DEF Follows

-----------------------------------------------------------------------------
(* Workers *)

LEMMA WorkerFields ==
    ASSUME NEW me \in WorkerRecords
    PROVE  /\ me.at \in Places /\ me.attempt \in Attempts /\ me.attempt \in Nat
           /\ me.cp \in Checkpoints /\ me.buf \in Pieces /\ me.first \in BOOLEAN
           /\ me.outcome \in Outcomes /\ me.created \in SUBSET Names /\ me.obsolete \in SUBSET Names
<1>1. /\ me.at \in Places /\ me.attempt \in Attempts
      /\ me.cp \in Checkpoints /\ me.buf \in Pieces /\ me.first \in BOOLEAN
      /\ me.outcome \in Outcomes /\ me.created \in SUBSET Names /\ me.obsolete \in SUBSET Names
  BY DEF WorkerRecords
<1> QED
  BY <1>1, Limits DEF Attempts

\* The fields of the row of a job.
LEMMA JobFields ==
    ASSUME NEW j \in JobRecords
    PROVE  /\ j.state \in States /\ j.cp \in Checkpoints /\ j.attempt \in Attempts
           /\ j.attempt \in Nat /\ j.lease \in Leases /\ j.patience \in Patience
           /\ j.left \in Days /\ j.left \in Nat /\ j.zip \in Names \cup {<<>>}
           /\ j.cleaned \in BOOLEAN
<1>1. /\ j.state \in States /\ j.cp \in Checkpoints /\ j.attempt \in Attempts
      /\ j.lease \in Leases /\ j.patience \in Patience
      /\ j.left \in Days /\ j.zip \in Names \cup {<<>>} /\ j.cleaned \in BOOLEAN
  BY DEF JobRecords
<1> QED
  BY <1>1, Limits DEF Attempts, Days

\* A chain consists of names.
LEMMA ChainNames ==
    ASSUME NEW cp \in Checkpoints
    PROVE  ToSet(cp.chain) \in SUBSET Names
<1>1. cp.chain \in Seq(Names)
  BY CheckpointFields DEF Chains
<1> QED
  BY <1>1 DEF ToSet

\* The first checkpoint.
LEMMA NewFields ==
    /\ NewCheckpoint \in Checkpoints /\ NewCheckpoint.chain = <<>> /\ NewCheckpoint.entries = <<>>
    /\ NewCheckpoint.missing = {} /\ ~ NewCheckpoint.open /\ NewCheckpoint.written = 0
    /\ NewCheckpoint.read = 0 /\ NewCheckpoint.done = 0
<1>1. /\ 0 \in Done /\ <<>> \in Chains /\ <<>> \in Seq(Entries) /\ {} \in SUBSET Files
  BY Numbered DEF Done, Chains
<1> QED
  BY <1>1 DEF NewCheckpoint, Checkpoints

\* A worker that is not in a step.
LEMMA IdleFields ==
    /\ Idle \in WorkerRecords /\ Idle.at = "idle" /\ Idle.attempt = 0 /\ Idle.cp = NewCheckpoint
    /\ Idle.buf = <<>> /\ Idle.outcome = "building" /\ Idle.created = {} /\ Idle.obsolete = {}
<1>1. "idle" \in Places /\ 0 \in Attempts /\ <<>> \in Pieces /\ "building" \in Outcomes
      /\ {} \in SUBSET Names
  BY Limits DEF Places, Attempts, Pieces, Outcomes
<1> QED
  BY <1>1, NewFields DEF Idle, WorkerRecords

\* A worker that has committed, or never claimed.
LEMMA OwnAside ==
    ASSUME NEW me, me.at \in {"idle", "giveup", "sweep"}, me.cp = NewCheckpoint,
           me.created = {}, me.at # "sweep" => me.obsolete = {}, me.outcome = "building"
    PROVE  Own(me) /\ ~ Working(me)
<1>1. Bounded(me.cp) /\ ToSet(me.cp.chain) = {}
  BY NewFields DEF Bounded, ToSet
<1> QED
  BY <1>1 DEF Own, Working

Aside(at, attempt) == [Idle EXCEPT !.at = at, !.attempt = attempt]
\* A worker after an exception.
LEMMA AsideFields ==
    ASSUME NEW at \in Places, NEW attempt \in Attempts, NEW me, me = Aside(at, attempt)
    PROVE  /\ me \in WorkerRecords /\ me.at = at /\ me.attempt = attempt /\ me.cp = NewCheckpoint
           /\ me.buf = <<>> /\ me.outcome = "building" /\ me.created = {} /\ me.obsolete = {}
<1>1. me \in WorkerRecords
  BY IdleFields DEF Aside, WorkerRecords
<1> QED
  BY <1>1, IdleFields DEF Aside, WorkerRecords

Swiper(attempt, names) == [Idle EXCEPT !.at = "sweep", !.attempt = attempt, !.obsolete = names]
\* A worker after a commit.
LEMMA SwiperFields ==
    ASSUME NEW attempt \in Attempts, NEW names \in SUBSET Names, NEW me, me = Swiper(attempt, names)
    PROVE  /\ me \in WorkerRecords /\ me.at = "sweep" /\ me.attempt = attempt
           /\ me.cp = NewCheckpoint /\ me.buf = <<>> /\ me.outcome = "building"
           /\ me.created = {} /\ me.obsolete = names
<1>1. "sweep" \in Places
  BY DEF Places
<1>2. me \in WorkerRecords
  BY <1>1, IdleFields DEF Swiper, WorkerRecords
<1> QED
  BY <1>2, IdleFields DEF Swiper, WorkerRecords

\* The request w goes on as "me": the others are as before.
LEMMA Becomes ==
    ASSUME workers \in [Workers -> WorkerRecords], NEW w \in Workers, NEW me \in WorkerRecords,
           Become(w, me)
    PROVE  /\ workers' \in [Workers -> WorkerRecords] /\ workers'[w] = me
           /\ \A v \in Workers : v # w => workers'[v] = workers[v]
  BY DEF Become

-----------------------------------------------------------------------------
(* What changes of the storage leave alone *)

LEMMA HolderKeeps ==
    ASSUME NEW m, NEW j, NEW st, NEW later, NEW me \in WorkerRecords, Holder(m, j, st, me),
           \A n \in DOMAIN st : n \in ToSet(j.cp.chain) \/ n[3] = me.attempt =>
                                  n \in DOMAIN later /\ later[n] = st[n]
    PROVE  Holder(m, j, later, me)
<1>1. Keeps(st, later, ToSet(me.cp.chain))
  BY DEF Holder, Keeps
<1>2. ASSUME Sound(m, st, me.cp, me.buf)
      PROVE  Sound(m, later, me.cp, me.buf)
  BY <1>1, <1>2, SoundKeeps, WorkerFields
<1>3. me.at = "zip" => /\ EndName(me) \in DOMAIN later
                       /\ later[EndName(me)] = EndOf(m, me.cp)
  BY NamesDiffer DEF Holder
<1>4. me.at \in {"verify", "publish"} => /\ ZipName(me) \in DOMAIN later
                                         /\ later[ZipName(me)] = Progress(m, me.cp) \o EndOf(m, me.cp)
  BY NamesDiffer DEF Holder
<1> QED
  BY <1>2, <1>3, <1>4 DEF Holder

\* A store that keeps what the job refers to.
LEMMA JobKeeps ==
    ASSUME NEW m, NEW j \in JobRecords, NEW st, NEW later, JobSound(m, j, st),
           Keeps(st, later, Kept(j))
    PROVE  JobSound(m, j, later)
<1>1. CASE j.state = "building"
  <2>1. Keeps(st, later, ToSet(j.cp.chain))
    BY <1>1 DEF Keeps, Kept
  <2>2. Sound(m, later, j.cp, <<>>)
    BY <1>1, <2>1, SoundKeeps, JobFields DEF JobSound
  <2> QED
    BY <1>1, <2>2 DEF JobSound
<1>2. CASE j.state = "ready"
  <2>1. j.zip \in DOMAIN st => j.zip \in DOMAIN later /\ later[j.zip] = st[j.zip]
    BY <1>2 DEF Keeps, Kept
  <2> QED
    BY <1>2, <2>1 DEF JobSound
<1>3. CASE j.state \notin {"building", "ready"}
  BY <1>3 DEF JobSound
<1> QED
  BY <1>1, <1>2, <1>3

-----------------------------------------------------------------------------
(* Steps that leave the job alone *)

\* The object n is neither of the job nor of another worker.
Free(n, w) ==
    n \notin Kept(job) /\ \A v \in Workers : v # w /\ Working(workers[v]) => workers[v].attempt # n[3]

\* A worker goes on, and writes or deletes what is free.
LEMMA WorkerMoves ==
    ASSUME ZipInv, NEW w \in Workers, NEW me \in WorkerRecords, NEW later \in Stores,
           Become(w, me), store' = later, UNCHANGED <<manifest, sources, job, attempts, sweeping>>,
           Own(me), Holding(job, me) => Holder(manifest, job, later, me),
           me.at # "sweep", me.attempt <= attempts,
           me.at # "idle" => /\ workers[w].at # "idle" /\ me.attempt = workers[w].attempt
                             /\ me.attempt # 0,
           Working(me) => Working(workers[w]),
           \A n \in DOMAIN store : n \notin DOMAIN later \/ later[n] # store[n] => Free(n, w)
    PROVE  ZipInv'
<1>0. Typed
  BY DEF ZipInv
<1>1. /\ workers' \in [Workers -> WorkerRecords] /\ workers'[w] = me
      /\ \A v \in Workers : v # w => workers'[v] = workers[v]
  BY <1>0, Becomes DEF Typed
<1>2. Typed'
  BY <1>0, <1>1 DEF Typed
<1>3. \A n \in DOMAIN store : ~ Free(n, w) => n \in DOMAIN later /\ later[n] = store[n]
  OBVIOUS
<1>4. Workmen'
  <2>1. ASSUME NEW v \in Workers, v # w
        PROVE  /\ Own(workers[v])
               /\ Holding(job, workers[v]) => Holder(manifest, job, later, workers[v])
    <3>1. /\ Own(workers[v])
          /\ Holding(job, workers[v]) => Holder(manifest, job, store, workers[v])
      BY DEF ZipInv, Workmen
    <3>2. ASSUME Holding(job, workers[v])
          PROVE  Holder(manifest, job, later, workers[v])
      <4>1. \A n \in DOMAIN store : n \in ToSet(job.cp.chain) \/ n[3] = workers[v].attempt => ~ Free(n, w)
        BY <2>1, <3>2 DEF Free, Kept, Holding
      <4>2. \A n \in DOMAIN store : n \in ToSet(job.cp.chain) \/ n[3] = workers[v].attempt =>
                                      n \in DOMAIN later /\ later[n] = store[n]
        BY <1>3, <4>1
      <4>3. workers[v] \in WorkerRecords
        BY <1>0 DEF Typed
      <4> QED
        BY <3>1, <3>2, <4>2, <4>3, HolderKeeps
    <3> QED
      BY <3>1, <3>2
  <2> QED
    BY <1>1, <2>1 DEF Workmen
<1>5. JobSound(manifest, job, later)
  <2>1. Keeps(store, later, Kept(job))
    BY <1>3 DEF Keeps, Free
  <2>2. job \in JobRecords /\ JobSound(manifest, job, store)
    BY <1>0 DEF Typed, ZipInv
  <2> QED
    BY <2>1, <2>2, JobKeeps
<1>6. Numbers'
  <2>1. Numbers
    BY DEF ZipInv
  <2> QED
    BY <1>1, <2>1 DEF Numbers
<1>7. Apart'
  <2>1. Apart
    BY DEF ZipInv
  <2>2. \A n : Settled(n) => Settled(n)'
    <3>1. \A v \in Workers : Working(workers'[v]) =>
            Working(workers[v]) /\ workers'[v].attempt = workers[v].attempt
      BY <1>1 DEF Working
    <3> QED
      BY <3>1 DEF Settled
  <2>3. \A v \in Workers : Swept(workers'[v]) \subseteq Swept(workers[v])
    BY <1>1 DEF Swept
  <2> QED
    BY <2>1, <2>2, <2>3 DEF Apart
<1>8. Swiping'
  BY DEF ZipInv, Swiping
<1> QED
  BY <1>2, <1>4, <1>5, <1>6, <1>7, <1>8 DEF ZipInv

\* A worker goes on and the storage stays as it is.
LEMMA WorkerGoesOn ==
    ASSUME ZipInv, NEW w \in Workers, NEW me \in WorkerRecords,
           Become(w, me), UNCHANGED <<manifest, sources, job, attempts, store, sweeping>>,
           Own(me), Holding(job, me) => Holder(manifest, job, store, me),
           me.at # "sweep", me.attempt = workers[w].attempt, workers[w].at # "idle",
           Working(me) => Working(workers[w])
    PROVE  ZipInv'
<1>1. store \in Stores /\ me.attempt <= attempts /\ me.attempt # 0
  BY DEF ZipInv, Typed, Numbers
<1> QED
  BY <1>1, WorkerMoves

\* A worker ends, with or without another try of its claim.
LEMMA WorkerLeaves ==
    ASSUME ZipInv, NEW w \in Workers, NEW later \in Stores, store' = later,
           Leave(w) \/ (Raise(w) /\ workers[w].at # "idle"),
           UNCHANGED <<manifest, sources, job, attempts, sweeping>>,
           \A n \in DOMAIN store : n \notin DOMAIN later \/ later[n] # store[n] => Free(n, w)
    PROVE  ZipInv'
<1>1. attempts \in Nat /\ workers[w] \in WorkerRecords /\ workers[w].attempt \in Attempts
  BY WorkerFields, Limits DEF ZipInv, Typed, Attempts
<1>2. CASE Leave(w)
  <2>1. PICK me : me = Idle
    OBVIOUS
  <2>2. /\ me \in WorkerRecords /\ me.at = "idle" /\ me.attempt = 0 /\ me.cp = NewCheckpoint
        /\ me.outcome = "building" /\ me.created = {} /\ me.obsolete = {}
    BY <2>1, IdleFields
  <2>3. Own(me) /\ ~ Working(me)
    BY <2>2, OwnAside
  <2>4. Become(w, me)
    BY <1>2, <2>1 DEF Leave
  <2> QED
    BY <1>1, <2>2, <2>3, <2>4, WorkerMoves DEF Holding
<1>3. CASE Raise(w) /\ workers[w].at # "idle"
  <2>1. PICK me : me = Aside("giveup", workers[w].attempt)
    OBVIOUS
  <2>2. /\ me \in WorkerRecords /\ me.at = "giveup" /\ me.attempt = workers[w].attempt
        /\ me.cp = NewCheckpoint /\ me.outcome = "building" /\ me.created = {}
        /\ me.obsolete = {}
    BY <1>1, <2>1, AsideFields DEF Places
  <2>3. Own(me) /\ ~ Working(me)
    BY <2>2, OwnAside
  <2>4. Become(w, me)
    BY <1>3, <2>1 DEF Raise, Aside
  <2>5. workers[w].attempt <= attempts /\ workers[w].attempt # 0
    BY <1>3 DEF ZipInv, Numbers
  <2> QED
    BY <1>3, <2>2, <2>3, <2>4, <2>5, WorkerMoves DEF Holding
<1> QED
  BY <1>2, <1>3

\* The storage stays as it is.
LEMMA WorkerStops ==
    ASSUME ZipInv, NEW w \in Workers,
           Leave(w) \/ (Raise(w) /\ workers[w].at # "idle"),
           UNCHANGED <<manifest, sources, job, attempts, store, sweeping>>
    PROVE  ZipInv'
<1>1. store \in Stores
  BY DEF ZipInv, Typed
<1> QED
  BY <1>1, WorkerLeaves

\* A call fails, changing nothing.
LEMMA FailStep ==
    ASSUME ZipInv, NEW w \in Workers, Fail(w)
    PROVE  ZipInv'
<1>1. Raise(w) /\ workers[w].at # "idle"
  BY DEF Fail
<1> QED
  BY <1>1, WorkerStops DEF Fail

\* The server stops.
LEMMA CrashStep ==
    ASSUME ZipInv, NEW w \in Workers, Crash(w)
    PROVE  ZipInv'
  BY WorkerStops DEF Crash

-----------------------------------------------------------------------------
(* Steps of the loop over files and chunks *)

At(me, at) == [me EXCEPT !.at = at]
LEMMA AtFields ==
    ASSUME NEW me \in WorkerRecords, NEW at \in Places, NEW y, y = At(me, at)
    PROVE  /\ y \in WorkerRecords /\ y.at = at /\ y.attempt = me.attempt /\ y.cp = me.cp
           /\ y.buf = me.buf /\ y.outcome = me.outcome /\ y.created = me.created
           /\ y.obsolete = me.obsolete
<1>1. y \in WorkerRecords
  BY DEF At, WorkerRecords
<1> QED
  BY <1>1 DEF At, WorkerRecords

Going(me, at) == [me EXCEPT !.first = FALSE, !.at = at]
LEMMA GoingFields ==
    ASSUME NEW me \in WorkerRecords, NEW at \in Places, NEW y, y = Going(me, at)
    PROVE  /\ y \in WorkerRecords /\ y.at = at /\ y.attempt = me.attempt /\ y.cp = me.cp
           /\ y.buf = me.buf /\ y.outcome = me.outcome /\ y.created = me.created
           /\ y.obsolete = me.obsolete
<1>1. y \in WorkerRecords
  BY DEF Going, WorkerRecords
<1> QED
  BY <1>1 DEF Going, WorkerRecords

Skipping(me, cp, outcome, at) == [me EXCEPT !.cp = cp, !.first = FALSE, !.outcome = outcome, !.at = at]
LEMMA SkippingFields ==
    ASSUME NEW me \in WorkerRecords, NEW cp \in Checkpoints, NEW outcome \in Outcomes,
           NEW at \in Places, NEW y, y = Skipping(me, cp, outcome, at)
    PROVE  /\ y \in WorkerRecords /\ y.at = at /\ y.attempt = me.attempt /\ y.cp = cp
           /\ y.buf = me.buf /\ y.outcome = outcome /\ y.created = me.created
           /\ y.obsolete = me.obsolete
<1>1. y \in WorkerRecords
  BY DEF Skipping, WorkerRecords
<1> QED
  BY <1>1 DEF Skipping, WorkerRecords

Opening(me, cp, buf) == [me EXCEPT !.cp = cp, !.buf = buf, !.first = FALSE, !.at = "chunk"]
LEMMA OpeningFields ==
    ASSUME NEW me \in WorkerRecords, NEW cp \in Checkpoints, NEW buf \in Pieces,
           NEW y, y = Opening(me, cp, buf)
    PROVE  /\ y \in WorkerRecords /\ y.at = "chunk" /\ y.attempt = me.attempt /\ y.cp = cp
           /\ y.buf = buf /\ y.outcome = me.outcome /\ y.created = me.created
           /\ y.obsolete = me.obsolete
<1>1. "chunk" \in Places
  BY DEF Places
<1>2. y \in WorkerRecords
  BY <1>1 DEF Opening, WorkerRecords
<1> QED
  BY <1>2 DEF Opening, WorkerRecords

Failing(me, cp, outcome) == [me EXCEPT !.cp = cp, !.outcome = outcome, !.at = "write"]
LEMMA FailingFields ==
    ASSUME NEW me \in WorkerRecords, NEW cp \in Checkpoints, NEW outcome \in Outcomes,
           NEW y, y = Failing(me, cp, outcome)
    PROVE  /\ y \in WorkerRecords /\ y.at = "write" /\ y.attempt = me.attempt /\ y.cp = cp
           /\ y.buf = me.buf /\ y.outcome = outcome /\ y.created = me.created
           /\ y.obsolete = me.obsolete
<1>1. "write" \in Places
  BY DEF Places
<1>2. y \in WorkerRecords
  BY <1>1 DEF Failing, WorkerRecords
<1> QED
  BY <1>2 DEF Failing, WorkerRecords

Reading(me, cp, buf) == [me EXCEPT !.cp = cp, !.buf = buf, !.at = "loop"]
LEMMA ReadingFields ==
    ASSUME NEW me \in WorkerRecords, NEW cp \in Checkpoints, NEW buf \in Pieces,
           NEW y, y = Reading(me, cp, buf)
    PROVE  /\ y \in WorkerRecords /\ y.at = "loop" /\ y.attempt = me.attempt /\ y.cp = cp
           /\ y.buf = buf /\ y.outcome = me.outcome /\ y.created = me.created
           /\ y.obsolete = me.obsolete
<1>1. "loop" \in Places
  BY DEF Places
<1>2. y \in WorkerRecords
  BY <1>1 DEF Reading, WorkerRecords
<1> QED
  BY <1>2 DEF Reading, WorkerRecords

\* A worker of the loop goes on in it, or ends it.
LEMMA LoopGoesOn ==
    ASSUME NEW m, NEW j \in JobRecords, NEW st, NEW me \in WorkerRecords, NEW y \in WorkerRecords,
           Own(me), Holding(j, me) => Holder(m, j, st, me),
           me.at \in {"loop", "chunk"}, y.at \in {"loop", "chunk", "write"},
           y.attempt = me.attempt, y.created = me.created, y.obsolete = me.obsolete,
           y.cp.chain = me.cp.chain, Bounded(y.cp), y.at = "chunk" => y.cp.open, Follows(me.cp, y.cp),
           y.outcome # "ready",
           y.at # "write" => y.outcome = me.outcome,
           y.outcome = "building" =>
             me.outcome = "building" /\ (Sound(m, st, me.cp, me.buf) => Sound(m, st, y.cp, y.buf))
    PROVE  Own(y) /\ (Holding(j, y) => Holder(m, j, st, y))
<1>1. Own(y)
  BY DEF Own, Working
<1>2. ASSUME Holding(j, y)
      PROVE  Holder(m, j, st, y)
  <2>1. Holding(j, me)
    BY <1>2 DEF Holding, Working
  <2>2. Holder(m, j, st, me)
    BY <2>1
  <2>3. me.outcome = "building" /\ Sound(m, st, me.cp, me.buf)
    BY <2>2 DEF Holder
  <2>4. Follows(j.cp, y.cp)
    BY <2>2, FollowsTransitive, WorkerFields, JobFields DEF Holder
  <2>5. \A n \in ToSet(y.cp.chain) : n \in ToSet(j.cp.chain)
    BY <2>2 DEF Holder
  <2>6. y.obsolete = {}
    BY DEF Own
  <2>7. y.at \notin {"write", "commit", "publish"} => y.outcome = "building"
    BY <2>3
  <2>8. y.outcome = "building" => Sound(m, st, y.cp, y.buf)
    BY <2>3
  <2> QED
    BY <2>4, <2>5, <2>6, <2>7, <2>8 DEF Holder
<1> QED
  BY <1>1, <1>2

\* ... in the specification.
LEMMA LoopStep ==
    ASSUME ZipInv, NEW w \in Workers, NEW y \in WorkerRecords, Become(w, y),
           UNCHANGED <<manifest, sources, job, attempts, store, sweeping>>,
           workers[w].at \in {"loop", "chunk"}, y.at \in {"loop", "chunk", "write"},
           y.attempt = workers[w].attempt, y.created = workers[w].created,
           y.obsolete = workers[w].obsolete, y.cp.chain = workers[w].cp.chain,
           Bounded(y.cp), y.at = "chunk" => y.cp.open, Follows(workers[w].cp, y.cp), y.outcome # "ready",
           y.at # "write" => y.outcome = workers[w].outcome,
           y.outcome = "building" =>
             /\ workers[w].outcome = "building"
             /\ Sound(manifest, store, workers[w].cp, workers[w].buf) => Sound(manifest, store, y.cp, y.buf)
    PROVE  ZipInv'
<1>1. /\ workers[w] \in WorkerRecords /\ job \in JobRecords /\ Own(workers[w])
      /\ Holding(job, workers[w]) => Holder(manifest, job, store, workers[w])
  BY DEF ZipInv, Typed, Workmen
<1>2. PICK me : me = workers[w]
  OBVIOUS
<1>3. Own(y) /\ (Holding(job, y) => Holder(manifest, job, store, y))
  BY <1>1, <1>2, LoopGoesOn
<1>4. y.at # "sweep" /\ workers[w].at # "idle" /\ Working(workers[w])
  BY DEF Working
<1> QED
  BY <1>3, <1>4, WorkerGoesOn

\* The new checkpoints.
SkippedCp(cp, f) == [cp EXCEPT !.missing = cp.missing \cup {f}, !.done = f]
LEMMA SkippedCpFields ==
    ASSUME NEW cp \in Checkpoints, NEW f \in Files, NEW b, b = SkippedCp(cp, f)
    PROVE  /\ b \in Checkpoints /\ b.done = f /\ b.open = cp.open /\ b.read = cp.read
           /\ b.start = cp.start /\ b.written = cp.written /\ b.chain = cp.chain
           /\ b.entries = cp.entries /\ b.missing = cp.missing \cup {f}
<1>1. f \in Done /\ cp.missing \cup {f} \in SUBSET Files
  BY CheckpointFields, Numbered DEF Done
<1>2. b \in Checkpoints
  BY <1>1 DEF SkippedCp, Checkpoints
<1> QED
  BY <1>2 DEF SkippedCp, Checkpoints

OpenedCp(cp, start) == [cp EXCEPT !.open = TRUE, !.read = 0, !.start = start]
LEMMA OpenedCpFields ==
    ASSUME NEW cp \in Checkpoints, NEW start \in Nat, NEW b, b = OpenedCp(cp, start)
    PROVE  /\ b \in Checkpoints /\ b.done = cp.done /\ b.open /\ b.read = 0
           /\ b.start = start /\ b.written = cp.written /\ b.chain = cp.chain
           /\ b.entries = cp.entries /\ b.missing = cp.missing
<1>1. b \in Checkpoints
  BY DEF OpenedCp, Checkpoints
<1> QED
  BY <1>1 DEF OpenedCp, Checkpoints

MissedCp(cp, f) == [cp EXCEPT !.missing = cp.missing \cup {f}]
LEMMA MissedCpFields ==
    ASSUME NEW cp \in Checkpoints, NEW f \in Files, NEW b, b = MissedCp(cp, f)
    PROVE  /\ b \in Checkpoints /\ b.done = cp.done /\ b.open = cp.open /\ b.read = cp.read
           /\ b.start = cp.start /\ b.written = cp.written /\ b.chain = cp.chain
           /\ b.entries = cp.entries /\ b.missing = cp.missing \cup {f}
<1>1. cp.missing \cup {f} \in SUBSET Files
  BY CheckpointFields
<1>2. b \in Checkpoints
  BY <1>1 DEF MissedCp, Checkpoints
<1> QED
  BY <1>2 DEF MissedCp, Checkpoints

ReadCp(cp, read) == [cp EXCEPT !.read = read]
LEMMA ReadCpFields ==
    ASSUME NEW cp \in Checkpoints, NEW read \in Nat, NEW b, b = ReadCp(cp, read)
    PROVE  /\ b \in Checkpoints /\ b.done = cp.done /\ b.open = cp.open /\ b.read = read
           /\ b.start = cp.start /\ b.written = cp.written /\ b.chain = cp.chain
           /\ b.entries = cp.entries /\ b.missing = cp.missing
<1>1. b \in Checkpoints
  BY DEF ReadCp, Checkpoints
<1> QED
  BY <1>1 DEF ReadCp, Checkpoints

ClosedCp(cp, f, e) == [cp EXCEPT !.done = f, !.open = FALSE, !.read = 0, !.start = 0,
                                 !.entries = Append(cp.entries, e)]
LEMMA ClosedCpFields ==
    ASSUME NEW cp \in Checkpoints, NEW f \in Files, NEW e \in Entries, NEW b,
           b = ClosedCp(cp, f, e)
    PROVE  /\ b \in Checkpoints /\ b.done = f /\ ~ b.open /\ b.read = 0
           /\ b.start = 0 /\ b.written = cp.written /\ b.chain = cp.chain
           /\ b.entries = Append(cp.entries, e) /\ b.missing = cp.missing
<1>1. f \in Done /\ Append(cp.entries, e) \in Seq(Entries)
  BY CheckpointFields, Numbered DEF Done
<1>2. b \in Checkpoints
  BY <1>1 DEF ClosedCp, Checkpoints
<1> QED
  BY <1>2 DEF ClosedCp, Checkpoints

-----------------------------------------------------------------------------
(* The actions of the loop *)

\* What the invariant says of a worker in the loop.
LEMMA InLoop ==
    ASSUME ZipInv, NEW w \in Workers, NEW me, me = workers[w]
    PROVE  /\ manifest \in Manifests /\ store \in Stores /\ job \in JobRecords
           /\ me \in WorkerRecords /\ me.cp \in Checkpoints /\ me.buf \in Pieces
           /\ Own(me) /\ Bounded(me.cp)
  BY WorkerFields DEF ZipInv, Typed, Workmen, Own

\* An iteration begins inside a file, or reading ends.
LEMMA ResumeStep ==
    ASSUME ZipInv, NEW w \in Workers, Resume(w) \/ StopReading(w)
    PROVE  ZipInv'
<1>1. PICK me : me = workers[w]
  OBVIOUS
<1>2. PICK y : Become(w, y) /\ (\/ (y = Going(me, "chunk") /\ me.cp.open) \/ y = At(me, "write"))
  BY <1>1 DEF Resume, StopReading, Step, Going, At
<1>3. me \in WorkerRecords /\ me.cp \in Checkpoints /\ Own(me) /\ Bounded(me.cp)
  BY <1>1, InLoop
<1>4. /\ y \in WorkerRecords /\ y.at \in {"chunk", "write"} /\ y.attempt = me.attempt
      /\ (y.at = "chunk" => me.cp.open)
      /\ y.cp = me.cp /\ y.buf = me.buf /\ y.outcome = me.outcome /\ y.created = me.created
      /\ y.obsolete = me.obsolete
  BY <1>2, <1>3, GoingFields, AtFields DEF Places
<1>5. me.at = "loop" /\ UNCHANGED <<manifest, sources, job, attempts, store, sweeping>>
  BY <1>1 DEF Resume, StopReading
<1>6. Follows(me.cp, y.cp) /\ y.outcome # "ready"
  BY <1>3, <1>4, <1>5, FollowsSelf DEF Own
<1> QED
  BY <1>1, <1>2, <1>3, <1>4, <1>5, <1>6, LoopStep

\* A file that is gone is noted.
LEMMA SkipStep ==
    ASSUME ZipInv, NEW w \in Workers, Skip(w)
    PROVE  ZipInv'
<1>1. PICK me : me = workers[w]
  OBVIOUS
<1>2. me.at = "loop" /\ me.cp.done < N /\ ~ me.cp.open
      /\ UNCHANGED <<manifest, sources, job, attempts, store, sweeping>>
  BY <1>1 DEF Skip, NextFile
<1>3. /\ manifest \in Manifests /\ me \in WorkerRecords /\ me.cp \in Checkpoints /\ Own(me)
      /\ Bounded(me.cp)
  BY <1>1, InLoop
<1>4. PICK f \in Files : f = me.cp.done + 1
  BY <1>2, <1>3, CheckpointFields, Numbered
<1>5. PICK cp : cp = SkippedCp(me.cp, f)
  OBVIOUS
<1>6. PICK outcome : outcome = IF manifest.partial THEN me.outcome ELSE "incomplete"
  OBVIOUS
<1>7. PICK at : at = IF manifest.partial THEN "loop" ELSE "write"
  OBVIOUS
<1>8. PICK y : y = Skipping(me, cp, outcome, at)
  OBVIOUS
<1>9. Become(w, y)
  BY <1>1, <1>4, <1>5, <1>6, <1>7, <1>8 DEF Skip, SkippedCp, Skipping
<1>10. outcome \in Outcomes /\ at \in Places /\ at \in {"loop", "write"}
  BY <1>3, <1>6, <1>7, WorkerFields DEF Outcomes, Places
<1>11. /\ cp \in Checkpoints /\ cp.done = f /\ cp.open = me.cp.open /\ cp.read = me.cp.read
       /\ cp.start = me.cp.start /\ cp.written = me.cp.written /\ cp.chain = me.cp.chain
       /\ cp.entries = me.cp.entries /\ cp.missing = me.cp.missing \cup {f}
  BY <1>3, <1>5, SkippedCpFields
<1>12. /\ y \in WorkerRecords /\ y.at = at /\ y.attempt = me.attempt /\ y.cp = cp
       /\ y.buf = me.buf /\ y.outcome = outcome /\ y.created = me.created
       /\ y.obsolete = me.obsolete
  BY <1>3, <1>8, <1>10, <1>11, SkippingFields
<1>13. Bounded(cp) /\ Follows(me.cp, cp)
  BY <1>2, <1>3, <1>4, <1>11, FollowsStep DEF Bounded
<1>14. outcome # "ready" /\ (outcome = "building" => manifest.partial /\ me.outcome = "building")
  BY <1>2, <1>3, <1>6 DEF Own
<1>15. at # "write" => outcome = me.outcome
  BY <1>6, <1>7
<1>16. ASSUME manifest.partial, Sound(manifest, store, me.cp, me.buf)
       PROVE  Sound(manifest, store, cp, me.buf)
  <2>1. Listed(manifest, cp)
    BY <1>2, <1>3, <1>4, <1>11, <1>16, ListedSkip DEF Sound
  <2>2. Progress(manifest, cp) = Progress(manifest, me.cp)
    BY <1>2, <1>11, ProgressSame
  <2> QED
    BY <1>11, <1>16, <2>1, <2>2, SoundSame
<1> QED
  BY <1>1, <1>2, <1>9, <1>10, <1>11, <1>12, <1>13, <1>14, <1>15, <1>16, LoopStep

\* The next file is opened.
LEMMA OpenStep ==
    ASSUME ZipInv, NEW w \in Workers, Open(w)
    PROVE  ZipInv'
<1>1. PICK me : me = workers[w]
  OBVIOUS
<1>2. me.at = "loop" /\ me.cp.done < N /\ ~ me.cp.open
      /\ UNCHANGED <<manifest, sources, job, attempts, store, sweeping>>
  BY <1>1 DEF Open, NextFile
<1>3. /\ manifest \in Manifests /\ me \in WorkerRecords /\ me.cp \in Checkpoints /\ Own(me)
      /\ Bounded(me.cp) /\ me.buf \in Pieces /\ store \in Stores
  BY <1>1, InLoop
<1>4. PICK f \in Files : f = me.cp.done + 1
  BY <1>2, <1>3, CheckpointFields, Numbered
<1>5. PICK start \in Nat : start = me.cp.written + Len(me.buf)
  BY <1>3, CheckpointFields DEF Pieces
<1>6. PICK cp : cp = OpenedCp(me.cp, start)
  OBVIOUS
<1>7. PICK buf \in Pieces : buf = Append(me.buf, Header(f))
  <2>1. Header(f) \in Records
    BY RecordKinds
  <2>2. me.buf \in Pieces
    BY <1>3
  <2> QED
    BY <2>1, <2>2, OneMore
<1>8. PICK y : y = Opening(me, cp, buf)
  OBVIOUS
<1>9. Become(w, y)
  BY <1>1, <1>4, <1>5, <1>6, <1>7, <1>8 DEF Open, Offset, OpenedCp, Opening
<1>11. /\ cp \in Checkpoints /\ cp.done = me.cp.done /\ cp.open /\ cp.read = 0
       /\ cp.start = start /\ cp.written = me.cp.written /\ cp.chain = me.cp.chain
       /\ cp.entries = me.cp.entries /\ cp.missing = me.cp.missing
  BY <1>3, <1>6, OpenedCpFields
<1>12. /\ y \in WorkerRecords /\ y.at = "chunk" /\ y.attempt = me.attempt /\ y.cp = cp
       /\ y.buf = buf /\ y.outcome = me.outcome /\ y.created = me.created
       /\ y.obsolete = me.obsolete
  <2>1. me \in WorkerRecords /\ cp \in Checkpoints /\ buf \in Pieces
    BY <1>3, <1>8, <1>11
  <2> QED
    BY <1>8, <2>1, OpeningFields
<1>13. Bounded(cp)
  BY <1>2, <1>11 DEF Bounded
<1>14. Follows(me.cp, cp)
  <2>1. me.cp.read = 0
    BY <1>2, <1>3 DEF Bounded
  <2> QED
    BY <1>3, <1>11, <2>1, FollowsStep
<1>15. me.outcome # "ready"
  BY <1>2, <1>3 DEF Own
<1>16. ASSUME Sound(manifest, store, me.cp, me.buf)
       PROVE  Sound(manifest, store, cp, buf)
  <2>1. start = Len(Progress(manifest, me.cp))
    BY <1>3, <1>5, <1>16, SoundOffset
  <2>2. Listed(manifest, cp)
    BY <1>2, <1>3, <1>11, <1>16, <2>1, ListedOpen DEF Sound
  <2>3. Progress(manifest, cp) = Append(Progress(manifest, me.cp), Header(f))
    BY <1>2, <1>3, <1>4, <1>11, ProgressOpen
  <2>4. Header(f) \in Records
    BY RecordKinds
  <2> QED
    BY <1>3, <1>7, <1>11, <1>16, <2>2, <2>3, <2>4, SoundGrow
<1>17. /\ y.cp.chain = workers[w].cp.chain /\ Bounded(y.cp) /\ y.cp.open /\ Follows(workers[w].cp, y.cp)
       /\ Sound(manifest, store, workers[w].cp, workers[w].buf) => Sound(manifest, store, y.cp, y.buf)
  BY <1>1, <1>11, <1>12, <1>13, <1>14, <1>16
<1>18. /\ y.attempt = workers[w].attempt /\ y.created = workers[w].created
       /\ y.obsolete = workers[w].obsolete /\ y.outcome = workers[w].outcome
       /\ y.outcome # "ready" /\ y.at = "chunk" /\ y \in WorkerRecords
  BY <1>1, <1>12, <1>15
<1> QED
  BY <1>1, <1>2, <1>9, <1>17, <1>18, LoopStep

\* The rest of an iteration, with the names of the action.
ChunkMoves(w, me, f, read, buf, y) ==
    /\ me.at = "chunk" /\ Become(w, y)
    /\ UNCHANGED <<manifest, sources, job, attempts, store, sweeping>>
    /\ \/ me.cp.read < manifest.size[f] /\ read = me.cp.read + 1
                                        /\ buf = Append(me.buf, Data(f, read))
       \/ ~ (me.cp.read < manifest.size[f]) /\ read = me.cp.read /\ buf = me.buf
    /\ \/ y = Failing(me, MissedCp(me.cp, f), IF manifest.partial THEN "failed" ELSE "incomplete")
       \/ y = Failing(me, ReadCp(me.cp, read), "failed")
       \/ read < manifest.size[f] /\ y = Reading(me, ReadCp(me.cp, read), buf)
       \/ /\ read = manifest.size[f]
          /\ y = Reading(me, ClosedCp(me.cp, f, [file |-> f, offset |-> me.cp.start]),
                         Append(buf, Descriptor(f)))

\* ReadChunk is one of these moves.
LEMMA ChunkCases ==
    ASSUME NEW w \in Workers, ReadChunk(w), NEW me, me = workers[w], NEW f, f = me.cp.done + 1
    PROVE  \E read, buf, y :
             ChunkMoves(w, me, f, read, buf, y)
<1> DEFINE more == me.cp.read < manifest.size[f]
           read == IF more THEN me.cp.read + 1 ELSE me.cp.read
           buf  == IF more THEN Append(me.buf, Data(f, read)) ELSE me.buf
<1>1. /\ me.at = "chunk"
      /\ UNCHANGED <<manifest, sources, job, attempts, store, sweeping>>
  BY DEF ReadChunk
<1>2. \/ more /\ read = me.cp.read + 1 /\ buf = Append(me.buf, Data(f, read))
      \/ ~ more /\ read = me.cp.read /\ buf = me.buf
  OBVIOUS
<1>3. \/ Become(w, Failing(me, MissedCp(me.cp, f), IF manifest.partial THEN "failed" ELSE "incomplete"))
      \/ Become(w, Failing(me, ReadCp(me.cp, read), "failed"))
      \/ read < manifest.size[f] /\ Become(w, Reading(me, ReadCp(me.cp, read), buf))
      \/ /\ read = manifest.size[f]
         /\ Become(w, Reading(me, ClosedCp(me.cp, f, [file |-> f, offset |-> me.cp.start]),
                              Append(buf, Descriptor(f))))
  BY ZenonT(60) DEF ReadChunk, Failing, MissedCp, ReadCp, Reading, ClosedCp
<1>4. PICK y :
        /\ Become(w, y)
        /\ \/ y = Failing(me, MissedCp(me.cp, f), IF manifest.partial THEN "failed" ELSE "incomplete")
           \/ y = Failing(me, ReadCp(me.cp, read), "failed")
           \/ read < manifest.size[f] /\ y = Reading(me, ReadCp(me.cp, read), buf)
           \/ /\ read = manifest.size[f]
              /\ y = Reading(me, ClosedCp(me.cp, f, [file |-> f, offset |-> me.cp.start]),
                             Append(buf, Descriptor(f)))
  <2> HIDE DEF read, buf
  <2> QED
    BY <1>3, ZenonT(60)
<1> HIDE DEF read, buf
<1>5. ChunkMoves(w, me, f, read, buf, y)
  BY <1>1, <1>2, <1>4, ZenonT(60) DEF ChunkMoves
<1> QED
  BY <1>5

\* A chunk is read: the file is gone, the ZIP too large, the file goes on or is done.
LEMMA ChunkStep ==
    ASSUME ZipInv, NEW w \in Workers, ReadChunk(w)
    PROVE  ZipInv'
<1>1. PICK me : me = workers[w]
  OBVIOUS
<1>2. /\ manifest \in Manifests /\ me \in WorkerRecords /\ me.cp \in Checkpoints /\ Own(me)
      /\ Bounded(me.cp) /\ me.buf \in Pieces /\ store \in Stores
  BY <1>1, InLoop
<1>3. PICK f : f = me.cp.done + 1
  OBVIOUS
<1>3a. PICK read, buf, y : ChunkMoves(w, me, f, read, buf, y)
  BY <1>1, <1>3, ChunkCases
<1>4. /\ me.at = "chunk" /\ Become(w, y)
      /\ UNCHANGED <<manifest, sources, job, attempts, store, sweeping>>
      /\ \/ me.cp.read < manifest.size[f] /\ read = me.cp.read + 1
                                          /\ buf = Append(me.buf, Data(f, read))
         \/ ~ (me.cp.read < manifest.size[f]) /\ read = me.cp.read /\ buf = me.buf
      /\ \/ y = Failing(me, MissedCp(me.cp, f), IF manifest.partial THEN "failed" ELSE "incomplete")
         \/ y = Failing(me, ReadCp(me.cp, read), "failed")
         \/ read < manifest.size[f] /\ y = Reading(me, ReadCp(me.cp, read), buf)
         \/ /\ read = manifest.size[f]
            /\ y = Reading(me, ClosedCp(me.cp, f, [file |-> f, offset |-> me.cp.start]),
                           Append(buf, Descriptor(f)))
  BY <1>3a DEF ChunkMoves
<1>5. me.cp.open /\ me.cp.done < N /\ f \in Files
  BY <1>2, <1>3, <1>4, CheckpointFields, Numbered DEF Own, Bounded
<1>6. read \in Nat /\ read >= me.cp.read
  BY <1>2, <1>4, CheckpointFields
\* The checkpoint with the chunk, if one was left.
<1>7. PICK b : b = ReadCp(me.cp, read)
  OBVIOUS
<1>8. /\ b \in Checkpoints /\ b.done = me.cp.done /\ b.open = me.cp.open /\ b.read = read
      /\ b.start = me.cp.start /\ b.written = me.cp.written /\ b.chain = me.cp.chain
      /\ b.entries = me.cp.entries /\ b.missing = me.cp.missing
  BY <1>2, <1>6, <1>7, ReadCpFields
<1>9. Bounded(b) /\ Follows(me.cp, b)
  BY <1>2, <1>5, <1>6, <1>8, FollowsStep DEF Bounded
<1>10. buf \in Pieces
  <2>1. CASE buf = me.buf
    BY <1>2, <2>1
  <2>2. CASE buf = Append(me.buf, Data(f, read))
    <3>1. Data(f, read) \in Records
      BY <1>5, <1>6, RecordKinds
    <3> QED
      BY <1>2, <2>2, <3>1, OneMore
  <2> QED
    BY <1>4, <2>1, <2>2
<1>11. ASSUME Sound(manifest, store, me.cp, me.buf)
       PROVE  Sound(manifest, store, b, buf)
  <2>1. CASE read = me.cp.read + 1 /\ buf = Append(me.buf, Data(f, read))
    <3>1. Listed(manifest, b)
      BY <1>2, <1>5, <1>8, <1>11, <2>1, ListedRead DEF Sound
    <3>2. Progress(manifest, b) = Append(Progress(manifest, me.cp), Data(f, read))
      BY <1>2, <1>3, <1>5, <1>8, <2>1, ProgressRead
    <3>3. Data(f, read) \in Records
      BY <1>5, <1>6, RecordKinds
    <3> QED
      BY <1>2, <1>8, <1>11, <2>1, <3>1, <3>2, <3>3, SoundGrow
  <2>2. CASE read = me.cp.read /\ buf = me.buf
    <3>1. Progress(manifest, b) = Progress(manifest, me.cp) /\ Listed(manifest, b)
      BY <1>8, <1>11, <2>2, ListedSame DEF Sound
    <3> QED
      BY <1>8, <1>11, <2>2, <3>1, SoundSame
  <2> QED
    BY <1>4, <2>1, <2>2
<1>12. me.outcome # "ready"
  BY <1>2, <1>4 DEF Own
<1>13. CASE y = Failing(me, MissedCp(me.cp, f), IF manifest.partial THEN "failed" ELSE "incomplete")
  <2>1. PICK outcome : outcome = IF manifest.partial THEN "failed" ELSE "incomplete"
    OBVIOUS
  <2>2. outcome \in Outcomes /\ outcome # "ready" /\ outcome # "building"
    BY <2>1 DEF Outcomes
  <2>3. PICK cp : cp = MissedCp(me.cp, f)
    OBVIOUS
  <2>4. /\ cp \in Checkpoints /\ cp.done = me.cp.done /\ cp.open = me.cp.open
        /\ cp.read = me.cp.read /\ cp.chain = me.cp.chain
        /\ cp.entries = me.cp.entries /\ cp.missing = me.cp.missing \cup {f}
    <3>1. me.cp \in Checkpoints /\ f \in Files
      BY <1>2, <1>5
    <3> QED
      BY <2>3, <3>1, MissedCpFields
  <2>5. Bounded(cp) /\ Follows(me.cp, cp)
    <3>1. me.cp \in Checkpoints /\ me.cp.done \in Nat /\ me.cp.read \in Nat
      BY <1>2, CheckpointFields
    <3>2. Follows(me.cp, cp)
      BY <2>4, <3>1, FollowsStep
    <3> QED
      BY <1>5, <2>4, <3>2 DEF Bounded
  <2>6. /\ y \in WorkerRecords /\ y.at = "write" /\ y.attempt = me.attempt /\ y.cp = cp
        /\ y.outcome = outcome /\ y.created = me.created
        /\ y.obsolete = me.obsolete
    BY <1>2, <1>13, <2>1, <2>2, <2>3, <2>4, FailingFields
  <2>7. y.cp.chain = me.cp.chain /\ Bounded(y.cp) /\ Follows(me.cp, y.cp)
        /\ y.outcome # "ready" /\ y.outcome # "building"
    BY <2>2, <2>4, <2>5, <2>6
  <2> QED
    BY <1>1, <1>4, <2>6, <2>7, LoopStep
<1>14. CASE y = Failing(me, ReadCp(me.cp, read), "failed")
  <2>1. "failed" \in Outcomes
    BY DEF Outcomes
  <2>2. /\ y \in WorkerRecords /\ y.at = "write" /\ y.attempt = me.attempt /\ y.cp = b
        /\ y.outcome = "failed" /\ y.created = me.created
        /\ y.obsolete = me.obsolete
    BY <1>2, <1>7, <1>8, <1>14, <2>1, FailingFields
  <2>3. y.cp.chain = me.cp.chain /\ Bounded(y.cp) /\ Follows(me.cp, y.cp)
    BY <1>8, <1>9, <2>2
  <2> QED
    BY <1>1, <1>4, <2>2, <2>3, LoopStep, SMTT(40)
<1>15. CASE read < manifest.size[f] /\ y = Reading(me, ReadCp(me.cp, read), buf)
  <2>1. /\ y \in WorkerRecords /\ y.at = "loop" /\ y.attempt = me.attempt /\ y.cp = b
        /\ y.buf = buf /\ y.outcome = me.outcome /\ y.created = me.created
        /\ y.obsolete = me.obsolete
    BY <1>2, <1>7, <1>8, <1>10, <1>15, ReadingFields, SMTT(40)
  <2>2. y.cp.chain = me.cp.chain /\ Bounded(y.cp) /\ Follows(me.cp, y.cp)
    BY <1>8, <1>9, <2>1
  <2>3. Sound(manifest, store, me.cp, me.buf) => Sound(manifest, store, y.cp, y.buf)
    BY <1>11, <2>1
  <2> QED
    BY <1>1, <1>4, <1>12, <2>1, <2>2, <2>3, LoopStep
<1>16. CASE /\ read = manifest.size[f]
            /\ y = Reading(me, ClosedCp(me.cp, f, [file |-> f, offset |-> me.cp.start]),
                           Append(buf, Descriptor(f)))
  <2>1. PICK e \in Entries : e = [file |-> f, offset |-> me.cp.start]
    BY <1>2, <1>5, CheckpointFields DEF Entries
  <2>2. e.file = f /\ e.offset = me.cp.start
    BY <2>1
  <2>3. PICK cp : cp = ClosedCp(me.cp, f, e)
    OBVIOUS
  <2>4. /\ cp \in Checkpoints /\ cp.done = f /\ ~ cp.open /\ cp.read = 0
        /\ cp.written = me.cp.written /\ cp.chain = me.cp.chain
        /\ cp.entries = Append(me.cp.entries, e) /\ cp.missing = me.cp.missing
    BY <1>2, <1>5, <2>3, ClosedCpFields
  <2>5. Bounded(cp) /\ Follows(me.cp, cp)
    BY <1>2, <1>3, <2>4, FollowsClose DEF Bounded
  <2>6. Descriptor(f) \in Records
    BY <1>5, RecordKinds
  <2>7. PICK more \in Pieces : more = Append(buf, Descriptor(f))
    BY <1>10, <2>6, OneMore
  <2>8. /\ y \in WorkerRecords /\ y.at = "loop" /\ y.attempt = me.attempt /\ y.cp = cp
        /\ y.buf = more /\ y.outcome = me.outcome /\ y.created = me.created
        /\ y.obsolete = me.obsolete
    <3>1. y = Reading(me, cp, more)
      BY <1>16, <2>1, <2>3, <2>7, Zenon
    <3>2. me \in WorkerRecords /\ cp \in Checkpoints
      BY <1>2, <2>4
    <3> QED
      BY <3>1, <3>2, ReadingFields
  <2>9. ASSUME Sound(manifest, store, me.cp, me.buf)
        PROVE  Sound(manifest, store, cp, more)
    <3>1. Sound(manifest, store, b, buf)
      BY <1>11, <2>9
    <3>2. b.open /\ b.done < N /\ b.read = manifest.size[b.done + 1] /\ f = b.done + 1
      BY <1>3, <1>5, <1>8, <1>16
    <3>3. /\ cp.entries = Append(b.entries, e) /\ e.offset = b.start /\ cp.missing = b.missing
          /\ cp.chain = b.chain /\ cp.written = b.written
      BY <1>8, <2>2, <2>4
    <3>4. Listed(manifest, cp)
      BY <1>2, <1>8, <1>9, <2>2, <2>4, <3>1, <3>2, <3>3, ListedClose DEF Sound
    <3>5. Progress(manifest, cp) = Append(Progress(manifest, b), Descriptor(f))
      BY <1>2, <1>8, <2>2, <2>4, <3>2, <3>3, ProgressClose
    <3> QED
      BY <1>2, <1>8, <1>10, <2>4, <2>6, <2>7, <3>1, <3>3, <3>4, <3>5, SoundGrow
  <2>10. y.cp.chain = me.cp.chain /\ Bounded(y.cp) /\ Follows(me.cp, y.cp)
    BY <2>4, <2>5, <2>8
  <2>11. Sound(manifest, store, me.cp, me.buf) => Sound(manifest, store, y.cp, y.buf)
    BY <2>8, <2>9
  <2> QED
    BY <1>1, <1>4, <1>12, <2>8, <2>10, <2>11, LoopStep
<1> QED
  BY <1>4, <1>13, <1>14, <1>15, <1>16

-----------------------------------------------------------------------------
(* Objects that are written and deleted *)

LEMMA Puts ==
    ASSUME store \in Stores, NEW name \in Names, NEW content \in Pieces, Put(name, content)
    PROVE  \E later \in Stores :
             /\ store' = later /\ name \in DOMAIN later /\ later[name] = content
             /\ \A n \in DOMAIN store : n # name => n \in DOMAIN later /\ later[n] = store[n]
<1>1. PICK later : later = [n \in DOMAIN store \cup {name} |-> IF n = name THEN content ELSE store[n]]
  OBVIOUS
<1>2. DOMAIN store \cup {name} \in SUBSET Names /\ \A n \in DOMAIN store : store[n] \in Pieces
  BY StoreFields
<1>3. later = [n \in DOMAIN store \cup {name} |-> later[n]]
  BY <1>1
<1>4. \A n \in DOMAIN store \cup {name} : later[n] \in Pieces
  BY <1>1, <1>2
<1>5. later \in Stores
  BY <1>2, <1>3, <1>4, StoreIs
<1> QED
  BY <1>1, <1>5 DEF Put

\* What a deletion leaves.
LEMMA Drops ==
    ASSUME store \in Stores, NEW names, DropObjects(names)
    PROVE  \E later \in Stores :
             /\ store' = later
             /\ \A n \in DOMAIN store : n \notin names => n \in DOMAIN later /\ later[n] = store[n]
<1>1. PICK later : later = [n \in DOMAIN store \ names |-> store[n]]
  OBVIOUS
<1>2. DOMAIN store \ names \in SUBSET Names /\ \A n \in DOMAIN store : store[n] \in Pieces
  BY StoreFields
<1>3. later = [n \in DOMAIN store \ names |-> later[n]]
  BY <1>1
<1>4. \A n \in DOMAIN store \ names : later[n] \in Pieces
  BY <1>1, <1>2
<1>5. later \in Stores
  BY <1>2, <1>3, <1>4, StoreIs
<1> QED
  BY <1>1, <1>5 DEF DropObjects

\* What an attempt that has not committed made is free.
LEMMA OwnNamesFree ==
    ASSUME ZipInv, NEW w \in Workers, Working(workers[w]), NEW n, n[3] = workers[w].attempt
    PROVE  Free(n, w)
<1>1. n \notin Kept(job)
  BY DEF ZipInv, Apart, Settled
<1>2. ASSUME NEW v \in Workers, v # w, Working(workers[v])
      PROVE  workers[v].attempt # n[3]
  BY <1>2 DEF ZipInv, Numbers, Working
<1> QED
  BY <1>1, <1>2 DEF Free

\* Loose ends of attempts: what they made in vain, and what they replaced.
LEMMA CommitLostStep ==
    ASSUME ZipInv, NEW w \in Workers, CommitLost(w)
    PROVE  ZipInv'
<1>1. Working(workers[w]) /\ Leave(w) /\ UNCHANGED <<manifest, sources, job, attempts, sweeping>>
  BY DEF CommitLost, Working
<1>2. PICK names \in SUBSET workers[w].created : DropObjects(names)
  BY DEF CommitLost
<1>3. PICK later \in Stores :
        /\ store' = later
        /\ \A n \in DOMAIN store : n \notin names => n \in DOMAIN later /\ later[n] = store[n]
  BY <1>2, Drops DEF ZipInv, Typed
<1>4. \A n \in names : n[3] = workers[w].attempt
  BY <1>2 DEF ZipInv, Workmen, Own
<1>5. \A n \in names : Free(n, w)
  BY <1>1, <1>4, OwnNamesFree
<1> QED
  BY <1>1, <1>3, <1>5, WorkerLeaves

\* What a commit replaced is deleted.
LEMMA SweepObsoleteStep ==
    ASSUME ZipInv, NEW w \in Workers, SweepObsolete(w)
    PROVE  ZipInv'
<1>1. workers[w].at = "sweep" /\ Leave(w) /\ UNCHANGED <<manifest, sources, job, attempts, sweeping>>
  BY DEF SweepObsolete
<1>2. PICK names \in SUBSET workers[w].obsolete : DropObjects(names)
  BY DEF SweepObsolete
<1>3. PICK later \in Stores :
        /\ store' = later
        /\ \A n \in DOMAIN store : n \notin names => n \in DOMAIN later /\ later[n] = store[n]
  BY <1>2, Drops DEF ZipInv, Typed
<1>4. \A n \in names : Settled(n) /\ n \notin Kept(job)
  BY <1>1, <1>2 DEF ZipInv, Apart, Swept
<1>5. \A n \in names : Free(n, w)
  BY <1>4 DEF Settled, Free
<1> QED
  BY <1>1, <1>3, <1>5, WorkerLeaves

-----------------------------------------------------------------------------
(* The part and the composition *)

LEMMA ToSetAppend ==
    ASSUME NEW chain \in Chains, NEW n \in Names
    PROVE  /\ Append(chain, n) \in Chains /\ Len(Append(chain, n)) = Len(chain) + 1
           /\ ToSet(Append(chain, n)) = ToSet(chain) \cup {n}
<1>1. PICK k \in Nat : k = Len(chain)
  BY DEF Chains
<1>2. PICK more : more = Append(chain, n)
  OBVIOUS
<1>3. more \in Chains /\ Len(more) = k + 1 /\ DOMAIN more = 1 .. k + 1 /\ DOMAIN chain = 1 .. k
  BY <1>1, <1>2 DEF Chains
<1>4. more[k + 1] = n /\ \A i \in 1 .. k : more[i] = chain[i]
  BY <1>1, <1>2 DEF Chains
<1>5. ToSet(more) = ToSet(chain) \cup {n}
  <2>1. ToSet(more) \subseteq ToSet(chain) \cup {n}
    <3>1. \A i \in 1 .. k + 1 : i = k + 1 \/ i \in 1 .. k
      OBVIOUS
    <3> QED
      BY <1>3, <1>4, <3>1 DEF ToSet
  <2>2. ToSet(chain) \subseteq ToSet(more)
    <3>1. \A i \in 1 .. k : i \in 1 .. k + 1
      OBVIOUS
    <3> QED
      BY <1>3, <1>4, <3>1 DEF ToSet
  <2>3. n \in ToSet(more)
    <3>1. k + 1 \in 1 .. k + 1
      OBVIOUS
    <3> QED
      BY <1>3, <1>4, <3>1 DEF ToSet
  <2> QED
    BY <2>1, <2>2, <2>3
<1> QED
  BY <1>1, <1>2, <1>3, <1>5

Parted(me, cp, name, at) == [me EXCEPT !.cp = cp, !.buf = <<>>, !.created = {name}, !.at = at]
LEMMA PartedFields ==
    ASSUME NEW me \in WorkerRecords, NEW cp \in Checkpoints, NEW name \in Names,
           NEW at \in Places, NEW y, y = Parted(me, cp, name, at)
    PROVE  /\ y \in WorkerRecords /\ y.at = at /\ y.attempt = me.attempt /\ y.cp = cp
           /\ y.buf = <<>> /\ y.outcome = me.outcome /\ y.created = {name}
           /\ y.obsolete = me.obsolete
<1>1. <<>> \in Pieces /\ {name} \in SUBSET Names
  BY DEF Pieces
<1>2. y \in WorkerRecords
  BY <1>1 DEF Parted, WorkerRecords
<1> QED
  BY <1>2 DEF Parted, WorkerRecords

PartedCp(cp, chain, written) == [cp EXCEPT !.chain = chain, !.written = written]
LEMMA PartedCpFields ==
    ASSUME NEW cp \in Checkpoints, NEW chain \in Chains, NEW written \in Nat, NEW b,
           b = PartedCp(cp, chain, written)
    PROVE  /\ b \in Checkpoints /\ b.done = cp.done /\ b.open = cp.open /\ b.read = cp.read
           /\ b.start = cp.start /\ b.written = written /\ b.chain = chain
           /\ b.entries = cp.entries /\ b.missing = cp.missing
<1>1. b \in Checkpoints
  BY DEF PartedCp, Checkpoints
<1> QED
  BY <1>1 DEF PartedCp, Checkpoints

ComposedCp(cp, name) == [cp EXCEPT !.chain = <<name>>]
LEMMA ComposedCpFields ==
    ASSUME NEW cp \in Checkpoints, NEW name \in Names, NEW b, b = ComposedCp(cp, name)
    PROVE  /\ b \in Checkpoints /\ b.done = cp.done /\ b.open = cp.open /\ b.read = cp.read
           /\ b.start = cp.start /\ b.written = cp.written /\ b.chain = <<name>>
           /\ b.entries = cp.entries /\ b.missing = cp.missing
<1>1. <<name>> \in Chains
  BY DEF Chains
<1>2. b \in Checkpoints
  BY <1>1 DEF ComposedCp, Checkpoints
<1> QED
  BY <1>2 DEF ComposedCp, Checkpoints

Composed(me, cp, created, obsolete) ==
    [me EXCEPT !.cp = cp, !.created = created, !.obsolete = obsolete, !.at = "commit"]
LEMMA ComposedFields ==
    ASSUME NEW me \in WorkerRecords, NEW cp \in Checkpoints, NEW created \in SUBSET Names,
           NEW obsolete \in SUBSET Names, NEW y, y = Composed(me, cp, created, obsolete)
    PROVE  /\ y \in WorkerRecords /\ y.at = "commit" /\ y.attempt = me.attempt /\ y.cp = cp
           /\ y.buf = me.buf /\ y.outcome = me.outcome /\ y.created = created
           /\ y.obsolete = obsolete
<1>1. "commit" \in Places
  BY DEF Places
<1>2. y \in WorkerRecords
  BY <1>1 DEF Composed, WorkerRecords
<1> QED
  BY <1>2 DEF Composed, WorkerRecords

\* A checkpoint with another chain.
LEMMA Rechained ==
    ASSUME NEW a \in Checkpoints, NEW b \in Checkpoints, b.done = a.done, b.open = a.open,
           b.read = a.read, b.start = a.start, b.entries = a.entries, b.missing = a.missing
    PROVE  /\ Bounded(a) => Bounded(b)
           /\ \A c \in Checkpoints : Follows(c, a) => Follows(c, b)
           /\ \A m : Listed(m, a) => Progress(m, b) = Progress(m, a) /\ Listed(m, b)
<1>1. Bounded(a) => Bounded(b)
  BY DEF Bounded
<1>2. \A c \in Checkpoints : Follows(c, a) => Follows(c, b)
  BY DEF Follows
<1>3. \A m : Listed(m, a) => Progress(m, b) = Progress(m, a) /\ Listed(m, b)
  BY ListedSame
<1> QED
  BY <1>1, <1>2, <1>3

\* The part is written, or only noted that there is none.
LEMMA WritePartStep ==
    ASSUME ZipInv, NEW w \in Workers, WritePart(w)
    PROVE  ZipInv'
<1>1. PICK me : me = workers[w]
  OBVIOUS
<1>2. /\ manifest \in Manifests /\ me \in WorkerRecords /\ me.cp \in Checkpoints /\ Own(me)
      /\ Bounded(me.cp) /\ me.buf \in Pieces /\ store \in Stores /\ job \in JobRecords
  BY <1>1, InLoop
<1>3. me.at = "write" /\ Working(me) /\ UNCHANGED <<manifest, sources, job, attempts, sweeping>>
  BY <1>1 DEF WritePart, Working
<1>4. Holding(job, me) => Holder(manifest, job, store, me)
  BY <1>1 DEF ZipInv, Workmen
<1>5. /\ Len(me.cp.chain) \in Nat /\ me.attempt \in Attempts /\ me.attempt \in Nat
      /\ me.cp.chain \in Chains
  BY <1>2, WorkerFields, CheckpointFields DEF Chains
<1>6. Len(me.cp.chain) < me.attempt /\ Len(me.cp.chain) < ComposeLimit /\ me.obsolete = {}
      /\ me.outcome # "ready" /\ \A n \in ToSet(me.cp.chain) : n[1] \in Kinds
  BY <1>2, <1>3 DEF Own
<1>7. Len(me.cp.chain) \in Attempts /\ me.attempt # 0
  BY <1>5, <1>6, Limits DEF Attempts
<1>8. CASE Step(w, "commit") /\ UNCHANGED store /\ (me.buf = <<>> \/ me.outcome # "building")
  <2>1. PICK y : y = At(me, "commit")
    OBVIOUS
  <2>2. Become(w, y)
    BY <1>1, <1>8, <2>1 DEF Step, At
  <2>3. /\ y \in WorkerRecords /\ y.at = "commit" /\ y.attempt = me.attempt /\ y.cp = me.cp
        /\ y.buf = me.buf /\ y.outcome = me.outcome /\ y.created = me.created
        /\ y.obsolete = me.obsolete
    BY <1>2, <2>1, AtFields DEF Places
  <2>4. Own(y)
    BY <1>2, <1>3, <1>5, <1>6, <2>3 DEF Own
  <2>5. ASSUME Holding(job, y)
        PROVE  Holder(manifest, job, store, y)
    <3>1. Holder(manifest, job, store, me)
      BY <1>3, <1>4, <2>3, <2>5 DEF Holding
    <3> QED
      BY <1>3, <1>6, <1>8, <2>3, <3>1 DEF Holder
  <2>6. y.at # "sweep" /\ y.attempt = workers[w].attempt /\ workers[w].at # "idle"
        /\ Working(workers[w])
    BY <1>1, <1>3, <2>3
  <2> QED
    BY <1>3, <1>8, <2>2, <2>3, <2>4, <2>5, <2>6, WorkerGoesOn
<1>9. PICK name : name = Name("part", Len(me.cp.chain), me.attempt)
  OBVIOUS
<1>10. name \in Names /\ name[1] = "part" /\ name[3] = me.attempt
  BY <1>5, <1>7, <1>9, Named
<1>11. Free(name, w)
  BY <1>1, <1>3, <1>10, OwnNamesFree
<1>12. CASE me.buf # <<>> /\ me.outcome = "building" /\ Put(name, me.buf)
  <2>1. PICK later \in Stores :
          /\ store' = later /\ name \in DOMAIN later /\ later[name] = me.buf
          /\ \A n \in DOMAIN store : n # name => n \in DOMAIN later /\ later[n] = store[n]
    BY <1>2, <1>10, <1>12, Puts
  <2>2. \A n \in DOMAIN store : n \notin DOMAIN later \/ later[n] # store[n] => Free(n, w)
    BY <1>11, <2>1
  <2>3. CASE Raise(w)
    BY <1>1, <1>3, <2>1, <2>2, <2>3, WorkerLeaves
  <2>4. PICK chain : chain = Append(me.cp.chain, name)
    OBVIOUS
  <2>5. PICK written \in Nat : written = me.cp.written + Len(me.buf)
    BY <1>2, CheckpointFields DEF Pieces
  <2>6. chain \in Chains /\ Len(chain) = Len(me.cp.chain) + 1
        /\ ToSet(chain) = ToSet(me.cp.chain) \cup {name}
    BY <1>5, <1>10, <2>4, ToSetAppend
  <2>7. PICK cp : cp = PartedCp(me.cp, chain, written)
    OBVIOUS
  <2>8. PICK at : at = IF Full(chain) THEN "compose" ELSE "commit"
    OBVIOUS
  <2>9. PICK y : y = Parted(me, cp, name, at)
    OBVIOUS
  <2>10. CASE Become(w, y)
    <3>1. /\ cp \in Checkpoints /\ cp.done = me.cp.done /\ cp.open = me.cp.open
          /\ cp.read = me.cp.read /\ cp.start = me.cp.start /\ cp.written = written
          /\ cp.chain = chain /\ cp.entries = me.cp.entries /\ cp.missing = me.cp.missing
      BY <1>2, <2>6, <2>7, PartedCpFields
    <3>2. at \in Places /\ at \in {"compose", "commit"}
          /\ IF at = "compose" THEN Len(chain) <= ComposeLimit ELSE Len(chain) < ComposeLimit
      BY <1>5, <1>6, <2>6, <2>8, Limits DEF Places, Full
    <3>3. /\ y \in WorkerRecords /\ y.at = at /\ y.attempt = me.attempt /\ y.cp = cp
          /\ y.buf = <<>> /\ y.outcome = me.outcome /\ y.created = {name}
          /\ y.obsolete = me.obsolete
      BY <1>2, <1>10, <2>9, <3>1, <3>2, PartedFields
    <3>4. /\ Bounded(cp) /\ \A c \in Checkpoints : Follows(c, me.cp) => Follows(c, cp)
          /\ Listed(manifest, me.cp) =>
               Progress(manifest, cp) = Progress(manifest, me.cp) /\ Listed(manifest, cp)
      BY <1>2, <3>1, Rechained
    <3>5. Own(y)
      <4>1. \A n \in ToSet(y.cp.chain) : n[1] \in Kinds
        BY <1>6, <1>10, <2>6, <3>1, <3>3 DEF Kinds
      <4>2. Len(y.cp.chain) <= y.attempt
        BY <1>5, <1>6, <2>6, <3>1, <3>3
      <4> QED
        BY <1>6, <1>10, <3>1, <3>2, <3>3, <3>4, <4>1, <4>2 DEF Own
    <3>6. ASSUME Holding(job, y)
          PROVE  Holder(manifest, job, later, y)
      <4>1. Holder(manifest, job, store, me) /\ job.state = "building"
        BY <1>3, <1>4, <3>3, <3>6 DEF Holding
      <4>2. \A n \in ToSet(me.cp.chain) : n \in ToSet(job.cp.chain)
        BY <1>3, <4>1 DEF Holder
      <4>3. name \notin ToSet(me.cp.chain)
        BY <1>11, <4>1, <4>2 DEF Free, Kept
      <4>4. Keeps(store, later, ToSet(me.cp.chain))
        BY <2>1, <4>3 DEF Keeps
      <4>5. Sound(manifest, store, me.cp, me.buf)
        BY <1>12, <4>1 DEF Holder
      <4>6. Progress(manifest, cp) = Progress(manifest, me.cp) /\ Listed(manifest, cp)
        BY <3>4, <4>5 DEF Sound
      <4>7. Sound(manifest, later, cp, <<>>)
        BY <1>2, <2>1, <2>4, <2>5, <3>1, <4>4, <4>5, <4>6, SoundWrite
      <4>8. Follows(job.cp, cp)
        BY <1>2, <3>4, <4>1, JobFields DEF Holder
      <4>9. \A n \in ToSet(cp.chain) : n \in ToSet(job.cp.chain) \/ (n = name)
        BY <2>6, <3>1, <4>2
      <4> QED
        BY <1>6, <1>10, <1>12, <3>2, <3>3, <4>7, <4>8, <4>9 DEF Holder
    <3>7. y.at # "sweep" /\ y.attempt = workers[w].attempt /\ workers[w].at # "idle"
          /\ Working(workers[w]) /\ y.attempt # 0 /\ y.attempt <= attempts
      <4>1. workers[w].attempt <= attempts
        BY DEF ZipInv, Numbers
      <4> QED
        BY <1>1, <1>3, <1>7, <3>2, <3>3, <4>1
    <3> QED
      BY <1>3, <2>1, <2>2, <2>10, <3>3, <3>5, <3>6, <3>7, WorkerMoves
  <2>11. Raise(w) \/ Become(w, y)
    <3>1. y = [me EXCEPT !.cp = [me.cp EXCEPT !.chain = chain, !.written = me.cp.written + Len(me.buf)],
                         !.buf = <<>>, !.created = {name}, !.at = at]
      BY <2>5, <2>7, <2>9 DEF Parted, PartedCp
    <3> QED
      BY <1>1, <1>9, <1>12, <2>4, <2>8, <3>1 DEF WritePart
  <2> QED
    BY <2>3, <2>10, <2>11
<1> QED
  BY <1>1, <1>8, <1>9, <1>12 DEF WritePart

\* The chain is composed, or this fails.
LEMMA ComposeStep ==
    ASSUME ZipInv, NEW w \in Workers, Compose(w)
    PROVE  ZipInv'
<1>1. PICK me : me = workers[w]
  OBVIOUS
<1>2. /\ manifest \in Manifests /\ me \in WorkerRecords /\ me.cp \in Checkpoints /\ Own(me)
      /\ Bounded(me.cp) /\ me.buf \in Pieces /\ store \in Stores /\ job \in JobRecords
  BY <1>1, InLoop
<1>3. me.at = "compose" /\ Working(me) /\ UNCHANGED <<manifest, sources, job, attempts, sweeping>>
  BY <1>1 DEF Compose, Working
<1>4. Holding(job, me) => Holder(manifest, job, store, me)
  BY <1>1 DEF ZipInv, Workmen
<1>5. /\ Len(me.cp.chain) \in Nat /\ me.attempt \in Attempts /\ me.attempt \in Nat
      /\ me.cp.chain \in Chains /\ me.created \in SUBSET Names
  BY <1>2, WorkerFields, CheckpointFields DEF Chains
<1>6. /\ Len(me.cp.chain) <= me.attempt /\ me.attempt # 0 /\ me.outcome # "ready"
      /\ \A n \in me.created : n[3] = me.attempt
  <2>1. me.attempt # 0
    BY <1>1, <1>3 DEF ZipInv, Numbers
  <2> QED
    BY <1>2, <1>3, <2>1 DEF Own
<1>7. Len(me.cp.chain) \in Attempts
  BY <1>5, <1>6, Limits DEF Attempts
<1>8. CASE Raise(w) /\ UNCHANGED store
  BY <1>1, <1>3, <1>8, WorkerStops
<1>9. PICK name : name = Name("composite", Len(me.cp.chain), me.attempt)
  OBVIOUS
<1>10. name \in Names /\ name[1] = "composite" /\ name[3] = me.attempt
  BY <1>5, <1>6, <1>7, <1>9, Named
<1>11. Free(name, w)
  BY <1>1, <1>3, <1>10, OwnNamesFree
<1>12. CASE Stored(me.cp.chain) /\ Put(name, Content(me.cp.chain))
  <2>0. PICK content \in Pieces : content = Content(me.cp.chain) /\ content = ContentIn(store, me.cp.chain)
    <3>1. StoredIn(store, me.cp.chain)
      BY <1>12 DEF Stored, StoredIn
    <3>2. ContentIn(store, me.cp.chain) \in Pieces
      BY <1>2, <1>5, <3>1, ContentType
    <3> QED
      BY <3>2 DEF Content, ContentIn
  <2>1. PICK later \in Stores :
          /\ store' = later /\ name \in DOMAIN later /\ later[name] = content
          /\ \A n \in DOMAIN store : n # name => n \in DOMAIN later /\ later[n] = store[n]
    BY <1>2, <1>10, <1>12, <2>0, Puts
  <2>2. \A n \in DOMAIN store : n \notin DOMAIN later \/ later[n] # store[n] => Free(n, w)
    BY <1>11, <2>1
  <2>3. CASE Raise(w)
    BY <1>1, <1>3, <2>1, <2>2, <2>3, WorkerLeaves
  <2>4. PICK created \in SUBSET Names : created = me.created \cup {name}
    BY <1>5, <1>10
  <2>5. PICK obsolete \in SUBSET Names : obsolete = ToSet(me.cp.chain)
    BY <1>2, ChainNames
  <2>6. PICK cp : cp = ComposedCp(me.cp, name)
    OBVIOUS
  <2>7. PICK y : y = Composed(me, cp, created, obsolete)
    OBVIOUS
  <2>8. CASE Become(w, y)
    <3>1. /\ cp \in Checkpoints /\ cp.done = me.cp.done /\ cp.open = me.cp.open
          /\ cp.read = me.cp.read /\ cp.start = me.cp.start /\ cp.written = me.cp.written
          /\ cp.chain = <<name>> /\ cp.entries = me.cp.entries /\ cp.missing = me.cp.missing
      BY <1>2, <1>10, <2>6, ComposedCpFields
    <3>2. ToSet(cp.chain) = {name} /\ Len(cp.chain) = 1
      BY <3>1 DEF ToSet
    <3>3. /\ y \in WorkerRecords /\ y.at = "commit" /\ y.attempt = me.attempt /\ y.cp = cp
          /\ y.buf = me.buf /\ y.outcome = me.outcome /\ y.created = created
          /\ y.obsolete = obsolete
      BY <1>2, <2>4, <2>5, <2>7, <3>1, ComposedFields
    <3>4. /\ Bounded(cp) /\ \A c \in Checkpoints : Follows(c, me.cp) => Follows(c, cp)
          /\ Listed(manifest, me.cp) =>
               Progress(manifest, cp) = Progress(manifest, me.cp) /\ Listed(manifest, cp)
      BY <1>2, <3>1, Rechained
    <3>5. Own(y)
      <4>1. \A n \in ToSet(y.cp.chain) : n[1] \in Kinds
        BY <1>10, <3>2, <3>3 DEF Kinds
      <4>2. Len(y.cp.chain) <= y.attempt /\ Len(y.cp.chain) < ComposeLimit
        <5>1. Len(y.cp.chain) = 1 /\ y.attempt = me.attempt
          BY <3>2, <3>3
        <5>2. me.attempt \in Nat /\ me.attempt # 0 /\ 1 < ComposeLimit
          BY <1>5, <1>6, Limits
        <5>3. 1 <= me.attempt
          BY <5>2
        <5> QED
          BY <5>1, <5>2, <5>3
      <4>3. \A n \in y.created : n[3] = y.attempt
        BY <1>6, <1>10, <2>4, <3>3
      <4> QED
        BY <1>6, <3>3, <3>4, <4>1, <4>2, <4>3 DEF Own
    <3>6. ASSUME Holding(job, y)
          PROVE  Holder(manifest, job, later, y)
      <4>1. Holder(manifest, job, store, me) /\ job.state = "building"
        BY <1>3, <1>4, <3>3, <3>6 DEF Holding
      <4>2. \A n \in ToSet(me.cp.chain) : n \in ToSet(job.cp.chain) \/ n[1] = "part"
        BY <1>3, <4>1 DEF Holder
      <4>3. name \notin ToSet(me.cp.chain)
        BY <1>10, <1>11, <4>1, <4>2 DEF Free, Kept
      <4>4. me.outcome = "building" /\ me.buf = <<>> /\ Sound(manifest, store, me.cp, <<>>)
        BY <1>3, <4>1 DEF Holder
      <4>5. Progress(manifest, cp) = Progress(manifest, me.cp) /\ Listed(manifest, cp)
        BY <3>4, <4>4 DEF Sound
      <4>6. Sound(manifest, later, cp, <<>>)
        BY <1>2, <2>0, <2>1, <3>1, <4>4, <4>5, SoundCompose
      <4>7. Follows(job.cp, cp)
        BY <1>2, <3>4, <4>1, JobFields DEF Holder
      <4>8. \A n \in ToSet(me.cp.chain) : n \in ToSet(job.cp.chain) \/ n[3] = me.attempt
        BY <4>1 DEF Holder
      <4> QED
        BY <1>10, <2>5, <3>2, <3>3, <4>3, <4>4, <4>6, <4>7, <4>8 DEF Holder
    <3>7. y.at # "sweep" /\ y.attempt = workers[w].attempt /\ workers[w].at # "idle"
          /\ Working(workers[w]) /\ y.attempt # 0 /\ y.attempt <= attempts
      <4>1. workers[w].attempt <= attempts
        BY DEF ZipInv, Numbers
      <4> QED
        BY <1>1, <1>3, <1>6, <3>3, <4>1
    <3> QED
      BY <1>3, <2>1, <2>2, <2>8, <3>3, <3>5, <3>6, <3>7, WorkerMoves
  <2>9. Raise(w) \/ Become(w, y)
    <3>1. y = [me EXCEPT !.cp = [me.cp EXCEPT !.chain = <<name>>], !.created = me.created \cup {name},
                         !.obsolete = ToSet(me.cp.chain), !.at = "commit"]
      BY <2>4, <2>5, <2>6, <2>7 DEF Composed, ComposedCp
    <3> QED
      BY <1>1, <1>9, <3>1 DEF Compose
  <2> QED
    BY <2>3, <2>8, <2>9
<1> QED
  BY <1>1, <1>8, <1>9, <1>12 DEF Compose

-----------------------------------------------------------------------------
(* The beginning and the end of a step *)

LEMMA BeginStep ==
    ASSUME ZipInv, NEW w \in Workers, Begin(w)
    PROVE  ZipInv'
<1>1. PICK me : me = workers[w]
  OBVIOUS
<1>2. /\ me \in WorkerRecords /\ me.cp \in Checkpoints /\ Own(me)
      /\ Bounded(me.cp) /\ job \in JobRecords
  BY <1>1, InLoop
<1>3. me.at = "claimed" /\ Working(me)
      /\ UNCHANGED <<manifest, sources, job, attempts, store, sweeping>>
  BY <1>1 DEF Begin, Working
<1>4. Holding(job, me) => Holder(manifest, job, store, me)
  BY <1>1 DEF ZipInv, Workmen
<1>5. CASE Leave(w)
  BY <1>3, <1>5, WorkerStops
<1>6. ASSUME NEW at \in {"loop", "end"}, Step(w, at), at = "end" => me.cp.done = N /\ ~ me.cp.open
      PROVE  ZipInv'
  <2>1. PICK y : y = At(me, at)
    OBVIOUS
  <2>2. Become(w, y)
    BY <1>1, <1>6, <2>1 DEF Step, At
  <2>3. at \in Places
    BY DEF Places
  <2>4. /\ y \in WorkerRecords /\ y.at = at /\ y.attempt = me.attempt /\ y.cp = me.cp
        /\ y.buf = me.buf /\ y.outcome = me.outcome /\ y.created = me.created
        /\ y.obsolete = me.obsolete
    BY <1>2, <2>1, <2>3, AtFields
  <2>5. Own(y)
    BY <1>2, <1>3, <2>4 DEF Own, Working
  <2>6. ASSUME Holding(job, y)
        PROVE  Holder(manifest, job, store, y)
    <3>1. Holder(manifest, job, store, me)
      BY <1>3, <1>4, <2>4, <2>6 DEF Holding
    <3> QED
      BY <1>3, <1>6, <2>4, <3>1 DEF Holder
  <2>7. y.at # "sweep" /\ y.attempt = workers[w].attempt /\ workers[w].at # "idle"
        /\ Working(workers[w])
    BY <1>1, <1>3, <2>4
  <2> QED
    BY <1>3, <2>2, <2>4, <2>5, <2>6, <2>7, WorkerGoesOn
<1>7. \/ Leave(w) \/ (Step(w, "end") /\ me.cp.done = N /\ ~ me.cp.open) \/ Step(w, "loop")
  BY <1>1 DEF Begin
<1> QED
  BY <1>5, <1>6, <1>7

Ending(me, created, at) == [me EXCEPT !.created = created, !.at = at]
LEMMA EndingFields ==
    ASSUME NEW me \in WorkerRecords, NEW created \in SUBSET Names, NEW at \in Places,
           NEW y, y = Ending(me, created, at)
    PROVE  /\ y \in WorkerRecords /\ y.at = at /\ y.attempt = me.attempt /\ y.cp = me.cp
           /\ y.buf = me.buf /\ y.outcome = me.outcome /\ y.created = created
           /\ y.obsolete = me.obsolete
<1>1. y \in WorkerRecords
  BY DEF Ending, WorkerRecords
<1> QED
  BY <1>1 DEF Ending, WorkerRecords

Checked(me, outcome) == [me EXCEPT !.outcome = outcome, !.at = "publish"]
LEMMA CheckedFields ==
    ASSUME NEW me \in WorkerRecords, NEW outcome \in Outcomes, NEW y, y = Checked(me, outcome)
    PROVE  /\ y \in WorkerRecords /\ y.at = "publish" /\ y.attempt = me.attempt /\ y.cp = me.cp
           /\ y.buf = me.buf /\ y.outcome = outcome /\ y.created = me.created
           /\ y.obsolete = me.obsolete
<1>1. "publish" \in Places
  BY DEF Places
<1>2. y \in WorkerRecords
  BY <1>1 DEF Checked, WorkerRecords
<1> QED
  BY <1>2 DEF Checked, WorkerRecords

\* While the end is written, the chain stays as it is.
LEMMA EndGoesOn ==
    ASSUME ZipInv, NEW w \in Workers, NEW me, me = workers[w], NEW later \in Stores,
           me.at \in {"end", "zip", "verify"}, NEW y \in WorkerRecords, Become(w, y),
           store' = later, UNCHANGED <<manifest, sources, job, attempts, sweeping>>,
           \A n \in DOMAIN store : n \notin DOMAIN later \/ later[n] # store[n] => Free(n, w),
           y.at \in {"zip", "verify", "publish"},
           y.attempt = me.attempt, y.cp = me.cp, y.buf = me.buf, y.obsolete = me.obsolete,
           \A n \in y.created : n[3] = y.attempt,
           y.outcome = me.outcome \/ y.at = "publish",
           Holding(job, me) /\ Holder(manifest, job, store, me) =>
             /\ y.at = "zip" => /\ EndName(y) \in DOMAIN later
                                /\ later[EndName(y)] = EndOf(manifest, y.cp)
             /\ y.at \in {"verify", "publish"} =>
                  /\ ZipName(y) \in DOMAIN later
                  /\ later[ZipName(y)] = Progress(manifest, y.cp) \o EndOf(manifest, y.cp)
    PROVE  ZipInv'
<1>1. /\ manifest \in Manifests /\ me \in WorkerRecords /\ me.cp \in Checkpoints /\ Own(me)
      /\ Bounded(me.cp) /\ me.buf \in Pieces /\ store \in Stores /\ job \in JobRecords
  BY InLoop
<1>2. Holding(job, me) => Holder(manifest, job, store, me)
  BY DEF ZipInv, Workmen
<1>3. Working(me) /\ Working(y)
  BY DEF Working
<1>4. Own(y)
  BY <1>1, <1>3 DEF Own
<1>5. ASSUME Holding(job, y)
      PROVE  Holder(manifest, job, later, y)
  <2>1. Holding(job, me) /\ job.state = "building"
    BY <1>3, <1>5 DEF Holding
  <2>2. Holder(manifest, job, store, me)
    BY <1>2, <2>1
  <2>3. \A n \in ToSet(me.cp.chain) : n \in ToSet(job.cp.chain)
    BY <2>2 DEF Holder
  <2>4. Keeps(store, later, ToSet(me.cp.chain))
    BY <2>1, <2>3 DEF Keeps, Free, Kept
  <2>5. Sound(manifest, store, me.cp, me.buf) /\ me.buf = <<>> /\ me.outcome = "building"
    BY <2>2 DEF Holder
  <2>6. Sound(manifest, later, me.cp, me.buf)
    BY <1>1, <2>4, <2>5, SoundKeeps
  <2>7. /\ y.at = "zip" => /\ EndName(y) \in DOMAIN later
                           /\ later[EndName(y)] = EndOf(manifest, y.cp)
        /\ y.at \in {"verify", "publish"} =>
             /\ ZipName(y) \in DOMAIN later
             /\ later[ZipName(y)] = Progress(manifest, y.cp) \o EndOf(manifest, y.cp)
    BY <2>1, <2>2
  <2>8. Follows(job.cp, y.cp) /\ y.obsolete = {} /\ y.cp.done = N /\ ~ y.cp.open /\ y.cp = job.cp
    BY <1>1, <2>2 DEF Holder, Own
  <2>9. y.at \notin {"write", "commit", "publish"} => y.outcome = "building"
    BY <2>5
  <2>10. Sound(manifest, later, y.cp, y.buf) /\ y.buf = <<>>
    BY <2>5, <2>6
  <2>11. \A n \in ToSet(y.cp.chain) : n \in ToSet(job.cp.chain)
    BY <2>3
  <2>12. y.obsolete \cap ToSet(y.cp.chain) = {}
    BY <2>8
  <2> QED
    BY <2>7, <2>8, <2>9, <2>10, <2>11, <2>12, SMTT(40) DEF Holder
<1>6. workers[w].attempt # 0 /\ workers[w].attempt <= attempts
  BY <1>3 DEF ZipInv, Numbers, Working
<1>7. y.at # "sweep" /\ workers[w].at # "idle"
  OBVIOUS
<1> QED
  BY <1>3, <1>4, <1>5, <1>6, <1>7, WorkerMoves

\* The names of the end records and of the ZIP.
LEMMA EndNames ==
    ASSUME ZipInv, NEW w \in Workers, NEW me, me = workers[w], Working(me), me.at # "compose"
    PROVE  /\ EndName(me) \in Names /\ EndName(me)[3] = me.attempt /\ Free(EndName(me), w)
           /\ ZipName(me) \in Names /\ ZipName(me)[3] = me.attempt /\ Free(ZipName(me), w)
<1>1. me \in WorkerRecords /\ me.cp \in Checkpoints /\ Own(me)
  BY InLoop
<1>2. Len(me.cp.chain) \in Nat /\ me.attempt \in Attempts /\ me.attempt \in Nat
  BY <1>1, WorkerFields, CheckpointFields DEF Chains
<1>3. me.attempt # 0
  BY DEF ZipInv, Numbers, Working
<1>4. Len(me.cp.chain) <= me.attempt
  <2>1. IF me.at \in {"compose", "commit"} THEN Len(me.cp.chain) <= me.attempt
                                            ELSE Len(me.cp.chain) < me.attempt
    BY <1>1 DEF Own
  <2> QED
    BY <1>2, <2>1
<1>5. Len(me.cp.chain) \in Attempts /\ 0 \in Attempts
  BY <1>2, <1>4, Limits DEF Attempts
<1>6. /\ EndName(me) \in Names /\ EndName(me)[3] = me.attempt
      /\ ZipName(me) \in Names /\ ZipName(me)[3] = me.attempt
  BY <1>2, <1>3, <1>5, Named DEF EndName, ZipName
<1> QED
  BY <1>6, OwnNamesFree

\* The end records are written.
LEMMA WriteEndStep ==
    ASSUME ZipInv, NEW w \in Workers, WriteEnd(w)
    PROVE  ZipInv'
<1>1. PICK me : me = workers[w]
  OBVIOUS
<1>2. /\ me \in WorkerRecords /\ me.cp \in Checkpoints /\ Own(me) /\ store \in Stores
  BY <1>1, InLoop
<1>3. me.at = "end" /\ Working(me) /\ UNCHANGED <<manifest, sources, job, attempts, sweeping>>
  BY <1>1 DEF WriteEnd, Working
<1>4. PICK name \in Names : name = EndName(me) /\ name[3] = me.attempt /\ Free(name, w)
  BY <1>1, <1>3, EndNames
<1>5. PICK records \in Pieces : records = EndOf(manifest, me.cp)
  BY <1>2, EndType
<1>6. /\ Put(name, records)
      /\ \/ Raise(w)
         \/ Become(w, [me EXCEPT !.created = {name}, !.at = "zip"])
  BY <1>1, <1>4, <1>5, EndRecordsIs DEF WriteEnd, EndName
<1>7. PICK later \in Stores :
        /\ store' = later /\ name \in DOMAIN later /\ later[name] = records
        /\ \A n \in DOMAIN store : n # name => n \in DOMAIN later /\ later[n] = store[n]
  BY <1>2, <1>6, Puts
<1>8. \A n \in DOMAIN store : n \notin DOMAIN later \/ later[n] # store[n] => Free(n, w)
  BY <1>4, <1>7
<1>9. CASE Raise(w)
  BY <1>1, <1>3, <1>7, <1>8, <1>9, WorkerLeaves
<1>10. PICK y : y = Ending(me, {name}, "zip")
  OBVIOUS
<1>11. CASE Become(w, y)
  <2>1. /\ y \in WorkerRecords /\ y.at = "zip" /\ y.attempt = me.attempt /\ y.cp = me.cp
        /\ y.buf = me.buf /\ y.outcome = me.outcome /\ y.created = {name}
        /\ y.obsolete = me.obsolete
    <3>1. "zip" \in Places /\ {name} \in SUBSET Names
      BY DEF Places
    <3> QED
      BY <1>2, <1>10, <3>1, EndingFields
  <2>2. EndName(y) = name
    BY <1>4, <2>1 DEF EndName
  <2>3. EndName(y) \in DOMAIN later /\ later[EndName(y)] = EndOf(manifest, y.cp)
    BY <1>5, <1>7, <2>1, <2>2
  <2>4. \A n \in y.created : n[3] = y.attempt
    BY <1>4, <2>1
  <2> QED
    BY <1>1, <1>3, <1>7, <1>8, <1>11, <2>1, <2>3, <2>4, EndGoesOn
<1> QED
  BY <1>6, <1>9, <1>10, <1>11 DEF Ending

\* The chain and the end records, one behind the other, are the ZIP.
LEMMA ZipContent ==
    ASSUME NEW m, NEW st \in Stores, NEW cp \in Checkpoints, NEW name,
           StoredIn(st, Append(cp.chain, name)), Sound(m, st, cp, <<>>),
           name \in DOMAIN st, st[name] = EndOf(m, cp)
    PROVE  ContentIn(st, Append(cp.chain, name)) = Progress(m, cp) \o EndOf(m, cp)
<1>1. cp.chain \in Chains
  BY CheckpointFields
<1>2. StoredIn(st, cp.chain) /\ ContentIn(st, cp.chain) \o <<>> = Progress(m, cp)
  BY DEF Sound
<1>3. PICK c \in Pieces : c = ContentIn(st, cp.chain)
  BY <1>1, <1>2, ContentType
<1>4. c = Progress(m, cp)
  <2>1. c \o <<>> = c
    BY DEF Pieces
  <2> QED
    BY <1>2, <1>3, <2>1
<1>5. ContentIn(st, Append(cp.chain, name)) = ContentIn(st, cp.chain) \o st[name]
  BY <1>1, <1>2, ContentAppend
<1> QED
  BY <1>3, <1>4, <1>5

\* The ZIP is composed, or this fails.
LEMMA ComposeZipStep ==
    ASSUME ZipInv, NEW w \in Workers, ComposeZip(w)
    PROVE  ZipInv'
<1>1. PICK me : me = workers[w]
  OBVIOUS
<1>2. /\ me \in WorkerRecords /\ me.cp \in Checkpoints /\ Own(me) /\ store \in Stores
      /\ me.created \in SUBSET Names
  BY <1>1, InLoop, WorkerFields
<1>3. me.at = "zip" /\ Working(me) /\ UNCHANGED <<manifest, sources, job, attempts, sweeping>>
  BY <1>1 DEF ComposeZip, Working
<1>4. PICK name \in Names : name = ZipName(me) /\ name[3] = me.attempt /\ Free(name, w)
  BY <1>1, <1>3, EndNames
<1>5. PICK all : all = Append(me.cp.chain, EndName(me))
  OBVIOUS
<1>6. all \in Chains
  <2>1. EndName(me) \in Names
    BY <1>1, <1>3, EndNames
  <2>2. me.cp.chain \in Chains
    BY <1>2, CheckpointFields
  <2> QED
    BY <1>5, <2>1, <2>2 DEF Chains
<1>7. CASE Raise(w) /\ UNCHANGED store
  BY <1>1, <1>3, <1>7, WorkerStops
<1>8. CASE /\ StoredIn(store, all) /\ Put(name, ContentIn(store, all))
           /\ \/ Raise(w)
              \/ Become(w, [me EXCEPT !.created = me.created \cup {name}, !.at = "verify"])
  <2>1. PICK content \in Pieces : content = ContentIn(store, all)
    BY <1>2, <1>6, <1>8, ContentType
  <2>2. PICK later \in Stores :
          /\ store' = later /\ name \in DOMAIN later /\ later[name] = content
          /\ \A n \in DOMAIN store : n # name => n \in DOMAIN later /\ later[n] = store[n]
    BY <1>2, <1>8, <2>1, Puts
  <2>3. \A n \in DOMAIN store : n \notin DOMAIN later \/ later[n] # store[n] => Free(n, w)
    BY <1>4, <2>2
  <2>4. CASE Raise(w)
    BY <1>1, <1>3, <2>2, <2>3, <2>4, WorkerLeaves
  <2>5. PICK y : y = Ending(me, me.created \cup {name}, "verify")
    OBVIOUS
  <2>6. CASE Become(w, y)
    <3>1. /\ y \in WorkerRecords /\ y.at = "verify" /\ y.attempt = me.attempt /\ y.cp = me.cp
          /\ y.buf = me.buf /\ y.outcome = me.outcome /\ y.created = me.created \cup {name}
          /\ y.obsolete = me.obsolete
      <4>1. "verify" \in Places /\ me.created \cup {name} \in SUBSET Names
        BY <1>2 DEF Places
      <4> QED
        BY <1>2, <2>5, <4>1, EndingFields
    <3>2. ZipName(y) = name
      BY <1>4, <3>1 DEF ZipName
    <3>3. ASSUME Holder(manifest, job, store, me)
          PROVE  /\ ZipName(y) \in DOMAIN later
                 /\ later[ZipName(y)] = Progress(manifest, y.cp) \o EndOf(manifest, y.cp)
      <4>1. me.outcome = "building" /\ me.buf = <<>> /\ Sound(manifest, store, me.cp, me.buf)
        BY <1>3, <3>3 DEF Holder
      <4>2. EndName(me) \in DOMAIN store /\ store[EndName(me)] = EndOf(manifest, me.cp)
        BY <1>3, <3>3 DEF Holder
      <4>3. content = Progress(manifest, me.cp) \o EndOf(manifest, me.cp)
        BY <1>2, <1>5, <1>8, <2>1, <4>1, <4>2, ZipContent
      <4> QED
        BY <2>2, <3>1, <3>2, <4>3
    <3>4. \A n \in y.created : n[3] = y.attempt
      BY <1>2, <1>4, <3>1 DEF Own
    <3> QED
      BY <1>1, <1>3, <2>2, <2>3, <2>6, <3>1, <3>3, <3>4, EndGoesOn
  <2> QED
    BY <1>8, <2>4, <2>5, <2>6 DEF Ending
<1>9. \/ Raise(w) /\ UNCHANGED store
      \/ /\ StoredIn(store, all) /\ Put(name, ContentIn(store, all))
         /\ \/ Raise(w)
            \/ Become(w, [me EXCEPT !.created = me.created \cup {name}, !.at = "verify"])
  BY <1>1, <1>4, <1>5 DEF ComposeZip, EndName, ZipName, Stored, StoredIn, Content, ContentIn
<1> QED
  BY <1>7, <1>8, <1>9

\* The ZIP is read back.
LEMMA VerifyStep ==
    ASSUME ZipInv, NEW w \in Workers, Verify(w)
    PROVE  ZipInv'
<1>1. PICK me : me = workers[w]
  OBVIOUS
<1>2. /\ me \in WorkerRecords /\ me.cp \in Checkpoints /\ Own(me) /\ store \in Stores
  BY <1>1, InLoop
<1>3. me.at = "verify" /\ UNCHANGED <<manifest, sources, job, attempts, store, sweeping>>
  BY <1>1 DEF Verify
<1>4. PICK outcome \in {"ready", "failed"} :
        Become(w, [me EXCEPT !.outcome = outcome, !.at = "publish"])
  BY <1>1 DEF Verify
<1>5. PICK y : y = Checked(me, outcome)
  OBVIOUS
<1>6. Become(w, y)
  BY <1>4, <1>5 DEF Checked
<1>7. outcome \in Outcomes
  BY DEF Outcomes
<1>8. /\ y \in WorkerRecords /\ y.at = "publish" /\ y.attempt = me.attempt /\ y.cp = me.cp
      /\ y.buf = me.buf /\ y.outcome = outcome /\ y.created = me.created
      /\ y.obsolete = me.obsolete
  BY <1>2, <1>5, <1>7, CheckedFields
<1>9. ASSUME Holder(manifest, job, store, me)
      PROVE  /\ ZipName(y) \in DOMAIN store
             /\ store[ZipName(y)] = Progress(manifest, y.cp) \o EndOf(manifest, y.cp)
  <2>1. ZipName(y) = ZipName(me)
    BY <1>8 DEF ZipName
  <2>2. /\ ZipName(me) \in DOMAIN store
        /\ store[ZipName(me)] = Progress(manifest, me.cp) \o EndOf(manifest, me.cp)
    BY <1>3, <1>9 DEF Holder
  <2> QED
    BY <1>8, <2>1, <2>2
<1>10. \A n \in y.created : n[3] = y.attempt
  BY <1>2, <1>8 DEF Own
<1> QED
  BY <1>1, <1>2, <1>3, <1>6, <1>8, <1>9, <1>10, EndGoesOn

-----------------------------------------------------------------------------
(* What becomes of the row of the job *)

Freed(j, state) == [j EXCEPT !.state = state, !.attempt = 0, !.lease = 0,
                             !.patience = IF state = "building" THEN Abandoned ELSE 0]
LEMMA FreedFields ==
    ASSUME NEW j \in JobRecords, NEW state \in States, NEW y, y = Freed(j, state)
    PROVE  /\ y \in JobRecords /\ y.state = state /\ y.attempt = 0 /\ y.cp = j.cp
           /\ y.left = j.left /\ y.zip = j.zip
<1>1. PICK patience \in Patience : patience = IF state = "building" THEN Abandoned ELSE 0
  BY Limits DEF Patience
<1>2. 0 \in Attempts /\ 0 \in Leases
  BY Limits DEF Attempts, Leases
<1>3. y = [j EXCEPT !.state = state, !.attempt = 0, !.lease = 0, !.patience = patience]
  BY <1>1 DEF Freed
<1>4. y \in JobRecords
  BY <1>2, <1>3 DEF JobRecords
<1> QED
  BY <1>3, <1>4 DEF JobRecords

CommittedJob(j, cp, left) == [j EXCEPT !.cp = cp, !.left = left]
LEMMA CommittedFields ==
    ASSUME NEW j \in JobRecords, NEW cp \in Checkpoints, NEW left \in Days,
           NEW y, y = CommittedJob(j, cp, left)
    PROVE  /\ y \in JobRecords /\ y.state = j.state /\ y.attempt = j.attempt /\ y.cp = cp
           /\ y.left = left /\ y.zip = j.zip
<1>1. y \in JobRecords
  BY DEF CommittedJob, JobRecords
<1> QED
  BY <1>1 DEF CommittedJob, JobRecords

PublishedJob(j, zip, left) == [j EXCEPT !.zip = zip, !.left = left]
LEMMA PublishedFields ==
    ASSUME NEW j \in JobRecords, NEW zip \in Names \cup {<<>>}, NEW left \in Days,
           NEW y, y = PublishedJob(j, zip, left)
    PROVE  /\ y \in JobRecords /\ y.state = j.state /\ y.attempt = j.attempt /\ y.cp = j.cp
           /\ y.left = left /\ y.zip = zip
<1>1. y \in JobRecords
  BY DEF PublishedJob, JobRecords
<1> QED
  BY <1>1 DEF PublishedJob, JobRecords

EndedJob(j) == [j EXCEPT !.left = 0]
LEMMA EndedFields ==
    ASSUME NEW j \in JobRecords, NEW y, y = EndedJob(j)
    PROVE  /\ y \in JobRecords /\ y.state = j.state /\ y.attempt = j.attempt /\ y.cp = j.cp
           /\ y.left = 0 /\ y.zip = j.zip
<1>1. 0 \in Days
  BY Limits DEF Days
<1>2. y \in JobRecords
  BY <1>1 DEF EndedJob, JobRecords
<1> QED
  BY <1>2 DEF EndedJob, JobRecords

ClaimedJob(j, attempt) == [j EXCEPT !.attempt = attempt, !.lease = StepLease, !.patience = Abandoned]
LEMMA ClaimedFields ==
    ASSUME NEW j \in JobRecords, NEW attempt \in Attempts, NEW y, y = ClaimedJob(j, attempt)
    PROVE  /\ y \in JobRecords /\ y.state = j.state /\ y.attempt = attempt /\ y.cp = j.cp
           /\ y.left = j.left /\ y.zip = j.zip
<1>1. StepLease \in Leases /\ Abandoned \in Patience
  BY Limits DEF Leases, Patience
<1>2. y \in JobRecords
  BY <1>1 DEF ClaimedJob, JobRecords
<1> QED
  BY <1>2 DEF ClaimedJob, JobRecords

SweptJob(j, state) == [j EXCEPT !.state = state, !.cleaned = TRUE]
LEMMA SweptFields ==
    ASSUME NEW j \in JobRecords, NEW state \in States, NEW y, y = SweptJob(j, state)
    PROVE  /\ y \in JobRecords /\ y.state = state /\ y.attempt = j.attempt /\ y.cp = j.cp
           /\ y.left = j.left /\ y.zip = j.zip
<1>1. y \in JobRecords
  BY DEF SweptJob, JobRecords
<1> QED
  BY <1>1 DEF SweptJob, JobRecords

OlderJob(j, lease, patience, left) == [j EXCEPT !.lease = lease, !.patience = patience, !.left = left]
LEMMA OlderFields ==
    ASSUME NEW j \in JobRecords, NEW lease \in Leases, NEW patience \in Patience, NEW left \in Days,
           NEW y, y = OlderJob(j, lease, patience, left)
    PROVE  /\ y \in JobRecords /\ y.state = j.state /\ y.attempt = j.attempt /\ y.cp = j.cp
           /\ y.left = left /\ y.zip = j.zip
<1>1. y \in JobRecords
  BY DEF OlderJob, JobRecords
<1> QED
  BY <1>1 DEF OlderJob, JobRecords

\* The first look of an attempt at the job.
Claimant(attempt, cp) == [Idle EXCEPT !.at = "claimed", !.attempt = attempt, !.cp = cp]
LEMMA ClaimantFields ==
    ASSUME NEW attempt \in Attempts, NEW cp \in Checkpoints, NEW y, y = Claimant(attempt, cp)
    PROVE  /\ y \in WorkerRecords /\ y.at = "claimed" /\ y.attempt = attempt /\ y.cp = cp
           /\ y.buf = <<>> /\ y.outcome = "building" /\ y.created = {} /\ y.obsolete = {}
<1>1. "claimed" \in Places
  BY DEF Places
<1>2. y \in WorkerRecords
  BY <1>1, IdleFields DEF Claimant, WorkerRecords
<1> QED
  BY <1>2, IdleFields DEF Claimant, WorkerRecords

-----------------------------------------------------------------------------
(* Steps that change the job *)

\* What a worker knows of the job is the checkpoint.
LEMMA HolderSame ==
    ASSUME NEW m, NEW j, NEW next, NEW st, NEW me, next.cp = j.cp, Holder(m, j, st, me)
    PROVE  Holder(m, next, st, me)
  BY DEF Holder

\* The workers go on as they are.
LEMMA JobTurns ==
    ASSUME ZipInv, NEW next \in JobRecords, job' = next, NEW later \in Stores, store' = later,
           UNCHANGED <<manifest, workers, attempts>>, sources' \subseteq sources,
           sweeping' \in BOOLEAN, next.cp = job.cp, next.attempt <= attempts,
           \A v \in Workers : Holding(next, workers[v]) => Holding(job, workers[v]) /\ later = store,
           JobSound(manifest, next, later), Kept(next) \subseteq Kept(job),
           sweeping' => next.state # "building" /\ next.left = 0
    PROVE  ZipInv'
<1>1. Typed'
  BY DEF ZipInv, Typed
<1>2. Workmen'
  <2>1. ASSUME NEW v \in Workers, Holding(next, workers[v])
        PROVE  Holder(manifest, next, later, workers[v])
    <3>1. Holder(manifest, job, store, workers[v]) /\ later = store
      BY <2>1 DEF ZipInv, Workmen
    <3> QED
      BY <3>1, HolderSame
  <2>2. \A v \in Workers : Own(workers[v])
    BY DEF ZipInv, Workmen
  <2> QED
    BY <2>1, <2>2 DEF Workmen
<1>3. Numbers'
  BY DEF ZipInv, Numbers
<1>4. Apart'
  <2>1. Apart
    BY DEF ZipInv
  <2>2. \A n : Settled(n) => Settled(n)'
    BY DEF Settled
  <2> QED
    BY <2>1, <2>2 DEF Apart
<1>5. Swiping'
  BY DEF Swiping
<1> QED
  BY <1>1, <1>2, <1>3, <1>4, <1>5 DEF ZipInv

\* A worker ends, and nobody holds the claim.
LEMMA ClaimEnds ==
    ASSUME ZipInv, NEW next \in JobRecords, job' = next, next.attempt = 0, job.state = "building",
           UNCHANGED <<manifest, sources, attempts, store, sweeping>>,
           NEW w \in Workers, NEW me \in WorkerRecords, Become(w, me),
           Own(me), ~ Working(me), me.attempt <= attempts,
           me.at # "idle" => workers[w].at # "idle" /\ me.attempt = workers[w].attempt,
           JobSound(manifest, next, store), Len(next.cp.chain) <= attempts,
           \A n \in Kept(next) \cup Swept(me) :
             n \in Kept(job) \/ (n[3] = workers[w].attempt /\ Working(workers[w])),
           Swept(me) \cap Kept(next) = {}
    PROVE  ZipInv'
<1>0. Typed /\ Numbers /\ Apart /\ attempts \in Nat
  BY Limits DEF ZipInv, Typed, Attempts
<1>1. /\ workers' \in [Workers -> WorkerRecords] /\ workers'[w] = me
      /\ \A v \in Workers : v # w => workers'[v] = workers[v]
  BY <1>0, Becomes DEF Typed
<1>2. Typed'
  BY <1>0, <1>1 DEF Typed
<1>3. Workmen'
  <2>1. \A v \in Workers : Own(workers'[v])
    BY <1>1 DEF ZipInv, Workmen
  <2>2. \A v \in Workers : Working(workers'[v]) => workers'[v].attempt # 0
    BY <1>0, <1>1 DEF Numbers, Working
  <2> QED
    BY <2>1, <2>2 DEF Workmen, Holding
<1>4. Numbers'
  <2>1. 0 <= attempts
    BY <1>0
  <2> QED
    BY <1>0, <1>1, <2>1 DEF Numbers
<1>5. Apart'
  <2>1. ASSUME NEW n, Settled(n)
        PROVE  Settled(n)'
    BY <1>1, <2>1 DEF Settled
  <2>2. ASSUME NEW n, n[3] = workers[w].attempt, Working(workers[w])
        PROVE  Settled(n)'
    <3>1. n[3] <= attempts /\ workers[w].at # "idle"
      BY <1>0, <2>2 DEF Numbers, Working
    <3>2. ASSUME NEW v \in Workers, v # w, Working(workers[v])
          PROVE  workers[v].attempt # n[3]
      BY <1>0, <2>2, <3>1, <3>2 DEF Numbers, Working
    <3> QED
      BY <1>1, <3>1, <3>2 DEF Settled
  <2>3. \A n \in Kept(next) \cup Swept(me) : Settled(n)'
    BY <1>0, <2>1, <2>2 DEF Apart
  <2>4. ASSUME NEW v \in Workers, v # w, NEW n \in Swept(workers[v])
        PROVE  Settled(n)' /\ n \notin Kept(next)
    <3>1. Settled(n) /\ n \notin Kept(job)
      BY <1>0 DEF Apart
    <3>2. ~ (n[3] = workers[w].attempt /\ Working(workers[w]))
      BY <3>1 DEF Settled
    <3> QED
      BY <2>1, <3>1, <3>2
  <2> QED
    BY <1>1, <2>3, <2>4 DEF Apart
<1>6. Swiping'
  BY DEF ZipInv, Swiping
<1> QED
  BY <1>2, <1>3, <1>4, <1>5, <1>6 DEF ZipInv

-----------------------------------------------------------------------------
(* Claims and commits *)

LEMMA ClaimStep ==
    ASSUME ZipInv, NEW w \in Workers, Claim(w)
    PROVE  ZipInv'
<1>0. Typed /\ Numbers /\ Apart /\ Workmen /\ job \in JobRecords /\ JobSound(manifest, job, store)
  BY DEF ZipInv, Typed
<1>1. /\ workers[w].at = "idle" /\ job.state = "building" /\ attempts < MaxAttempts
      /\ attempts' = attempts + 1 /\ UNCHANGED <<manifest, sources, store, sweeping>>
  BY DEF Claim
<1>2. PICK attempt \in Attempts : attempt = attempts + 1 /\ attempt \in Nat /\ attempts \in Nat
  BY <1>0, <1>1, Limits DEF Typed, Attempts
<1>3. PICK next : next = ClaimedJob(job, attempt)
  OBVIOUS
<1>4. PICK me : me = Claimant(attempt, job.cp)
  OBVIOUS
<1>5. job' = next /\ Become(w, me)
  BY <1>2, <1>3, <1>4 DEF Claim, ClaimedJob, Claimant
<1>6. /\ next \in JobRecords /\ next.state = job.state /\ next.attempt = attempt
      /\ next.cp = job.cp /\ next.left = job.left /\ next.zip = job.zip
  BY <1>0, <1>3, ClaimedFields
<1>7. job.cp \in Checkpoints /\ Len(job.cp.chain) \in Nat
  BY <1>0, JobFields, CheckpointFields DEF Chains
<1>8. /\ me \in WorkerRecords /\ me.at = "claimed" /\ me.attempt = attempt /\ me.cp = job.cp
      /\ me.buf = <<>> /\ me.outcome = "building" /\ me.created = {} /\ me.obsolete = {}
  BY <1>4, <1>7, ClaimantFields
<1>9. /\ workers' \in [Workers -> WorkerRecords] /\ workers'[w] = me
      /\ \A v \in Workers : v # w => workers'[v] = workers[v]
  BY <1>0, <1>5, <1>8, Becomes DEF Typed
<1>10. \A v \in Workers : workers[v].attempt \in Nat /\ workers[v].attempt < attempt
  <2>1. \A v \in Workers : workers[v].attempt \in Nat
    BY <1>0, WorkerFields DEF Typed
  <2>2. \A v \in Workers : workers[v].attempt <= attempts
    BY <1>0 DEF Numbers
  <2> QED
    BY <1>2, <2>1, <2>2
<1>11. Typed'
  BY <1>0, <1>1, <1>2, <1>5, <1>6, <1>9 DEF Typed
<1>12. Workmen'
  <2>1. Len(job.cp.chain) < attempt /\ Len(job.cp.chain) < ComposeLimit
    <3>1. Len(job.cp.chain) <= attempts
      BY <1>0 DEF Numbers
    <3> QED
      BY <1>0, <1>2, <1>7, <3>1 DEF JobSound
  <2>2. Own(me)
    <3>1. Bounded(me.cp) /\ \A n \in ToSet(me.cp.chain) : n[1] \in Kinds
      BY <1>0, <1>8 DEF JobSound
    <3> QED
      BY <1>8, <2>1, <3>1 DEF Own
  <2>3. Holder(manifest, next, store, me)
    <3>1. Follows(next.cp, me.cp)
      BY <1>6, <1>7, <1>8, FollowsSelf
    <3>2. Sound(manifest, store, me.cp, me.buf)
      BY <1>0, <1>1, <1>8 DEF JobSound
    <3> QED
      BY <1>6, <1>8, <3>1, <3>2 DEF Holder
  <2>4. ASSUME NEW v \in Workers, v # w
        PROVE  Own(workers[v]) /\ ~ Holding(next, workers[v])
    BY <1>0, <1>6, <1>10 DEF Workmen, Holding
  <2> QED
    BY <1>1, <1>5, <1>9, <2>2, <2>3, <2>4 DEF Workmen
<1>13. JobSound(manifest, next, store)
  BY <1>0, <1>1, <1>6 DEF JobSound
<1>14. Numbers'
  <2>1. next.attempt <= attempts' /\ Len(next.cp.chain) <= attempts'
    <3>1. Len(job.cp.chain) <= attempts
      BY <1>0 DEF Numbers
    <3> QED
      BY <1>1, <1>2, <1>6, <1>7, <3>1
  <2>2. \A v \in Workers : /\ workers'[v].attempt <= attempts'
                           /\ workers'[v].at # "idle" => workers'[v].attempt # 0
    <3>1. ASSUME NEW v \in Workers, v # w
          PROVE  /\ workers[v].attempt <= attempts'
                 /\ workers[v].at # "idle" => workers[v].attempt # 0
      <4>1. workers[v].attempt <= attempts'
        BY <1>1, <1>2, <1>10
      <4> QED
        BY <1>0, <4>1 DEF Numbers
    <3>2. me.attempt <= attempts' /\ me.attempt # 0
      BY <1>1, <1>2, <1>8
    <3> QED
      BY <1>9, <3>1, <3>2
  <2>3. ASSUME NEW v \in Workers, NEW u \in Workers, v # u, workers'[v].at # "idle",
               workers'[u].at # "idle"
        PROVE  workers'[v].attempt # workers'[u].attempt
    <3>1. CASE v = w
      BY <1>8, <1>9, <1>10, <2>3, <3>1
    <3>2. CASE u = w
      BY <1>8, <1>9, <1>10, <2>3, <3>2
    <3>3. CASE v # w /\ u # w
      BY <1>0, <1>9, <2>3, <3>3 DEF Numbers
    <3> QED
      BY <3>1, <3>2, <3>3
  <2> QED
    BY <1>5, <2>1, <2>2, <2>3 DEF Numbers
<1>15. Apart'
  <2>1. Kept(next) = Kept(job)
    BY <1>6 DEF Kept
  <2>2. ASSUME NEW n \in Names, Settled(n)
        PROVE  Settled(n)'
    <3>1. n[3] \in Nat /\ n[3] <= attempts
      BY <2>2, NameFields DEF Settled
    <3>2. n[3] <= attempts' /\ n[3] # attempt
      BY <1>1, <1>2, <3>1
    <3> QED
      BY <1>8, <1>9, <2>2, <3>2 DEF Settled
  <2>3. Kept(job) \subseteq Names
    BY <1>1, <1>7, ChainNames DEF Kept
  <2>4. \A v \in Workers : Swept(workers'[v]) \subseteq Swept(workers[v])
    BY <1>8, <1>9 DEF Swept
  <2>5. \A v \in Workers : Swept(workers[v]) \subseteq Names
    BY <1>0, WorkerFields DEF Typed, Swept
  <2> QED
    BY <1>0, <1>5, <2>1, <2>2, <2>3, <2>4, <2>5 DEF Apart
<1>16. Swiping'
  BY <1>1 DEF ZipInv, Swiping
<1> QED
  BY <1>1, <1>5, <1>11, <1>12, <1>13, <1>14, <1>15, <1>16 DEF ZipInv

\* The worker after a commit: it sweeps, or ends at once.
LEMMA FinishFields ==
    ASSUME ZipInv, NEW w \in Workers, workers[w].at # "idle", NEW obsolete \in SUBSET Names,
           Finish(w, obsolete) \/ Leave(w)
    PROVE  \E me \in WorkerRecords :
             /\ Become(w, me) /\ Own(me) /\ ~ Working(me) /\ me.attempt <= attempts
             /\ me.at # "idle" => me.attempt = workers[w].attempt
             /\ Swept(me) \subseteq obsolete
<1>1. workers[w].attempt \in Attempts /\ workers[w].attempt <= attempts /\ attempts \in Nat
  BY WorkerFields, Limits DEF ZipInv, Typed, Numbers, Attempts
<1>2. CASE Leave(w)
  <2>1. PICK me : me = Idle
    OBVIOUS
  <2>2. /\ me \in WorkerRecords /\ me.at = "idle" /\ me.attempt = 0 /\ me.cp = NewCheckpoint
        /\ me.outcome = "building" /\ me.created = {} /\ me.obsolete = {}
    BY <2>1, IdleFields
  <2>3. Own(me) /\ ~ Working(me)
    BY <2>2, OwnAside
  <2>4. Become(w, me) /\ Swept(me) = {} /\ me.attempt <= attempts
    BY <1>1, <1>2, <2>1, <2>2 DEF Leave, Swept
  <2> QED
    BY <2>2, <2>3, <2>4
<1>3. CASE Finish(w, obsolete)
  <2>1. PICK me : me = Swiper(workers[w].attempt, obsolete)
    OBVIOUS
  <2>2. /\ me \in WorkerRecords /\ me.at = "sweep" /\ me.attempt = workers[w].attempt
        /\ me.cp = NewCheckpoint /\ me.outcome = "building" /\ me.created = {}
        /\ me.obsolete = obsolete
    BY <1>1, <2>1, SwiperFields
  <2>3. Own(me) /\ ~ Working(me)
    BY <2>2, OwnAside
  <2>4. Become(w, me) /\ Swept(me) = obsolete
    BY <1>3, <2>1, <2>2 DEF Finish, Swiper, Swept
  <2> QED
    BY <1>1, <2>2, <2>3, <2>4
<1> QED
  BY <1>2, <1>3

\* The new checkpoint is committed.
LEMMA CommitStep ==
    ASSUME ZipInv, NEW w \in Workers, Commit(w)
    PROVE  ZipInv'
<1>1. PICK me : me = workers[w]
  OBVIOUS
<1>2. /\ me \in WorkerRecords /\ me.cp \in Checkpoints /\ Own(me) /\ Bounded(me.cp)
      /\ job \in JobRecords /\ job.cp \in Checkpoints
  BY <1>1, InLoop, JobFields
<1>3. me.at = "commit" /\ Working(me) /\ Holding(job, me) /\ job.state = "building"
      /\ UNCHANGED <<manifest, sources, attempts, store, sweeping>>
  BY <1>1 DEF Commit, Fenced, Working, Holding
<1>4. Holder(manifest, job, store, me)
  BY <1>1, <1>3 DEF ZipInv, Workmen
<1>5. PICK left \in Days : left = IF me.outcome = "building" THEN job.left ELSE ReadyTtl
  BY <1>2, JobFields, Limits DEF Days
<1>6. me.outcome \in States /\ me.outcome # "ready" /\ me.obsolete \in SUBSET Names
  BY <1>2, <1>3, WorkerFields DEF Own, Outcomes, States, Ended
<1>7. PICK freed : freed = Freed(job, me.outcome)
  OBVIOUS
<1>8. /\ freed \in JobRecords /\ freed.state = me.outcome /\ freed.attempt = 0
  BY <1>2, <1>6, <1>7, FreedFields
<1>9. PICK next : next = CommittedJob(freed, me.cp, left)
  OBVIOUS
<1>10. /\ next \in JobRecords /\ next.state = me.outcome /\ next.attempt = 0 /\ next.cp = me.cp
  BY <1>2, <1>8, <1>9, CommittedFields
<1>11. job' = next /\ (Finish(w, me.obsolete) \/ Leave(w))
  BY <1>1, <1>5, <1>7, <1>9 DEF Commit, Release, Freed, CommittedJob
<1>12. PICK y \in WorkerRecords :
         /\ Become(w, y) /\ Own(y) /\ ~ Working(y) /\ y.attempt <= attempts
         /\ y.at # "idle" => y.attempt = workers[w].attempt
         /\ Swept(y) \subseteq me.obsolete
  <2>1. workers[w].at # "idle" /\ (Finish(w, me.obsolete) \/ Leave(w))
    BY <1>1, <1>3, <1>11
  <2> QED
    BY <1>6, <2>1, FinishFields
<1>13. Len(me.cp.chain) <= me.attempt /\ Len(me.cp.chain) < ComposeLimit
  BY <1>2, <1>3 DEF Own
<1>14. JobSound(manifest, next, store)
  <2>1. \A n \in ToSet(me.cp.chain) : n[1] \in Kinds
    BY <1>2 DEF Own
  <2>2. me.outcome = "building" => Sound(manifest, store, me.cp, <<>>)
    BY <1>3, <1>4 DEF Holder
  <2> QED
    BY <1>2, <1>6, <1>10, <1>13, <2>1, <2>2 DEF JobSound
<1>15. Len(next.cp.chain) <= attempts
  <2>1. me.attempt <= attempts
    BY <1>1 DEF ZipInv, Numbers
  <2>2. attempts \in Nat /\ me.attempt \in Nat /\ Len(me.cp.chain) \in Nat
    BY <1>2, WorkerFields, CheckpointFields, Limits DEF ZipInv, Typed, Attempts, Chains
  <2> QED
    BY <1>10, <1>13, <2>1, <2>2
<1>16. \A n \in ToSet(me.cp.chain) \cup me.obsolete : n \in Kept(job) \/ n[3] = me.attempt
  BY <1>3, <1>4 DEF Holder, Kept
<1>17. Kept(next) \subseteq ToSet(me.cp.chain)
  BY <1>6, <1>10 DEF Kept
<1>18. Swept(y) \cap Kept(next) = {}
  <2>1. me.obsolete \cap ToSet(me.cp.chain) = {}
    BY <1>4 DEF Holder
  <2> QED
    BY <1>12, <1>17, <2>1
<1>19. \A n \in Kept(next) \cup Swept(y) :
         n \in Kept(job) \/ (n[3] = workers[w].attempt /\ Working(workers[w]))
  BY <1>1, <1>3, <1>12, <1>16, <1>17
<1>20. workers[w].at # "idle"
  BY <1>1, <1>3
<1> QED
  BY <1>3, <1>10, <1>11, <1>12, <1>14, <1>15, <1>18, <1>19, <1>20, ClaimEnds

\* The job ends with its ZIP, or without.
LEMMA PublishStep ==
    ASSUME ZipInv, NEW w \in Workers, Publish(w)
    PROVE  ZipInv'
<1>1. PICK me : me = workers[w]
  OBVIOUS
<1>2. /\ me \in WorkerRecords /\ me.cp \in Checkpoints /\ Own(me) /\ Bounded(me.cp)
      /\ job \in JobRecords /\ job.cp \in Checkpoints /\ JobSound(manifest, job, store)
  BY <1>1, InLoop, JobFields DEF ZipInv
<1>3. me.at = "publish" /\ Working(me) /\ Holding(job, me) /\ job.state = "building"
      /\ UNCHANGED <<manifest, sources, attempts, store, sweeping>>
  BY <1>1 DEF Publish, Fenced, Working, Holding
<1>4. Holder(manifest, job, store, me)
  BY <1>1, <1>3 DEF ZipInv, Workmen
<1>5. /\ me.outcome \in States /\ me.outcome \in Outcomes /\ me.created \in SUBSET Names
      /\ ToSet(me.cp.chain) \in SUBSET Names
  BY <1>2, WorkerFields, ChainNames DEF Outcomes, States, Ended
<1>6. PICK name \in Names : name = ZipName(me) /\ name[3] = me.attempt
  BY <1>1, <1>3, EndNames
<1>7. PICK zip \in Names \cup {<<>>} : zip = IF me.outcome = "ready" THEN name ELSE <<>>
  OBVIOUS
<1>8. PICK obsolete \in SUBSET Names :
        obsolete = IF me.outcome = "ready" THEN ToSet(me.cp.chain) \cup (me.created \ {name}) ELSE {name}
  BY <1>5
<1>9. PICK freed : freed = Freed(job, me.outcome)
  OBVIOUS
<1>10. /\ freed \in JobRecords /\ freed.state = me.outcome /\ freed.attempt = 0
       /\ freed.cp = job.cp
  BY <1>2, <1>5, <1>9, FreedFields
<1>11. PICK next : next = PublishedJob(freed, zip, ReadyTtl)
  OBVIOUS
<1>12. /\ next \in JobRecords /\ next.state = me.outcome /\ next.attempt = 0 /\ next.cp = job.cp
       /\ next.zip = zip
  <2>1. ReadyTtl \in Days
    BY Limits DEF Days
  <2> QED
    BY <1>10, <1>11, <2>1, PublishedFields
<1>13. job' = next /\ (Finish(w, obsolete) \/ Leave(w))
  <2>1. job' = [Release(me.outcome) EXCEPT !.zip = IF me.outcome = "ready" THEN name ELSE <<>>,
                                           !.left = ReadyTtl]
    BY <1>1, <1>6 DEF Publish, ZipName
  <2>2. \/ Finish(w, IF me.outcome = "ready" THEN ToSet(me.cp.chain) \cup (me.created \ {name})
                                              ELSE {name})
        \/ Leave(w)
    BY <1>1, <1>6 DEF Publish, ZipName
  <2>3. Release(me.outcome) = freed
    BY <1>9 DEF Release, Freed
  <2> QED
    BY <1>7, <1>8, <1>11, <2>1, <2>2, <2>3 DEF PublishedJob
<1>14. PICK y \in WorkerRecords :
         /\ Become(w, y) /\ Own(y) /\ ~ Working(y) /\ y.attempt <= attempts
         /\ y.at # "idle" => y.attempt = workers[w].attempt
         /\ Swept(y) \subseteq obsolete
  <2>1. workers[w].at # "idle" /\ (Finish(w, obsolete) \/ Leave(w))
    BY <1>1, <1>3, <1>13
  <2> QED
    BY <2>1, FinishFields
<1>15. JobSound(manifest, next, store)
  <2>1. Bounded(job.cp) /\ Len(job.cp.chain) < ComposeLimit
        /\ \A n \in ToSet(job.cp.chain) : n[1] \in Kinds
    BY <1>2 DEF JobSound
  <2>2. Sound(manifest, store, job.cp, <<>>)
    BY <1>2, <1>3 DEF JobSound
  <2>3. ASSUME me.outcome = "ready"
        PROVE  /\ zip \in DOMAIN store
               /\ store[zip] = Progress(manifest, job.cp) \o EndOf(manifest, job.cp)
               /\ job.cp.done = N /\ ~ job.cp.open /\ Listed(manifest, job.cp)
    <3>1. me.cp = job.cp /\ me.cp.done = N /\ ~ me.cp.open
      BY <1>3, <1>4 DEF Holder
    <3>2. /\ ZipName(me) \in DOMAIN store
          /\ store[ZipName(me)] = Progress(manifest, me.cp) \o EndOf(manifest, me.cp)
      BY <1>3, <1>4 DEF Holder
    <3>3. Listed(manifest, job.cp)
      BY <2>2 DEF Sound
    <3> QED
      BY <1>6, <1>7, <2>3, <3>1, <3>2, <3>3
  <2> QED
    BY <1>12, <2>1, <2>2, <2>3 DEF JobSound
<1>16. Len(next.cp.chain) <= attempts
  BY <1>12 DEF ZipInv, Numbers
<1>17. /\ \A n \in ToSet(me.cp.chain) : n \in Kept(job) /\ n[1] \in Kinds
       /\ \A n \in me.created : n[3] = me.attempt
  <2>1. \A n \in ToSet(me.cp.chain) : n \in ToSet(job.cp.chain)
    BY <1>3, <1>4 DEF Holder
  <2> QED
    BY <1>2, <1>3, <2>1 DEF Kept, Own
<1>18. name[1] \notin Kinds
  BY <1>6, NamesDiffer
<1>19. \A n \in Kept(next) : (n \in ToSet(job.cp.chain) /\ me.outcome = "building")
                              \/ (n = name /\ me.outcome = "ready")
  BY <1>7, <1>12 DEF Kept
<1>20. Kept(job) = ToSet(job.cp.chain) /\ \A n \in ToSet(job.cp.chain) : n[1] \in Kinds
  BY <1>2, <1>3 DEF Kept, JobSound
<1>21. \A n \in Kept(next) \cup Swept(y) : n \in Kept(job) \/ n[3] = me.attempt
  BY <1>6, <1>8, <1>14, <1>17, <1>19, <1>20
<1>22. Swept(y) \cap Kept(next) = {}
  BY <1>8, <1>14, <1>17, <1>18, <1>19, <1>20
<1>23. \A n \in Kept(next) \cup Swept(y) :
         n \in Kept(job) \/ (n[3] = workers[w].attempt /\ Working(workers[w]))
  BY <1>1, <1>3, <1>21
<1>24. workers[w].at # "idle"
  BY <1>1, <1>3
<1> QED
  BY <1>3, <1>12, <1>13, <1>14, <1>15, <1>16, <1>22, <1>23, <1>24, ClaimEnds

\* After an exception the claim is given back, if it is still there.
LEMMA GiveUpStep ==
    ASSUME ZipInv, NEW w \in Workers, GiveUp(w)
    PROVE  ZipInv'
<1>1. workers[w].at = "giveup" /\ Leave(w) /\ UNCHANGED <<manifest, sources, attempts, store, sweeping>>
  BY DEF GiveUp
<1>2. CASE ~ Fenced(w)
  <2>1. UNCHANGED job
    BY <1>2 DEF GiveUp
  <2> QED
    BY <1>1, <2>1, WorkerStops
<1>3. CASE Fenced(w)
  <2>1. job.state = "building" /\ job \in JobRecords /\ JobSound(manifest, job, store)
    BY <1>3 DEF Fenced, ZipInv, Typed
  <2>2. PICK next : next = Freed(job, "building")
    OBVIOUS
  <2>3. job' = next
    BY <1>3, <2>2 DEF GiveUp, Release, Freed
  <2>4. /\ next \in JobRecords /\ next.state = "building" /\ next.attempt = 0
        /\ next.cp = job.cp
    BY <2>1, <2>2, FreedFields DEF States
  <2>5. PICK y \in WorkerRecords :
          /\ Become(w, y) /\ Own(y) /\ ~ Working(y) /\ y.attempt <= attempts
          /\ y.at # "idle" => y.attempt = workers[w].attempt
          /\ Swept(y) \subseteq {}
    <3>1. workers[w].at # "idle" /\ {} \in SUBSET Names
      BY <1>1
    <3> QED
      BY <1>1, <3>1, FinishFields
  <2>6. JobSound(manifest, next, store)
    BY <2>1, <2>4 DEF JobSound
  <2>7. Kept(next) = Kept(job) /\ Len(next.cp.chain) <= attempts
    BY <2>1, <2>4 DEF Kept, ZipInv, Numbers
  <2> QED
    BY <1>1, <2>1, <2>3, <2>4, <2>5, <2>6, <2>7, ClaimEnds
<1> QED
  BY <1>2, <1>3

-----------------------------------------------------------------------------
(* The user, the cleanup and the time *)

LEMMA CancelStep ==
    ASSUME ZipInv, Cancel \/ Abandon
    PROVE  ZipInv'
<1>1. job.state = "building" /\ UNCHANGED <<manifest, sources, workers, attempts, store, sweeping>>
  BY DEF Cancel, Abandon
<1>2. job \in JobRecords /\ store \in Stores /\ sweeping \in BOOLEAN /\ attempts \in Nat
      /\ JobSound(manifest, job, store) /\ ~ sweeping
  BY <1>1, Limits DEF ZipInv, Typed, Swiping, Attempts
<1>3. PICK state \in {"cancelled", "failed"} : job' = [Release(state) EXCEPT !.left = 0]
  BY DEF Cancel, Abandon
<1>4. state \in States
  BY DEF States, Ended
<1>5. PICK freed : freed = Freed(job, state)
  OBVIOUS
<1>6. freed \in JobRecords /\ freed.state = state /\ freed.attempt = 0 /\ freed.cp = job.cp
  BY <1>2, <1>4, <1>5, FreedFields
<1>7. PICK next : next = EndedJob(freed)
  OBVIOUS
<1>8. next \in JobRecords /\ next.state = state /\ next.attempt = 0 /\ next.cp = job.cp
  BY <1>6, <1>7, EndedFields
<1>9. job' = next
  BY <1>3, <1>5, <1>7 DEF Release, Freed, EndedJob
<1>10. \A v \in Workers : ~ Holding(next, workers[v])
  BY <1>8 DEF Holding
<1>11. JobSound(manifest, next, store) /\ Kept(next) = {}
  BY <1>2, <1>8 DEF JobSound, Kept
<1>12. next.attempt <= attempts
  BY <1>2, <1>8
<1> QED
  BY <1>1, <1>2, <1>8, <1>9, <1>10, <1>11, <1>12, JobTurns

\* The objects of an ended job are deleted.
LEMMA SweepStep ==
    ASSUME ZipInv, Sweep
    PROVE  ZipInv'
<1>1. job.state # "building" /\ job.left = 0
      /\ UNCHANGED <<manifest, sources, job, workers, attempts>>
  BY DEF Sweep
<1>2. job \in JobRecords /\ store \in Stores /\ sweeping \in BOOLEAN /\ job.attempt <= attempts
      /\ JobSound(manifest, job, store)
  BY DEF ZipInv, Typed, Numbers
<1>3. PICK later \in Stores : store' = later /\ sweeping' \in BOOLEAN
  <2>1. CASE store' = <<>> /\ sweeping' = TRUE
    <3>1. <<>> = [n \in {} |-> <<>>]
      OBVIOUS
    <3>2. <<>> \in Stores
      BY <3>1 DEF Stores
    <3> QED
      BY <2>1, <3>2
  <2>2. ASSUME NEW name, DropObjects({name}), UNCHANGED sweeping
        PROVE  \E later \in Stores : store' = later /\ sweeping' \in BOOLEAN
    BY <1>2, <2>2, Drops
  <2> QED
    BY <2>1, <2>2 DEF Sweep
<1>4. JobSound(manifest, job, later)
  BY <1>1, <1>2 DEF JobSound
<1>5. \A v \in Workers : ~ Holding(job, workers[v])
  BY <1>1 DEF Holding
<1> QED
  BY <1>1, <1>2, <1>3, <1>4, <1>5, JobTurns

\* The deletion is recorded.
LEMMA RecordSweepStep ==
    ASSUME ZipInv, RecordSweep
    PROVE  ZipInv'
<1>1. sweeping /\ sweeping' = FALSE /\ UNCHANGED <<manifest, sources, workers, attempts, store>>
  BY DEF RecordSweep
<1>2. job \in JobRecords /\ store \in Stores /\ job.attempt <= attempts
      /\ JobSound(manifest, job, store) /\ job.state # "building"
  BY <1>1 DEF ZipInv, Typed, Numbers, Swiping
<1>3. PICK state \in States :
        state = (IF job.state = "ready" THEN "expired" ELSE job.state)
        /\ state \notin {"building", "ready"}
  BY <1>2, JobFields DEF States, Ended
<1>4. PICK next : next = SweptJob(job, state)
  OBVIOUS
<1>5. job' = next
  BY <1>3, <1>4 DEF RecordSweep, SweptJob
<1>6. next \in JobRecords /\ next.state = state /\ next.attempt = job.attempt /\ next.cp = job.cp
  BY <1>2, <1>4, SweptFields
<1>7. \A v \in Workers : ~ Holding(next, workers[v])
  BY <1>3, <1>6 DEF Holding
<1>8. JobSound(manifest, next, store) /\ Kept(next) = {}
  BY <1>2, <1>3, <1>6 DEF JobSound, Kept
<1>9. ~ sweeping' /\ sweeping' \in BOOLEAN /\ next.attempt <= attempts
  BY <1>1, <1>2, <1>6
<1> QED
  BY <1>1, <1>2, <1>5, <1>6, <1>7, <1>8, <1>9, JobTurns

\* The cleanup stops before it is recorded.
LEMMA SweepCrashStep ==
    ASSUME ZipInv, SweepCrash
    PROVE  ZipInv'
<1>1. sweeping' = FALSE /\ UNCHANGED <<manifest, sources, job, workers, attempts, store>>
  BY DEF SweepCrash
<1>2. job \in JobRecords /\ store \in Stores /\ job.attempt <= attempts
      /\ JobSound(manifest, job, store)
  BY DEF ZipInv, Typed, Numbers
<1> QED
  BY <1>1, <1>2, JobTurns

\* The object of a file goes.
LEMMA VanishStep ==
    ASSUME ZipInv, NEW f \in Files, Vanish(f)
    PROVE  ZipInv'
<1>1. sources' \subseteq sources /\ UNCHANGED <<manifest, job, workers, attempts, store, sweeping>>
  BY DEF Vanish
<1>2. job \in JobRecords /\ store \in Stores /\ job.attempt <= attempts /\ sweeping \in BOOLEAN
      /\ JobSound(manifest, job, store) /\ (sweeping => job.state # "building" /\ job.left = 0)
  BY DEF ZipInv, Typed, Numbers, Swiping
<1> QED
  BY <1>1, <1>2, JobTurns

\* A deadline comes nearer.
LEMMA LessIs ==
    ASSUME NEW n \in Nat
    PROVE  Less(n) \in Nat /\ Less(n) <= n
  BY DEF Less

\* Time passes.
LEMMA TickStep ==
    ASSUME ZipInv, Tick
    PROVE  ZipInv'
<1>1. UNCHANGED <<manifest, sources, workers, attempts, store, sweeping>>
  BY DEF Tick
<1>2. job \in JobRecords /\ store \in Stores /\ job.attempt <= attempts /\ sweeping \in BOOLEAN
      /\ JobSound(manifest, job, store) /\ (sweeping => job.state # "building" /\ job.left = 0)
  BY DEF ZipInv, Typed, Numbers, Swiping
<1>3. job.lease \in Leases /\ job.patience \in Patience /\ job.left \in Days /\ job.left \in Nat
  BY <1>2, JobFields
<1>4. PICK lease \in Leases : lease = Less(job.lease)
  BY <1>3, LessIs, Limits DEF Leases
<1>5. PICK patience \in Patience : patience = Less(job.patience)
  BY <1>3, LessIs, Limits DEF Patience
<1>6. PICK left \in Days :
        left = (IF job.state = "building" THEN job.left ELSE Less(job.left))
        /\ left \in Nat /\ left <= job.left
  BY <1>3, LessIs, Limits DEF Days
<1>7. PICK next : next = OlderJob(job, lease, patience, left)
  OBVIOUS
<1>8. job' = next
  BY <1>4, <1>5, <1>6, <1>7 DEF Tick, OlderJob
<1>9. /\ next \in JobRecords /\ next.state = job.state /\ next.attempt = job.attempt
      /\ next.cp = job.cp /\ next.left = left /\ next.zip = job.zip
  BY <1>2, <1>7, OlderFields
<1>10. next.left > 0 => job.left > 0
  BY <1>3, <1>6, <1>9
<1>11. job.left = 0 => next.left = 0
  BY <1>6, <1>9
<1>12. JobSound(manifest, next, store) /\ Kept(next) = Kept(job)
  BY <1>2, <1>9, <1>10 DEF JobSound, Kept
<1>13. \A v \in Workers : Holding(next, workers[v]) => Holding(job, workers[v])
  BY <1>9 DEF Holding
<1> QED
  BY <1>1, <1>2, <1>8, <1>9, <1>11, <1>12, <1>13, JobTurns

-----------------------------------------------------------------------------
(* The invariant *)

LEMMA NothingYet ==
    ASSUME NEW m \in Manifests
    PROVE  Sound(m, <<>>, NewCheckpoint, <<>>)
<1>1. PICK cp \in Checkpoints :
        /\ cp = NewCheckpoint /\ cp.chain = <<>> /\ cp.entries = <<>> /\ cp.missing = {}
        /\ ~ cp.open /\ cp.written = 0 /\ cp.done = 0
  BY NewFields
<1>2. StoredIn(<<>>, cp.chain) /\ ContentIn(<<>>, cp.chain) = <<>>
  <2>1. ContentIn(<<>>, cp.chain) = FlattenSeq(<<>>)
    <3>1. PICK st : st = <<>>
      OBVIOUS
    <3>2. DOMAIN cp.chain = {}
      BY <1>1
    <3>3. [i \in DOMAIN cp.chain |-> st[cp.chain[i]]] = <<>>
      BY <3>2
    <3> QED
      BY <3>1, <3>3 DEF ContentIn
  <2> QED
    BY <1>1, <2>1, FlattenEmpty DEF StoredIn
<1>3. Progress(m, cp) = <<>>
  <2>1. FilesOf(cp.entries) = <<>>
    BY <1>1 DEF FilesOf
  <2>2. PICK files : files = FilesOf(cp.entries) /\ DOMAIN files = {}
    BY <2>1
  <2>3. [i \in DOMAIN files |-> WholeFile(m, files[i])] = <<>>
    BY <2>2
  <2>4. WholeFiles(m, FilesOf(cp.entries)) = <<>>
    BY <2>2, <2>3, FlattenEmpty DEF WholeFiles
  <2>5. Opened(cp) = <<>>
    BY <1>1 DEF Opened
  <2> QED
    BY <2>4, <2>5 DEF Progress
<1>4. Listed(m, cp)
  <2>1. \A f \in Files : ~ (f <= cp.done)
    BY <1>1, Numbered
  <2>2. DOMAIN cp.entries = {}
    BY <1>1
  <2> QED
    BY <1>1, <2>1, <2>2 DEF Listed
<1>5. Len(ContentIn(<<>>, cp.chain)) = cp.written
      /\ ContentIn(<<>>, cp.chain) \o <<>> = Progress(m, cp)
  BY <1>1, <1>2, <1>3
<1> QED
  BY <1>1, <1>2, <1>4, <1>5 DEF Sound

\* A new job.
LEMMA InitInv == Init => ZipInv
<1> SUFFICES ASSUME Init
             PROVE  ZipInv
  OBVIOUS
<1>1. manifest \in Manifests /\ sources = Files /\ attempts = 0 /\ store = <<>> /\ sweeping = FALSE
      /\ workers = [w \in Workers |-> Idle]
  BY DEF Init, Manifests
<1>2. store \in Stores
  <2>1. <<>> = [n \in {} |-> <<>>]
    OBVIOUS
  <2> QED
    BY <1>1, <2>1 DEF Stores
<1>3. /\ job \in JobRecords /\ job.state = "building" /\ job.cp = NewCheckpoint /\ job.attempt = 0
  <2>1. /\ "building" \in States /\ 0 \in Attempts /\ 0 \in Leases /\ Abandoned \in Patience
        /\ ReadyTtl \in Days /\ NewCheckpoint \in Checkpoints
    BY Limits, NewFields DEF States, Attempts, Leases, Patience, Days
  <2>2. job = [state |-> "building", cp |-> NewCheckpoint, attempt |-> 0, lease |-> 0,
               patience |-> Abandoned, left |-> ReadyTtl, zip |-> <<>>, cleaned |-> FALSE]
    BY DEF Init
  <2>3. job \in JobRecords
    BY <2>1, <2>2 DEF JobRecords
  <2> QED
    BY <2>2, <2>3
<1>4. Idle \in WorkerRecords /\ Idle.at = "idle" /\ Idle.attempt = 0 /\ Own(Idle) /\ ~ Working(Idle)
  BY IdleFields, OwnAside
<1>5. Typed
  <2>1. attempts \in Attempts
    BY <1>1, Limits DEF Attempts
  <2> QED
    BY <1>1, <1>2, <1>3, <1>4, <2>1 DEF Typed
<1>6. Workmen
  BY <1>1, <1>4 DEF Workmen, Holding
<1>7. NewCheckpoint.chain = <<>> /\ ~ NewCheckpoint.open /\ NewCheckpoint.read = 0
  BY NewFields
<1>8. JobSound(manifest, job, store)
  <2>1. Bounded(job.cp) /\ Len(job.cp.chain) = 0 /\ ToSet(job.cp.chain) = {}
    BY <1>3, <1>7 DEF Bounded, ToSet
  <2>2. Sound(manifest, store, job.cp, <<>>)
    BY <1>1, <1>3, NothingYet
  <2>3. 0 < ComposeLimit
    BY Limits
  <2> QED
    BY <1>3, <2>1, <2>2, <2>3 DEF JobSound
<1>9. Numbers
  <2>1. Len(job.cp.chain) = 0
    BY <1>3, <1>7
  <2> QED
    BY <1>1, <1>3, <1>4, <2>1 DEF Numbers
<1>10. Apart
  <2>1. Kept(job) = {} /\ Swept(Idle) = {}
    BY <1>3, <1>4, <1>7 DEF Kept, Swept, ToSet
  <2> QED
    BY <1>1, <2>1 DEF Apart
<1> QED
  BY <1>1, <1>5, <1>6, <1>8, <1>9, <1>10 DEF ZipInv, Swiping

\* Every step.
LEMMA NextInv == ZipInv /\ [Next]_vars => ZipInv'
<1> SUFFICES ASSUME ZipInv, [Next]_vars
             PROVE  ZipInv'
  OBVIOUS
<1>1. ASSUME NEW w \in Workers, WorkerStep(w)
      PROVE  ZipInv'
  <2>1. CASE Claim(w) \/ Begin(w)
    BY <2>1, ClaimStep, BeginStep
  <2>2. CASE Skip(w) \/ Open(w)
    BY <2>2, SkipStep, OpenStep
  <2>3. CASE Resume(w) \/ StopReading(w)
    BY <2>3, ResumeStep
  <2>4. CASE ReadChunk(w)
    BY <2>4, ChunkStep
  <2>5. CASE WritePart(w) \/ Compose(w)
    BY <2>5, WritePartStep, ComposeStep
  <2>6. CASE Commit(w) \/ CommitLost(w) \/ SweepObsolete(w)
    BY <2>6, CommitStep, CommitLostStep, SweepObsoleteStep
  <2>7. CASE WriteEnd(w) \/ ComposeZip(w)
    BY <2>7, WriteEndStep, ComposeZipStep
  <2>8. CASE Verify(w) \/ Publish(w)
    BY <2>8, VerifyStep, PublishStep
  <2>9. CASE Fail(w) \/ GiveUp(w) \/ Crash(w)
    BY <2>9, FailStep, GiveUpStep, CrashStep
  <2> QED
    BY <1>1, <2>1, <2>2, <2>3, <2>4, <2>5, <2>6, <2>7, <2>8, <2>9 DEF WorkerStep
<1>2. CASE Cancel \/ Abandon
  BY <1>2, CancelStep
<1>3. CASE Sweep \/ RecordSweep \/ SweepCrash
  BY <1>3, SweepStep, RecordSweepStep, SweepCrashStep
<1>4. CASE \E f \in Files : Vanish(f)
  BY <1>4, VanishStep
<1>5. CASE Tick
  BY <1>5, TickStep
<1>6. CASE UNCHANGED vars
  <2>1. UNCHANGED <<manifest, sources, job, workers, attempts, store, sweeping>>
    BY <1>6 DEF vars
  <2>2. Typed' /\ Workmen' /\ JobSound(manifest, job, store)'
    BY <2>1 DEF ZipInv, Typed, Workmen
  <2>3. Numbers' /\ Apart' /\ Swiping'
    BY <2>1 DEF ZipInv, Numbers, Apart, Settled, Swiping
  <2> QED
    BY <2>2, <2>3 DEF ZipInv
<1> QED
  BY <1>1, <1>2, <1>3, <1>4, <1>5, <1>6 DEF Next

\* What holds of a job at any moment: the parts are the ZIP so far, whatever
\* attempts come late, and what these write and delete is their own.
THEOREM ZipInvariant == Spec => []ZipInv
<1> QED
  BY InitInv, NextInv, PTL DEF Spec

-----------------------------------------------------------------------------
(* What follows *)

\* Every variable holds what the code can put there, claims have numbers that
\* were given out, and an open file is one of the manifest.
THEOREM TypeCorrect == Spec => []TypeOK
<1>1. ASSUME ZipInv
      PROVE  TypeOK
  <2>0. Typed /\ Workmen /\ JobSound(manifest, job, store) /\ Numbers
    BY <1>1 DEF ZipInv
  <2>1. manifest \in [size : Sizes, partial : BOOLEAN] /\ sources \subseteq Files
    BY <2>0 DEF Typed, Manifests
  <2>2. job \in JobRecords /\ job.attempt \in Nat /\ attempts \in 0 .. MaxAttempts /\ attempts \in Nat
    BY <2>0, JobFields, Limits DEF Typed, Attempts
  <2>3. job.state \in {"building"} \cup Ended /\ job.attempt \in 0 .. attempts
    BY <2>0, <2>2, JobFields DEF States, Numbers
  <2>4. /\ job.lease \in 0 .. StepLease /\ job.patience \in 0 .. Abandoned
        /\ job.left \in 0 .. ReadyTtl /\ job.cleaned \in BOOLEAN /\ job.zip \in Names \cup {<<>>}
    BY <2>2, JobFields DEF Leases, Patience, Days
  <2>5. DOMAIN store \subseteq Names /\ sweeping \in BOOLEAN
    BY <2>0, StoreFields DEF Typed
  <2>6. ASSUME NEW cp \in Checkpoints, Bounded(cp)
        PROVE  /\ cp.done \in 0 .. N /\ cp.missing \subseteq Files /\ (cp.open => cp.done < N)
               /\ \A i \in DOMAIN cp.chain : cp.chain[i] \in Names
    BY <2>6, CheckpointFields DEF Bounded, Chains
  <2>7. \A cp \in {job.cp} \cup {workers[w].cp : w \in Workers} : cp \in Checkpoints /\ Bounded(cp)
    <3>1. job.cp \in Checkpoints /\ Bounded(job.cp)
      BY <2>0, <2>2, JobFields DEF JobSound
    <3>2. ASSUME NEW w \in Workers
          PROVE  workers[w].cp \in Checkpoints /\ Bounded(workers[w].cp)
      BY <2>0, WorkerFields DEF Typed, Workmen, Own
    <3> QED
      BY <3>1, <3>2
  <2>8. ASSUME NEW w \in Workers
        PROVE  /\ workers[w].at \in Places /\ workers[w].attempt \in 0 .. attempts
               /\ workers[w].outcome \in {"building", "incomplete", "failed", "ready"}
               /\ workers[w].created \cup workers[w].obsolete \subseteq Names
    <3>1. workers[w] \in WorkerRecords /\ workers[w].attempt <= attempts
      BY <2>0 DEF Typed, Numbers
    <3>2. /\ workers[w].at \in Places /\ workers[w].attempt \in Nat
          /\ workers[w].outcome \in Outcomes /\ workers[w].created \in SUBSET Names
          /\ workers[w].obsolete \in SUBSET Names
      BY <3>1, WorkerFields
    <3> QED
      BY <2>2, <3>1, <3>2 DEF Outcomes
  <2> QED
    BY <2>1, <2>2, <2>3, <2>4, <2>5, <2>6, <2>7, <2>8 DEF TypeOK, Places
<1> QED
  BY <1>1, ZipInvariant, PTL

\* While a job is built its parts are there and as long as the checkpoint says,
\* and the last composition stays within the limit of the storage.
THEOREM PartsFitAlways == Spec => []PartsFit
<1>1. ASSUME ZipInv
      PROVE  PartsPresent
  <2>1. ASSUME job.state = "building"
        PROVE  Stored(job.cp.chain) /\ Len(Content(job.cp.chain)) = job.cp.written
    <3>1. Sound(manifest, store, job.cp, <<>>)
      BY <1>1, <2>1 DEF ZipInv, JobSound
    <3> QED
      BY <3>1 DEF Sound, StoredIn, ContentIn, Stored, Content
  <2> QED
    BY <2>1 DEF PartsPresent
<1>2. ASSUME ZipInv
      PROVE  ComposeFits
  <2>1. ASSUME NEW w \in Workers, workers[w].at = "zip"
        PROVE  Len(workers[w].cp.chain) + 1 <= ComposeLimit
    <3>1. Len(workers[w].cp.chain) < ComposeLimit
      BY <1>2, <2>1 DEF ZipInv, Workmen, Own, Working
    <3>2. Len(workers[w].cp.chain) \in Nat /\ ComposeLimit \in Nat
      <4>1. workers[w].cp \in Checkpoints
        BY <1>2, InLoop
      <4> QED
        BY <4>1, CheckpointFields, Limits DEF Chains
    <3> QED
      BY <3>1, <3>2
  <2> QED
    BY <2>1 DEF ComposeFits
<1>3. ZipInv => PartsFit
  BY <1>1, <1>2 DEF PartsFit
<1> QED
  BY <1>3, ZipInvariant, PTL

\* What stands before the seam of two sequences.
LEMMA Before ==
    ASSUME NEW E, NEW s \in Seq(E), NEW t \in Seq(E), NEW i \in Nat, i < Len(s)
    PROVE  (s \o t)[i + 1] = s[i + 1]
  OBVIOUS

\* A ready ZIP can be downloaded and is what was promised: every file that is
\* not missing, once, whole and at the place the directory gives.
THEOREM ReadyIsComplete == Spec => []ReadyComplete
<1>1. ASSUME ZipInv, job.state = "ready", job.left > 0
      PROVE  LET entries == job.cp.entries
                 files   == [i \in DOMAIN entries |-> entries[i].file]
                 tail    == EndRecords(job.cp)
             IN  /\ job.zip \in DOMAIN store
                 /\ store[job.zip] = Whole(files) \o tail
                 /\ job.cp.missing # {} => manifest.partial
                 /\ ToSet(files) = Files \ job.cp.missing
                 /\ \A i, k \in DOMAIN files : i < k => files[i] < files[k]
                 /\ \A i \in DOMAIN entries :
                      store[job.zip][entries[i].offset + 1] = Header(files[i])
  <2> DEFINE entries == job.cp.entries
             files   == [i \in DOMAIN entries |-> entries[i].file]
             tail    == EndRecords(job.cp)
  <2>1. /\ job.zip \in DOMAIN store
        /\ store[job.zip] = Progress(manifest, job.cp) \o EndOf(manifest, job.cp)
        /\ job.cp.done = N /\ ~ job.cp.open /\ Listed(manifest, job.cp)
    BY <1>1 DEF ZipInv, JobSound
  <2>2. manifest \in Manifests /\ job.cp \in Checkpoints /\ Bounded(job.cp)
    BY <1>1, JobFields DEF ZipInv, Typed, JobSound
  <2>3. job.cp.entries \in Seq(Entries) /\ job.cp.missing \in SUBSET Files
    BY <2>2, CheckpointFields
  <2>4. files = FilesOf(entries) /\ tail = EndOf(manifest, job.cp)
    BY EndRecordsIs DEF FilesOf
  <2>5. PICK n \in Nat : n = Len(entries) /\ DOMAIN entries = 1 .. n
    BY <2>3
  <2>6. \A i \in 1 .. n : entries[i].file \in Files /\ entries[i].offset \in Nat
    BY <2>3, <2>5, EntryFields
  <2>7. DOMAIN files = 1 .. n /\ \A i \in 1 .. n : files[i] = entries[i].file
    BY <2>5
  <2>8. PICK begun \in Pieces : begun = Progress(manifest, job.cp)
    BY <2>2, ProgressType
  <2>9. begun = Whole(files)
    <3>1. Whole(files) = WholeFiles(manifest, files)
      BY DEF Whole, WholeFiles, WholeFile, Begun
    <3>2. Opened(job.cp) = <<>>
      BY <2>1 DEF Opened
    <3>3. PICK whole \in Pieces : whole = WholeFiles(manifest, FilesOf(entries))
      BY <2>2, <2>3, WholeFilesType
    <3>4. whole \o <<>> = whole
      BY DEF Pieces
    <3>5. begun = whole
      BY <2>8, <3>2, <3>3, <3>4 DEF Progress
    <3> QED
      BY <2>4, <3>1, <3>3, <3>5
  <2>10. store[job.zip] = begun \o tail /\ tail \in Pieces
    BY <2>1, <2>2, <2>4, <2>8, EndType
  <2>11. /\ \A i \in 1 .. n : /\ entries[i].file \notin job.cp.missing
                              /\ entries[i].offset < Len(begun)
                              /\ begun[entries[i].offset + 1] = Header(entries[i].file)
         /\ \A i, k \in 1 .. n : i < k => entries[i].file < entries[k].file
         /\ \A f \in Files : f <= job.cp.done /\ f \notin job.cp.missing =>
              \E i \in 1 .. n : entries[i].file = f
         /\ job.cp.missing # {} => manifest.partial
    BY <2>1, <2>5, <2>8 DEF Listed
  <2> HIDE DEF entries, files, tail
  <2>12. ToSet(files) = Files \ job.cp.missing
    <3>1. ASSUME NEW f \in Files, f \notin job.cp.missing
          PROVE  \E i \in 1 .. n : files[i] = f
      <4>1. f <= job.cp.done
        BY <2>1, Numbered
      <4> QED
        BY <2>7, <2>11, <3>1, <4>1
    <3>2. \A i \in 1 .. n : files[i] \in Files \ job.cp.missing
      BY <2>6, <2>7, <2>11
    <3> QED
      BY <2>7, <3>1, <3>2 DEF ToSet
  <2>13. \A i, k \in DOMAIN files : i < k => files[i] < files[k]
    BY <2>7, <2>11
  <2>14. ASSUME NEW i \in DOMAIN entries
         PROVE  store[job.zip][entries[i].offset + 1] = Header(files[i])
    <3>1. i \in 1 .. n
      BY <2>5
    <3>2. PICK k \in Nat : k = entries[i].offset /\ k < Len(begun)
      BY <2>6, <2>11, <3>1
    <3>3. (begun \o tail)[k + 1] = begun[k + 1]
      BY <2>8, <2>10, <3>2, Before DEF Pieces
    <3>4. begun[k + 1] = Header(entries[i].file)
      BY <2>11, <3>1, <3>2
    <3> QED
      BY <2>7, <2>10, <3>1, <3>2, <3>3, <3>4
  <2>15. job.zip \in DOMAIN store /\ store[job.zip] = Whole(files) \o tail
    BY <2>1, <2>9, <2>10
  <2>16. job.cp.missing # {} => manifest.partial
    BY <2>11
  <2> QED
    BY <2>12, <2>13, <2>14, <2>15, <2>16 DEF entries, files, tail
<1>2. ZipInv => ReadyComplete
  BY <1>1, Zenon DEF ReadyComplete
<1> QED
  BY <1>2, ZipInvariant, PTL

\* What a step may do to the job.
Onward(j, next) ==
    /\ next.cp \in Checkpoints /\ Follows(j.cp, next.cp)
    /\ j.state \in Ended =>
         /\ next.state \in {j.state} \cup (IF j.state = "ready" THEN {"expired"} ELSE {})
         /\ next.zip = j.zip /\ next.cp = j.cp

\* The checkpoint stays, and so does how the job ended.
LEMMA OnwardSame ==
    ASSUME NEW j \in JobRecords, NEW next, next.cp = j.cp,
           \/ j.state = "building"
           \/ next.zip = j.zip /\ (next.state = j.state \/ (j.state = "ready" /\ next.state = "expired"))
    PROVE  Onward(j, next)
<1>1. j.cp \in Checkpoints /\ Follows(j.cp, j.cp)
  BY JobFields, FollowsSelf
<1> QED
  BY <1>1 DEF Onward, Ended

\* A ready ZIP is kept for some days.
LEMMA ReadyDays == ReadyTtl \in Days
  BY Limits DEF Days

\* The rows that the end of a claim, or of the job, leaves.
Frees(state, next) ==
    \/ next = Release(state)
    \/ next = [Release(state) EXCEPT !.left = 0]
    \/ \E zip \in Names \cup {<<>>} : next = [Release(state) EXCEPT !.zip = zip, !.left = ReadyTtl]

\* The end of a claim, or of the job, leaves the checkpoint.
LEMMA OnwardFreed ==
    ASSUME job \in JobRecords, job.state = "building", NEW state \in States, NEW next,
           Frees(state, next)
    PROVE  Onward(job, next)
<1>1. PICK freed : freed = Freed(job, state)
  OBVIOUS
<1>2. freed \in JobRecords /\ freed.cp = job.cp
  BY <1>1, FreedFields
<1>3. freed = Release(state)
  BY <1>1 DEF Freed, Release
<1>4. next.cp = job.cp
  <2>1. CASE next = freed
    BY <1>2, <2>1
  <2>2. CASE next = EndedJob(freed)
    BY <1>2, <2>2, EndedFields
  <2>3. ASSUME NEW zip \in Names \cup {<<>>}, next = PublishedJob(freed, zip, ReadyTtl)
        PROVE  next.cp = job.cp
    BY <1>2, <2>3, ReadyDays, PublishedFields
  <2> QED
    BY <1>3, <2>1, <2>2, <2>3 DEF Frees, EndedJob, PublishedJob
<1> QED
  BY <1>4, OnwardSame

\* No step takes the job back.
LEMMA OnwardStep ==
    ASSUME ZipInv, [Next]_vars
    PROVE  Onward(job, job')
<1>0. job \in JobRecords /\ attempts \in Nat
  BY Limits DEF ZipInv, Typed, Attempts
<1>1. CASE UNCHANGED job
  BY <1>0, <1>1, OnwardSame
<1>2. ASSUME NEW w \in Workers, Claim(w)
      PROVE  Onward(job, job')
  <2>1. PICK attempt \in Attempts : attempt = attempts + 1
    BY <1>0, <1>2, Limits DEF Claim, Attempts
  <2>2. job' = ClaimedJob(job, attempt) /\ job.state = "building"
    BY <1>2, <2>1 DEF Claim, ClaimedJob
  <2>3. job'.cp = job.cp
    BY <1>0, <2>2, ClaimedFields
  <2> QED
    BY <1>0, <2>2, <2>3, OnwardSame
<1>3. ASSUME NEW w \in Workers, Commit(w)
      PROVE  Onward(job, job')
  <2>1. PICK me : me = workers[w]
    OBVIOUS
  <2>2. me \in WorkerRecords /\ me.cp \in Checkpoints
    BY <2>1, InLoop
  <2>3. Holding(job, me) /\ job.state = "building"
    BY <1>3, <2>1 DEF Commit, Fenced, Working, Holding
  <2>4. Follows(job.cp, me.cp)
    BY <2>1, <2>3 DEF ZipInv, Workmen, Holder
  <2>5. PICK left \in Days : left = IF me.outcome = "building" THEN job.left ELSE ReadyTtl
    BY <1>0, JobFields, Limits DEF Days
  <2>6. PICK freed : freed = Freed(job, me.outcome)
    OBVIOUS
  <2>7. me.outcome \in States
    BY <2>2, WorkerFields DEF Outcomes, States, Ended
  <2>8. freed \in JobRecords
    BY <1>0, <2>6, <2>7, FreedFields
  <2>9. job' = CommittedJob(freed, me.cp, left)
    BY <1>3, <2>1, <2>5, <2>6 DEF Commit, Release, Freed, CommittedJob
  <2>10. job'.cp = me.cp
    BY <2>2, <2>8, <2>9, CommittedFields
  <2> QED
    BY <2>2, <2>3, <2>4, <2>10 DEF Onward, Ended
<1>4. ASSUME NEW w \in Workers, Publish(w)
      PROVE  Onward(job, job')
  <2>1. PICK me : me = workers[w]
    OBVIOUS
  <2>2. me.outcome \in States
    <3>1. me \in WorkerRecords
      BY <2>1, InLoop
    <3> QED
      BY <3>1, WorkerFields DEF Outcomes, States, Ended
  <2>3. job.state = "building"
    BY <1>4 DEF Publish, Fenced
  <2>4. Working(me)
    BY <1>4, <2>1 DEF Publish, Working
  <2>5. ZipName(me) \in Names
    BY <1>4, <2>1, <2>4, EndNames DEF Publish
  <2>6. PICK zip \in Names \cup {<<>>} : zip = IF me.outcome = "ready" THEN ZipName(me) ELSE <<>>
    BY <2>5
  <2>7. job' = [Release(me.outcome) EXCEPT !.zip = zip, !.left = ReadyTtl]
    BY <1>4, <2>1, <2>6 DEF Publish, ZipName
  <2> QED
    BY <1>0, <2>2, <2>3, <2>7, OnwardFreed DEF Frees
<1>5. ASSUME NEW w \in Workers, GiveUp(w), Fenced(w)
      PROVE  Onward(job, job')
  <2>1. job.state = "building" /\ job' = Release("building") /\ "building" \in States
    BY <1>5 DEF GiveUp, Fenced, States
  <2> QED
    BY <1>0, <2>1, OnwardFreed DEF Frees
<1>6. CASE Cancel \/ Abandon
  <2>1. PICK state \in {"cancelled", "failed"} : job' = [Release(state) EXCEPT !.left = 0]
    BY <1>6 DEF Cancel, Abandon
  <2>2. job.state = "building" /\ state \in States
    BY <1>6 DEF Cancel, Abandon, States, Ended
  <2> QED
    BY <1>0, <2>1, <2>2, OnwardFreed DEF Frees
<1>7. CASE RecordSweep
  <2>1. PICK state : state = IF job.state = "ready" THEN "expired" ELSE job.state
    OBVIOUS
  <2>2. state \in States
    BY <1>0, <2>1, JobFields DEF States, Ended
  <2>3. job' = SweptJob(job, state)
    BY <1>7, <2>1 DEF RecordSweep, SweptJob
  <2>4. job'.cp = job.cp /\ job'.zip = job.zip /\ job'.state = state
    BY <1>0, <2>2, <2>3, SweptFields
  <2> QED
    BY <1>0, <2>1, <2>4, OnwardSame
<1>8. CASE Tick
  <2>1. job.lease \in Leases /\ job.patience \in Patience /\ job.left \in Days
    BY <1>0, JobFields
  <2>2. PICK lease \in Leases : lease = Less(job.lease)
    BY <2>1, LessIs, Limits DEF Leases
  <2>3. PICK patience \in Patience : patience = Less(job.patience)
    BY <2>1, LessIs, Limits DEF Patience
  <2>4. PICK left \in Days : left = IF job.state = "building" THEN job.left ELSE Less(job.left)
    BY <2>1, LessIs, Limits DEF Days
  <2>5. job' = OlderJob(job, lease, patience, left)
    BY <1>8, <2>2, <2>3, <2>4 DEF Tick, OlderJob
  <2>6. job'.cp = job.cp /\ job'.zip = job.zip /\ job'.state = job.state
    BY <1>0, <2>5, OlderFields
  <2> QED
    BY <1>0, <2>6, OnwardSame
<1>9. ASSUME NEW w \in Workers, WorkerStep(w)
      PROVE  Onward(job, job')
  <2>1. \/ Claim(w) \/ Commit(w) \/ Publish(w) \/ (GiveUp(w) /\ Fenced(w)) \/ UNCHANGED job
    <3>1. Begin(w) \/ Skip(w) \/ Open(w) \/ Resume(w) \/ ReadChunk(w) \/ StopReading(w) => UNCHANGED job
      BY DEF Begin, Skip, Open, Resume, ReadChunk, StopReading
    <3>2. WritePart(w) \/ Compose(w) \/ CommitLost(w) \/ SweepObsolete(w) => UNCHANGED job
      BY DEF WritePart, Compose, CommitLost, SweepObsolete
    <3>3. WriteEnd(w) \/ ComposeZip(w) \/ Verify(w) \/ Fail(w) \/ Crash(w) => UNCHANGED job
      BY DEF WriteEnd, ComposeZip, Verify, Fail, Crash
    <3>4. GiveUp(w) /\ ~ Fenced(w) => UNCHANGED job
      BY DEF GiveUp
    <3> QED
      BY <1>9, <3>1, <3>2, <3>3, <3>4 DEF WorkerStep
  <2> QED
    BY <1>1, <1>2, <1>3, <1>4, <1>5, <2>1
<1>10. CASE Sweep \/ SweepCrash \/ (\E f \in Files : Vanish(f)) \/ UNCHANGED vars
  BY <1>1, <1>10 DEF Sweep, SweepCrash, Vanish, vars
<1> QED
  BY <1>6, <1>7, <1>8, <1>9, <1>10 DEF Next

\* No step, however late, takes a job back or changes how it ended.
THEOREM NothingLate == Spec => NoLateWork
<1>1. ASSUME ZipInv, [Next]_vars
      PROVE  /\ \/ job'.cp.done > job.cp.done
                \/ /\ job'.cp.done = job.cp.done /\ job'.cp.read >= job.cp.read
                   /\ (job.cp.open => job'.cp.open)
             /\ job.cp.missing \subseteq job'.cp.missing
             /\ IsPrefix(job.cp.entries, job'.cp.entries)
  <2>1. job'.cp \in Checkpoints /\ Follows(job.cp, job'.cp)
    BY <1>1, OnwardStep DEF Onward
  <2>2. job.cp \in Checkpoints
    BY <1>1, JobFields DEF ZipInv, Typed
  <2>3. IsPrefix(job.cp.entries, job'.cp.entries)
    BY <2>1, <2>2, FollowsIsPrefix
  <2> QED
    BY <2>1, <2>3 DEF Follows
<1>2. ASSUME ZipInv, [Next]_vars, job.state \in Ended
      PROVE  /\ job'.state \in {job.state} \cup (IF job.state = "ready" THEN {"expired"} ELSE {})
             /\ job'.zip = job.zip /\ job'.cp = job.cp
  BY <1>2, OnwardStep DEF Onward
<1>3. Spec => CheckpointAdvances
  BY <1>1, ZipInvariant, PTL DEF Spec, CheckpointAdvances
<1>4. Spec => EndedStays
  BY <1>2, ZipInvariant, PTL DEF Spec, EndedStays
<1> QED
  BY <1>3, <1>4 DEF NoLateWork
=============================================================================
