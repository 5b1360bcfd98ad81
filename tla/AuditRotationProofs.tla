------------------------- MODULE AuditRotationProofs -------------------------
(***************************************************************************)
(* For any settings, any number of lines, triggers and faults: the shape   *)
(* of the directory and the files (any number of processes), and, for a    *)
(* process that has the file to itself, that names stay with their files,  *)
(* that a written line outlives backup_count rotations, and that rotation  *)
(* keeps up with size, clock and count.                                    *)
(***************************************************************************)
EXTENDS AuditRotation, SequenceTheorems, FiniteSetTheorems, WellFoundedInduction, TLAPS

-----------------------------------------------------------------------------
(* Numbers, sequences and sets.                                                  *)

Below == {p \in Nat \X Nat : p[1] < p[2]}

\* A set of natural numbers has a least one.
LEMMA LeastNumber ==
  ASSUME NEW T, T \subseteq Nat, T # {}
  PROVE  \E m \in T : \A n \in T : m <= n
<1>1. IsWellFoundedOn(Below, Nat)
  <2>1. Below = OpToRel(<, Nat)
    BY DEF Below, OpToRel
  <2> QED
    BY <2>1, NatLessThanWellFounded
<1>2. PICK m \in T : \A n \in T : ~(<<n, m>> \in Below)
  BY <1>1, WFMin
<1>3. ASSUME NEW n \in T
      PROVE  m <= n
  <2>1. <<n, m>> \in Nat \X Nat /\ <<n, m>>[1] = n /\ <<n, m>>[2] = m
    OBVIOUS
  <2>2. ~(n < m)
    BY <1>2, <2>1 DEF Below
  <2> QED
    BY <2>2
<1> QED
  BY <1>2, <1>3

\* What stands where after an element is appended.
LEMMA AppendKeeps ==
  ASSUME NEW S, NEW s \in Seq(S), NEW e \in S
  PROVE  LET t == Append(s, e) IN
         /\ t \in Seq(S) /\ Len(s) \in Nat /\ Len(t) = Len(s) + 1
         /\ \A i \in DOMAIN s : i \in DOMAIN t /\ t[i] = s[i]
         /\ Len(s) + 1 \in DOMAIN t /\ t[Len(s) + 1] = e
         /\ \A i \in DOMAIN t : i \in DOMAIN s \/ i = Len(s) + 1
<1> DEFINE t == Append(s, e)
<1>1. /\ t \in Seq(S) /\ Len(t) = Len(s) + 1 /\ Len(s) \in Nat
      /\ \A i \in 1..Len(s) : t[i] = s[i]
      /\ t[Len(s) + 1] = e
  BY AppendProperties
<1> HIDE DEF t
<1>2. DOMAIN s = 1..Len(s) /\ DOMAIN t = 1..Len(s) + 1
  BY <1>1
<1>3. /\ \A i \in DOMAIN s : i \in DOMAIN t /\ t[i] = s[i]
      /\ Len(s) + 1 \in DOMAIN t
      /\ \A i \in DOMAIN t : i \in DOMAIN s \/ i = Len(s) + 1
  BY <1>1, <1>2
<1> QED
  BY <1>1, <1>3 DEF t

\* A set that has one element more than another, or none.
LEMMA OneMore ==
  ASSUME NEW old, IsFiniteSet(old), NEW e, NEW new, NEW extra \in {0, 1},
         new \subseteq old \cup {e}, extra = 0 => new \subseteq old
  PROVE  /\ IsFiniteSet(new) /\ Cardinality(new) \in Nat /\ Cardinality(old) \in Nat
         /\ Cardinality(new) <= Cardinality(old) + extra
<1> DEFINE all == old \cup {e}
<1>1. /\ Cardinality(old) \in Nat /\ IsFiniteSet(all) /\ Cardinality(all) \in Nat
      /\ Cardinality(all) <= Cardinality(old) + 1
  BY FS_AddElement, FS_CardinalityType
<1> HIDE DEF all
<1>2. IsFiniteSet(new) /\ Cardinality(new) <= Cardinality(all) /\ Cardinality(new) \in Nat
  BY <1>1, FS_Subset, FS_CardinalityType DEF all
<1>3. extra = 0 => Cardinality(new) <= Cardinality(old)
  BY FS_Subset
<1> QED
  BY <1>1, <1>2, <1>3

\* A bounded set of natural numbers has a greatest one.
LEMMA MaxExists ==
  ASSUME NEW n \in Nat, NEW s, s \subseteq 0..n, s # {}
  PROVE  Max(s) \in s /\ \A i \in s : i <= Max(s)
<1> DEFINE T == {m \in Nat : \A i \in s : i <= m}
<1>1. n \in T
  OBVIOUS
<1>2. PICK m \in T : \A k \in T : m <= k
  BY <1>1, LeastNumber
<1>3. m \in s
  <2> SUFFICES ASSUME m \notin s PROVE FALSE
    OBVIOUS
  <2>1. PICK j \in s : TRUE
    OBVIOUS
  <2>2. j >= 0 /\ j <= m /\ m \in Nat
    BY <1>2, <2>1
  <2>3. \A i \in s : i \in Nat /\ i <= m /\ i # m
    BY <1>2
  <2>4. m - 1 \in Nat /\ \A i \in s : i <= m - 1
    BY <2>1, <2>2, <2>3
  <2>5. m - 1 \in T
    BY <2>4
  <2> QED
    BY <1>2, <2>2, <2>5
<1>4. \E i \in s : \A j \in s : i >= j
  <2>1. \A j \in s : m >= j
    BY <1>2
  <2> QED
    BY <1>3, <2>1
<1>5. Max(s) \in s /\ \A j \in s : Max(s) >= j
  BY <1>4 DEF Max
<1> QED
  BY <1>5
-----------------------------------------------------------------------------
(* The operators of the model.                                                   *)

LEMMA MinIs ==
  ASSUME NEW s, s \subseteq Nat, s # {}
  PROVE  Min(s) \in s
<1>1. PICK m \in s : \A i \in s : m <= i
  BY LeastNumber
<1> QED
  BY <1>1 DEF Min

\* Every line of a file is one that was begun.
Of(ls, known) == \A i \in DOMAIN ls : ls[i] \in known

\* The directory, the files, and what was read of them.
Disk ==
    /\ DOMAIN dir \subseteq Name /\ IsFiniteSet(DOMAIN dir)
    /\ \A n \in DOMAIN dir : dir[n] \in DOMAIN files
    /\ \A n \in Rotated : n.counter < Len(rotations)
    /\ files \in Seq(File)
    /\ \E b \in Nat : \A f \in DOMAIN files : files[f].touched <= b
    /\ \A f \in DOMAIN files : Of(files[f].lines, DOMAIN lines)
    /\ rotations \in Seq(Seq(Nat))
    /\ \A k \in DOMAIN rotations : Of(rotations[k], DOMAIN lines)

\* The clock, the lines begun and the lines written.
Past ==
    /\ now \in Nat /\ faults \in Nat
    /\ lines \in Seq(Nat) /\ written \subseteq DOMAIN lines

\* A process in log().
Busy(p) ==
    LET me == proc[p] IN
    /\ me.pc # "idle" => me.line \in DOMAIN lines /\ lines[me.line] = me.at /\ me.at <= now
    /\ me.pc \in {"rename", "gzip", "copy", "unlink"} => me.to.at = me.at /\ ~me.to.gz
    /\ me.pc = "rename" => me.to.counter <= Len(rotations)
    /\ me.pc \in {"gzip", "copy", "unlink"} => me.to.counter < Len(rotations)
    /\ me.pc \in {"copy", "write"} => me.fh \in DOMAIN files
    /\ me.pc = "copy" => me.out \in DOMAIN files

\* The next rotation by the clock is due at the start of a period.
Boundary(p) == IF DayTicks = 0 THEN next[p] = -1
               ELSE next[p] \in Nat /\ next[p] % DayTicks = 0

\* The invariant of any number of processes.
AInv ==
    /\ Disk /\ Past
    /\ proc \in [Proc -> State] /\ next \in [Proc -> Int]
    /\ \A p \in Proc : Busy(p) /\ Boundary(p)

LEMMA StampNewer ==
  ASSUME Disk
  PROVE  Stamp \in Nat /\ \A f \in DOMAIN files : files[f].touched < Stamp
<1> DEFINE T == {0} \cup {files[f].touched : f \in DOMAIN files}
<1>1. PICK b \in Nat : \A f \in DOMAIN files : files[f].touched <= b
  BY DEF Disk
<1>2. \A f \in DOMAIN files : files[f].touched \in Nat
  <2>1. \A f \in DOMAIN files : files[f] \in File
    BY DEF Disk
  <2> QED
    BY <2>1 DEF File
<1>3. T \subseteq 0..b /\ T # {}
  BY <1>1, <1>2
<1>4. Max(T) \in T /\ \A i \in T : i <= Max(T)
  BY <1>3, MaxExists
<1>5. Stamp = 1 + Max(T)
  BY DEF Stamp
<1> HIDE DEF T
<1>6. Max(T) \in Nat
  <2>1. Max(T) \in 0..b
    BY <1>3, <1>4
  <2> QED
    BY <2>1
<1>7. \A f \in DOMAIN files : files[f].touched \in T
  BY DEF T
<1> QED
  BY <1>2, <1>4, <1>5, <1>6, <1>7

\* A name of a rotated file that is not in use, and all its kin.
LEMMA NameFree ==
  ASSUME AInv, NEW p \in Proc
  PROVE  LET Try(c) == [at |-> proc[p].at, counter |-> c, gz |-> FALSE]
             first == Min({c \in 0..Len(rotations) : Free(Try(c))})
         IN  first \in 0..Len(rotations) /\ Free(Try(first))
<1> DEFINE Try(c) == [at |-> proc[p].at, counter |-> c, gz |-> FALSE]
           T == {c \in 0..Len(rotations) : Free(Try(c))}
           n == Len(rotations)
<1>1. n \in Nat /\ proc[p].at \in Nat
  BY DEF AInv, Disk, State
<1>2. Try(n) # Active /\ Gz(Try(n)) # Active /\ Try(n).counter = n /\ Gz(Try(n)).counter = n
  BY <1>1 DEF Active, Gz
<1>3. Free(Try(n))
  BY <1>1, <1>2, SMTT(30) DEF AInv, Disk, Rotated, Free, Exists
<1>4. n \in T
  BY <1>1, <1>3
<1>5. T \subseteq Nat
  BY <1>1
<1>6. Min(T) \in T
  BY <1>4, <1>5, MinIs
<1> QED
  BY <1>6

-----------------------------------------------------------------------------
(* What the file operations do to the disk.                                      *)

LinesGrow == lines' = lines \/ \E t \in Nat : lines' = Append(lines, t)

LEMMA LinesStay ==
  ASSUME Past, LinesGrow
  PROVE  /\ lines' \in Seq(Nat) /\ Len(lines) <= Len(lines') /\ DOMAIN lines \subseteq DOMAIN lines'
         /\ \A i \in DOMAIN lines : lines'[i] = lines[i]
<1>1. lines \in Seq(Nat)
  BY DEF Past
<1>2. CASE lines' = lines
  BY <1>1, <1>2
<1>3. ASSUME NEW t \in Nat, lines' = Append(lines, t)
      PROVE  /\ lines' \in Seq(Nat) /\ Len(lines') = Len(lines) + 1
             /\ \A i \in 1..Len(lines) : lines'[i] = lines[i]
  BY <1>1, <1>3, AppendProperties
<1> QED
  <2>1. ASSUME NEW t \in Nat, lines' = Append(lines, t)
        PROVE  /\ lines' \in Seq(Nat) /\ Len(lines) <= Len(lines')
               /\ DOMAIN lines = 1..Len(lines) /\ DOMAIN lines' = 1..Len(lines')
               /\ \A i \in 1..Len(lines) : lines'[i] = lines[i]
    BY <1>1, <1>3, <2>1
  <2>2. CASE \E t \in Nat : lines' = Append(lines, t)
    BY <1>1, <2>1, <2>2
  <2> QED
    BY <1>2, <2>2 DEF LinesGrow

LEMMA DiskSame ==
  ASSUME Disk, Past, LinesGrow, UNCHANGED <<dir, files, rotations>>
  PROVE  Disk'
<1>1. DOMAIN lines \subseteq DOMAIN lines'
  BY LinesStay
<1> QED
  BY <1>1 DEF Disk, Of, Rotated

LEMMA DiskWithout ==
  ASSUME Disk, NEW names, dir' = Without(names), UNCHANGED <<files, rotations, lines>>
  PROVE  Disk'
<1>1. DOMAIN dir' = DOMAIN dir \ names /\ \A n \in DOMAIN dir' : dir'[n] = dir[n]
  BY DEF Without
<1>2. IsFiniteSet(DOMAIN dir')
  BY <1>1, FS_Subset DEF Disk
<1> QED
  BY <1>1, <1>2 DEF Disk, Of, Rotated

LEMMA DiskLink ==
  ASSUME Disk, NEW name \in Name, name # Active => name.counter < Len(rotations),
         files' = NewFile, dir' = Link(name, Len(files) + 1), UNCHANGED <<rotations, lines>>
  PROVE  /\ Disk' /\ DOMAIN dir' = DOMAIN dir \cup {name} /\ dir'[name] = Len(files) + 1
         /\ \A n \in DOMAIN dir \ {name} : dir'[n] = dir[n]
         /\ Len(files') = Len(files) + 1 /\ Len(files) \in Nat
         /\ \A f \in DOMAIN files : files'[f] = files[f]
         /\ files'[Len(files) + 1] = [lines |-> <<>>, touched |-> Stamp]
<1> DEFINE x == [lines |-> <<>>, touched |-> Stamp]
<1>1. Stamp \in Nat /\ files \in Seq(File) /\ Len(files) \in Nat
  <2>1. Stamp \in Nat
    BY StampNewer
  <2>2. files \in Seq(File)
    BY DEF Disk
  <2> QED
    BY <2>1, <2>2
<1>2. x \in File
  BY <1>1 DEF File
<1>3. files' = Append(files, x)
  BY DEF NewFile
<1> HIDE DEF x
<1>4. /\ files' \in Seq(File) /\ Len(files') = Len(files) + 1
      /\ \A f \in 1..Len(files) : files'[f] = files[f]
      /\ files'[Len(files) + 1] = x
  BY <1>1, <1>2, <1>3, AppendProperties
<1>5. DOMAIN files = 1..Len(files) /\ DOMAIN files' = 1..Len(files) + 1
  BY <1>1, <1>4
<1>6. /\ DOMAIN dir' = DOMAIN dir \cup {name} /\ dir'[name] = Len(files) + 1
      /\ \A n \in DOMAIN dir \ {name} : dir'[n] = dir[n]
  BY DEF Link
<1>7. DOMAIN dir' \subseteq Name /\ IsFiniteSet(DOMAIN dir')
  <2>1. DOMAIN dir \subseteq Name /\ IsFiniteSet(DOMAIN dir)
    BY DEF Disk
  <2> QED
    BY <1>6, <2>1, FS_AddElement
<1>8. \A n \in DOMAIN dir' : dir'[n] \in DOMAIN files'
  BY <1>1, <1>5, <1>6 DEF Disk
<1>9. \A n \in Rotated' : n.counter < Len(rotations')
  BY <1>6 DEF Disk, Rotated
<1>10. \E b \in Nat : \A f \in DOMAIN files' : files'[f].touched <= b
  <2>1. x.touched = Stamp
    BY DEF x
  <2>2. \A f \in DOMAIN files : files[f].touched < Stamp /\ files[f].touched \in Nat
    <3>1. \A f \in DOMAIN files : files[f] \in File
      BY <1>1
    <3> QED
      BY <3>1, StampNewer DEF File
  <2>3. \A f \in DOMAIN files' : f \in DOMAIN files \/ f = Len(files) + 1
    BY <1>1, <1>5
  <2>4. \A f \in DOMAIN files' : files'[f].touched <= Stamp
    BY <1>1, <1>4, <1>5, <2>1, <2>2, <2>3
  <2> QED
    BY <1>1, <2>4
<1>11. \A f \in DOMAIN files' : Of(files'[f].lines, DOMAIN lines')
  <2>1. DOMAIN x.lines = {}
    BY DEF x
  <2>2. \A f \in DOMAIN files' : f \in DOMAIN files \/ f = Len(files) + 1
    BY <1>1, <1>5
  <2> QED
    BY <1>4, <1>5, <2>1, <2>2 DEF Disk, Of
<1>12. rotations' \in Seq(Seq(Nat)) /\ \A k \in DOMAIN rotations' : Of(rotations'[k], DOMAIN lines')
  BY DEF Disk, Of
<1>13. Disk'
  BY <1>4, <1>7, <1>8, <1>9, <1>10, <1>11, <1>12 DEF Disk
<1> QED
  BY <1>1, <1>4, <1>5, <1>6, <1>13 DEF x

LEMMA DiskTouch ==
  ASSUME Disk, NEW f \in DOMAIN files, NEW ls \in Seq(Nat), Of(ls, DOMAIN lines),
         files' = [files EXCEPT ![f] = [lines |-> ls, touched |-> Stamp]],
         UNCHANGED <<dir, rotations, lines>>
  PROVE  /\ Disk' /\ Len(files') = Len(files) /\ DOMAIN files' = DOMAIN files
         /\ files'[f] = [lines |-> ls, touched |-> Stamp]
         /\ \A g \in DOMAIN files \ {f} : files'[g] = files[g]
<1> DEFINE x == [lines |-> ls, touched |-> Stamp]
<1>1. Stamp \in Nat /\ files \in Seq(File)
  BY StampNewer DEF Disk
<1>2. x \in File /\ x.touched = Stamp /\ x.lines = ls
  BY <1>1 DEF File
<1>3. files' = [files EXCEPT ![f] = x]
  OBVIOUS
<1> HIDE DEF x
<1>4. /\ files' \in Seq(File) /\ Len(files') = Len(files) /\ DOMAIN files' = DOMAIN files
      /\ files'[f] = x /\ \A g \in DOMAIN files \ {f} : files'[g] = files[g]
  BY <1>1, <1>2, <1>3
<1>5. \E b \in Nat : \A g \in DOMAIN files' : files'[g].touched <= b
  <2>1. \A g \in DOMAIN files : files[g].touched < Stamp /\ files[g].touched \in Nat
    <3>1. \A g \in DOMAIN files : files[g] \in File
      BY <1>1
    <3> QED
      BY <3>1, StampNewer DEF File
  <2>2. \A g \in DOMAIN files' : files'[g].touched <= Stamp
    BY <1>1, <1>2, <1>4, <2>1
  <2> QED
    BY <1>1, <2>2
<1>6. \A g \in DOMAIN files' : Of(files'[g].lines, DOMAIN lines')
  BY <1>2, <1>4 DEF Disk, Of
<1>7. Disk'
  BY <1>4, <1>5, <1>6 DEF Disk, Of, Rotated
<1> QED
  BY <1>4, <1>7 DEF x

LEMMA DiskRename ==
  ASSUME Disk, Exists(Active), NEW to \in Name, to # Active, to.counter <= Len(rotations),
         dir' = [n \in (DOMAIN dir \cup {to}) \ {Active} |-> IF n = to THEN dir[Active] ELSE dir[n]],
         rotations' = Append(rotations, Lines(Active)), UNCHANGED <<files, lines>>
  PROVE  /\ Disk' /\ DOMAIN dir' = (DOMAIN dir \cup {to}) \ {Active} /\ dir'[to] = dir[Active]
         /\ \A n \in DOMAIN dir \ {Active, to} : dir'[n] = dir[n]
         /\ Len(rotations') = Len(rotations) + 1 /\ Len(rotations) \in Nat
         /\ \A k \in DOMAIN rotations : rotations'[k] = rotations[k]
         /\ rotations'[Len(rotations) + 1] = ActiveLines
<1> DEFINE ls == Lines(Active)
<1>1. ls \in Seq(Nat) /\ Of(ls, DOMAIN lines) /\ ls = ActiveLines
  <2>1. dir[Active] \in DOMAIN files
    BY DEF Disk, Exists
  <2>2. files[dir[Active]] \in File
    BY <2>1 DEF Disk
  <2> QED
    BY <2>1, <2>2 DEF Disk, File, Lines, ActiveLines
<1>2. rotations \in Seq(Seq(Nat)) /\ Len(rotations) \in Nat
  BY DEF Disk
<1> HIDE DEF ls
<1>3. rotations' = Append(rotations, ls)
  BY DEF ls
<1>4. /\ rotations' \in Seq(Seq(Nat)) /\ Len(rotations') = Len(rotations) + 1
      /\ \A k \in 1..Len(rotations) : rotations'[k] = rotations[k]
      /\ rotations'[Len(rotations) + 1] = ls
  BY <1>1, <1>2, <1>3, AppendProperties
<1>5. DOMAIN rotations = 1..Len(rotations) /\ DOMAIN rotations' = 1..Len(rotations) + 1
  BY <1>2, <1>4
<1>6. /\ DOMAIN dir' = (DOMAIN dir \cup {to}) \ {Active} /\ dir'[to] = dir[Active]
      /\ \A n \in DOMAIN dir \ {Active, to} : dir'[n] = dir[n]
  OBVIOUS
<1>7. DOMAIN dir' \subseteq Name /\ IsFiniteSet(DOMAIN dir')
  BY <1>6, FS_AddElement, FS_RemoveElement DEF Disk
<1>8. \A n \in DOMAIN dir' : dir'[n] \in DOMAIN files'
  BY <1>6 DEF Disk, Exists
<1>9. \A n \in Rotated' : n.counter < Len(rotations')
  <2>1. \A n \in Rotated' : n \in Rotated \/ n = to
    BY <1>6 DEF Rotated
  <2>2. \A n \in Rotated : n.counter < Len(rotations) /\ n.counter \in Nat
    BY DEF Disk, Rotated, Name
  <2>3. to.counter \in Nat
    BY DEF Name
  <2>4. \A n \in Rotated' : n.counter < Len(rotations) + 1
    <3>1. ASSUME NEW n \in Rotated'
          PROVE  n.counter < Len(rotations) + 1
      <4>1. CASE n \in Rotated
        BY <1>2, <2>2, <4>1
      <4>2. CASE n = to
        BY <1>2, <2>3, <4>2
      <4> QED
        BY <2>1, <3>1, <4>1, <4>2
    <3> QED
      BY <3>1
  <2> QED
    BY <1>4, <2>4
<1>10. \A k \in DOMAIN rotations' : Of(rotations'[k], DOMAIN lines')
  <2>1. \A k \in DOMAIN rotations' : k \in DOMAIN rotations \/ k = Len(rotations) + 1
    BY <1>2, <1>5
  <2> QED
    BY <1>1, <1>4, <1>5, <2>1 DEF Disk, Of
<1>11. Disk'
  <2>1. /\ \E b \in Nat : \A f \in DOMAIN files' : files'[f].touched <= b
        /\ files' \in Seq(File)
        /\ \A f \in DOMAIN files' : Of(files'[f].lines, DOMAIN lines')
    BY DEF Disk
  <2> QED
    BY <1>4, <1>7, <1>8, <1>9, <1>10, <2>1 DEF Disk
<1> QED
  BY <1>1, <1>2, <1>4, <1>5, <1>6, <1>11


LEMMA LinesOf ==
  ASSUME Disk, NEW f \in DOMAIN files
  PROVE  /\ files[f] \in File /\ files[f].touched \in Nat
         /\ files[f].lines \in Seq(Nat) /\ Of(files[f].lines, DOMAIN lines)
<1>1. files[f] \in File
  BY DEF Disk
<1>2. Of(files[f].lines, DOMAIN lines)
  BY DEF Disk
<1> QED
  BY <1>1, <1>2 DEF File

LEMMA OfAppend ==
  ASSUME NEW old \in Seq(Nat), NEW known, Of(old, known), NEW l \in Nat, l \in known
  PROVE  Append(old, l) \in Seq(Nat) /\ Of(Append(old, l), known)
<1> DEFINE ls == Append(old, l)
<1>1. /\ ls \in Seq(Nat) /\ Len(ls) = Len(old) + 1 /\ Len(old) \in Nat
      /\ \A i \in 1..Len(old) : ls[i] = old[i]
      /\ ls[Len(old) + 1] = l
  BY AppendProperties
<1> HIDE DEF ls
<1>2. DOMAIN ls = 1..Len(old) + 1 /\ DOMAIN old = 1..Len(old)
  BY <1>1
<1>3. ASSUME NEW i \in DOMAIN ls
      PROVE  ls[i] \in known
  <2>1. i \in DOMAIN old \/ i = Len(old) + 1
    BY <1>1, <1>2
  <2> QED
    BY <1>1, <1>2, <2>1 DEF Of
<1>4. ls \in Seq(Nat) /\ Of(ls, known)
  BY <1>1, <1>3 DEF Of
<1> QED
  BY <1>4 DEF ls
-----------------------------------------------------------------------------
(* The invariant of any number of processes.                                     *)

\* What nobody's step takes back.
Onwards ==
    /\ now' \in Nat /\ now <= now' /\ LinesGrow
    /\ Len(rotations) <= Len(rotations') /\ DOMAIN files \subseteq DOMAIN files'

LEMMA Typed ==
  ASSUME AInv, NEW p \in Proc
  PROVE  /\ proc[p] \in State /\ proc[p].pc \in PC /\ proc[p].line \in Nat /\ proc[p].at \in Nat
         /\ proc[p].due \in BOOLEAN /\ proc[p].to \in Name /\ proc[p].fh \in Nat /\ proc[p].out \in Nat
         /\ proc[p].to.counter \in Nat /\ next[p] \in Int /\ DOMAIN proc = Proc /\ DOMAIN next = Proc
         /\ Len(rotations) \in Nat /\ Len(files) \in Nat /\ now \in Nat /\ faults \in Nat
<1>1. proc[p] \in State /\ DOMAIN proc = Proc /\ DOMAIN next = Proc /\ next[p] \in Int
  BY DEF AInv
<1>2. proc[p].to \in Name
  BY <1>1 DEF State
<1> QED
  BY <1>1, <1>2 DEF State, Name, AInv, Disk, Past

LEMMA Waits ==
  ASSUME AInv, Onwards, NEW p \in Proc, proc'[p] = proc[p], next'[p] = next[p]
  PROVE  Busy(p)' /\ Boundary(p)'
<1>1. Busy(p) /\ Boundary(p) /\ Past
  BY DEF AInv
<1>2. /\ proc[p].at \in Nat /\ proc[p].to.counter \in Nat /\ Len(rotations) \in Nat
      /\ now \in Nat
  BY Typed
<1>3. DOMAIN lines \subseteq DOMAIN lines' /\ \A i \in DOMAIN lines : lines'[i] = lines[i]
  BY <1>1, LinesStay DEF Onwards
<1> QED
  BY <1>1, <1>2, <1>3 DEF Busy, Boundary, Onwards

LEMMA NextIs ==
  ASSUME NEW t \in Nat
  PROVE  /\ NextBoundary(t) \in Int
         /\ DayTicks = 0 => NextBoundary(t) = -1
         /\ DayTicks # 0 => /\ NextBoundary(t) \in Nat /\ NextBoundary(t) % DayTicks = 0
                            /\ NextBoundary(t) \div DayTicks = t \div DayTicks + 1
<1>1. DayTicks \in Nat
  BY RotationAssumption
<1>2. CASE DayTicks = 0
  BY <1>2 DEF NextBoundary
<1>3. CASE DayTicks # 0
  <2>1. t \div DayTicks + 1 \in Nat
    BY <1>1, <1>3
  <2>2. ASSUME NEW b \in Nat
        PROVE  b * DayTicks \in Nat /\ (b * DayTicks) % DayTicks = 0 /\ (b * DayTicks) \div DayTicks = b
    <3>1. b * DayTicks = DayTicks * ((b * DayTicks) \div DayTicks) + ((b * DayTicks) % DayTicks)
          /\ (b * DayTicks) % DayTicks \in 0..DayTicks - 1
      BY <1>1, <1>3
    <3>2. (b * DayTicks) \div DayTicks = b
      BY <1>1, <1>3
    <3> QED
      BY <1>1, <3>1, <3>2
  <2>3. NextBoundary(t) = (t \div DayTicks + 1) * DayTicks
    BY <1>3 DEF NextBoundary
  <2> QED
    BY <1>3, <2>1, <2>2, <2>3
<1> QED
  BY <1>2, <1>3

LEMMA OneMoves ==
  ASSUME AInv, NEW p \in Proc, Onwards, Disk', Past',
         proc' = [proc EXCEPT ![p] = proc'[p]], proc'[p] \in State,
         next' = [next EXCEPT ![p] = next'[p]], next'[p] \in Int,
         Busy(p)', Boundary(p)'
  PROVE  AInv'
<1>1. proc' \in [Proc -> State] /\ next' \in [Proc -> Int]
  BY DEF AInv
<1>2. ASSUME NEW q \in Proc
      PROVE  Busy(q)' /\ Boundary(q)'
  <2>1. CASE q = p
    BY <2>1
  <2>2. CASE q # p
    <3>1. proc'[q] = proc[q] /\ next'[q] = next[q]
      BY <2>2 DEF AInv
    <3> QED
      BY <3>1, Waits
  <2> QED
    BY <2>1, <2>2
<1> QED
  BY <1>1, <1>2 DEF AInv

LEMMA ResumeNext ==
  ASSUME AInv, NEW p \in Proc, proc[p].pc # "idle", Resume(p)
  PROVE  /\ next' = [next EXCEPT ![p] = next'[p]] /\ next'[p] \in Int /\ Boundary(p)'
         /\ proc' = [proc EXCEPT ![p] = proc'[p]] /\ proc'[p] = [proc[p] EXCEPT !.pc = "open"]
         /\ proc'[p] \in State
         /\ next'[p] = IF proc[p].due THEN NextBoundary(proc[p].at) ELSE next[p]
<1>1. proc[p] \in State /\ proc[p].at \in Nat /\ DOMAIN proc = Proc /\ DOMAIN next = Proc
      /\ next[p] \in Int /\ Boundary(p)
  BY Typed DEF AInv
<1>2. next'[p] = IF proc[p].due THEN NextBoundary(proc[p].at) ELSE next[p]
  BY <1>1 DEF Resume
<1>3. next'[p] \in Int /\ Boundary(p)'
  BY <1>1, <1>2, NextIs DEF Boundary
<1>4. proc'[p] = [proc[p] EXCEPT !.pc = "open"]
  BY <1>1 DEF Resume, Goes
<1>5. proc'[p] \in State
  BY <1>1, <1>4 DEF State, PC
<1>6. next' = [next EXCEPT ![p] = next'[p]]
  BY <1>1, <1>2 DEF Resume
<1>7. proc' = [proc EXCEPT ![p] = proc'[p]]
  BY <1>1, <1>4 DEF Resume, Goes
<1> QED
  BY <1>2, <1>3, <1>4, <1>5, <1>6, <1>7

LEMMA IdleTyped == Idle \in State /\ Idle.pc = "idle" /\ Active \in Name /\ Active.at = -1
  BY DEF Idle, State, PC, Active, Name

LEMMA EnterStep ==
  ASSUME AInv, NEW p \in Proc, LogInPlace(p) \/ LogRotating(p)
  PROVE  AInv'
<1>1. PICK pc \in {"open", "name"} : Enter(p, pc)
  BY DEF LogInPlace, LogRotating
<1> DEFINE me == [Idle EXCEPT !.pc = pc, !.line = Len(lines) + 1, !.at = now, !.due = TimeDue(p)]
<1>2. /\ now \in Nat /\ next[p] \in Int /\ DOMAIN proc = Proc /\ DOMAIN next = Proc
      /\ lines \in Seq(Nat) /\ Len(lines) \in Nat /\ Disk /\ Past /\ Boundary(p)
  BY Typed DEF AInv, Past
<1>3. lines' = Append(lines, now) /\ proc' = [proc EXCEPT ![p] = me]
  BY <1>1 DEF Enter
<1>4. /\ me \in State /\ me.pc = pc /\ me.line = Len(lines) + 1 /\ me.at = now
      /\ me.due = TimeDue(p)
  <2>1. TimeDue(p) \in BOOLEAN
    BY DEF TimeDue
  <2>2. pc \in PC /\ Len(lines) + 1 \in Nat /\ now \in Nat
    BY <1>1, <1>2 DEF PC
  <2> DEFINE a == [Idle EXCEPT !.pc = pc]
             b == [a EXCEPT !.line = Len(lines) + 1]
             c == [b EXCEPT !.at = now]
             d == [c EXCEPT !.due = TimeDue(p)]
  <2>3. a \in State /\ a.pc = pc
    BY <2>2, IdleTyped DEF State
  <2>4. me = d
    BY IdleTyped DEF State
  <2> HIDE DEF me, a
  <2>5. b \in State /\ b.pc = pc /\ b.line = Len(lines) + 1
    BY <2>2, <2>3 DEF State
  <2> HIDE DEF b
  <2>6. c \in State /\ c.pc = pc /\ c.line = Len(lines) + 1 /\ c.at = now
    BY <2>2, <2>5 DEF State
  <2> HIDE DEF c
  <2>7. d \in State /\ d.pc = pc /\ d.line = Len(lines) + 1 /\ d.at = now /\ d.due = TimeDue(p)
    BY <2>1, <2>6 DEF State
  <2> QED
    BY <2>4, <2>7
<1> HIDE DEF me
<1>5. /\ lines' \in Seq(Nat) /\ Len(lines') = Len(lines) + 1 /\ lines'[Len(lines) + 1] = now
      /\ LinesGrow
  BY <1>2, <1>3, AppendProperties DEF LinesGrow
<1>6. UNCHANGED <<now, dir, files, written, rotations, faults>>
  BY DEF LogInPlace, LogRotating
<1>7. Disk' /\ Past' /\ Onwards
  <2>1. Disk'
    BY <1>2, <1>5, <1>6, DiskSame
  <2>2. Past'
    BY <1>2, <1>5, <1>6, LinesStay DEF Past
  <2>3. Onwards
    BY <1>2, <1>5, <1>6, Typed DEF Onwards
  <2> QED
    BY <2>1, <2>2, <2>3
<1>8. proc'[p] = me
  BY <1>2, <1>3
<1>9. Busy(p)'
  <2>1. Len(lines) + 1 \in DOMAIN lines'
    BY <1>2, <1>5
  <2> QED
    BY <1>1, <1>2, <1>4, <1>5, <1>6, <1>8, <2>1 DEF Busy
<1>10. next' = [next EXCEPT ![p] = next'[p]] /\ next'[p] \in Int /\ Boundary(p)'
  <2>1. CASE next' = next
    BY <1>2, <2>1 DEF Boundary, AInv
  <2>2. CASE next' = [next EXCEPT ![p] = IF TimeDue(p) THEN NextBoundary(now) ELSE @]
    <3>1. next'[p] = IF TimeDue(p) THEN NextBoundary(now) ELSE next[p]
      BY <1>2, <2>2
    <3>2. next'[p] \in Int /\ Boundary(p)'
      BY <1>2, <3>1, NextIs DEF Boundary
    <3> QED
      BY <2>2, <3>1, <3>2
  <2> QED
    BY <2>1, <2>2 DEF LogInPlace, LogRotating
<1> QED
  BY <1>3, <1>4, <1>7, <1>8, <1>9, <1>10, OneMoves

\* A step that leaves the lines, the clock and the boundaries alone.
LEMMA QuietStep ==
  ASSUME AInv, NEW p \in Proc, UNCHANGED <<now, lines, next>>, Disk',
         Len(rotations) <= Len(rotations'), DOMAIN files \subseteq DOMAIN files',
         faults' \in Nat, written' \subseteq DOMAIN lines,
         proc' = [proc EXCEPT ![p] = proc'[p]], proc'[p] \in State, Busy(p)'
  PROVE  AInv'
<1>1. Past' /\ Onwards
  BY Typed DEF AInv, Past, Onwards, LinesGrow
<1>2. next' = [next EXCEPT ![p] = next'[p]] /\ next'[p] \in Int /\ Boundary(p)'
  BY Typed DEF AInv, Boundary
<1> QED
  BY <1>1, <1>2, OneMoves

LEMMA ChooseStep ==
  ASSUME AInv, NEW p \in Proc, ChooseName(p)
  PROVE  /\ AInv' /\ Free(proc'[p].to)
         /\ proc'[p].pc = "rename"
<1> DEFINE Try(c) == [at |-> proc[p].at, counter |-> c, gz |-> FALSE]
           first == Min({c \in 0..Len(rotations) : Free(Try(c))})
           to == Try(first)
<1>1. first \in 0..Len(rotations) /\ Free(to)
  BY NameFree
<1>2. proc' = [proc EXCEPT ![p].pc = "rename", ![p].to = to] /\ proc[p].pc = "name"
      /\ UNCHANGED <<now, dir, files, next, lines, written, rotations, faults>>
  BY DEF ChooseName
<1> HIDE DEF first
<1>3. /\ proc[p] \in State /\ DOMAIN proc = Proc /\ proc[p].at \in Nat /\ Len(rotations) \in Nat
      /\ Busy(p)
  BY Typed DEF AInv
<1>4. first \in Nat /\ first <= Len(rotations)
  BY <1>1, <1>3
<1>5. to \in Name /\ to.at = proc[p].at /\ to.counter = first /\ to.gz = FALSE
  BY <1>3, <1>4 DEF Name
<1> HIDE DEF to
<1>6. proc'[p] = [proc[p] EXCEPT !.pc = "rename", !.to = to]
  BY <1>2, <1>3
<1>7. /\ proc'[p] \in State /\ proc'[p].pc = "rename" /\ proc'[p].to = to
      /\ proc'[p].line = proc[p].line /\ proc'[p].at = proc[p].at
  BY <1>3, <1>5, <1>6 DEF State, PC
<1>8. proc' = [proc EXCEPT ![p] = proc'[p]]
  BY <1>2, <1>3, <1>6
<1>9. Busy(p)'
  BY <1>2, <1>3, <1>4, <1>5, <1>7 DEF Busy
<1>10. Disk' /\ faults' \in Nat /\ written' \subseteq DOMAIN lines
  BY <1>2 DEF AInv, Disk, Past, Rotated
<1>11. /\ UNCHANGED <<now, lines, next>> /\ Len(rotations) <= Len(rotations')
       /\ DOMAIN files \subseteq DOMAIN files'
  BY <1>2, <1>3
<1>12. AInv'
  BY <1>7, <1>8, <1>9, <1>10, <1>11, QuietStep
<1> QED
  BY <1>1, <1>2, <1>7, <1>12 DEF Free, Exists

\* p goes to pc and nothing else of it changes.
LEMMA GoesTo ==
  ASSUME AInv, NEW p \in Proc, NEW pc \in PC, Goes(p, pc)
  PROVE  /\ proc' = [proc EXCEPT ![p] = proc'[p]] /\ proc'[p] \in State
         /\ proc'[p] = [proc[p] EXCEPT !.pc = pc]
         /\ proc'[p].pc = pc /\ proc'[p].line = proc[p].line /\ proc'[p].at = proc[p].at
         /\ proc'[p].to = proc[p].to /\ proc'[p].fh = proc[p].fh /\ proc'[p].out = proc[p].out
         /\ proc'[p].due = proc[p].due
<1>1. proc[p] \in State /\ DOMAIN proc = Proc
  BY Typed
<1>2. proc'[p] = [proc[p] EXCEPT !.pc = pc]
  BY <1>1 DEF Goes
<1> QED
  BY <1>1, <1>2 DEF Goes, State

LEMMA RenameStep ==
  ASSUME AInv, NEW p \in Proc, Rename(p)
  PROVE  AInv'
<1> DEFINE to == proc[p].to
           pc == IF Compress THEN "gzip" ELSE "prune"
<1>1. /\ proc[p] \in State /\ DOMAIN proc = Proc /\ proc[p].at \in Nat /\ Len(rotations) \in Nat
      /\ to \in Name /\ Busy(p) /\ Disk /\ Past /\ to.counter \in Nat
  BY Typed DEF AInv
<1>2. proc[p].pc = "rename" /\ Goes(p, pc) /\ Exists(Active) /\ pc \in {"gzip", "prune"}
      /\ UNCHANGED <<now, files, next, lines, written, faults>>
  BY DEF Rename
<1>3. to # Active /\ to.counter <= Len(rotations)
  BY <1>1, <1>2, IdleTyped DEF Busy
<1>4. Disk' /\ Len(rotations') = Len(rotations) + 1
  BY <1>1, <1>2, <1>3, DiskRename DEF Rename
<1> HIDE DEF pc
<1>5. pc \in PC
  BY <1>2 DEF PC
<1>6. /\ proc' = [proc EXCEPT ![p] = proc'[p]] /\ proc'[p] \in State
      /\ proc'[p].pc = pc /\ proc'[p].line = proc[p].line /\ proc'[p].at = proc[p].at
      /\ proc'[p].to = proc[p].to /\ proc'[p].fh = proc[p].fh /\ proc'[p].out = proc[p].out
  BY <1>2, <1>5, GoesTo
<1>7. Busy(p)'
  BY <1>1, <1>2, <1>3, <1>4, <1>6 DEF Busy
<1>8. faults' \in Nat /\ written' \subseteq DOMAIN lines
  BY <1>1, <1>2 DEF Past
<1> QED
  BY <1>1, <1>2, <1>4, <1>6, <1>7, <1>8, QuietStep

LEMMA FaultCounts == ASSUME AInv, Fault PROVE faults' \in Nat /\ faults' = faults + 1
  BY DEF AInv, Past, Fault

\* The end of a rotation that leaves the files alone.
LEMMA ResumeStep ==
  ASSUME AInv, NEW p \in Proc, proc[p].pc # "idle", Resume(p), Disk', DOMAIN files \subseteq DOMAIN files',
         faults' \in Nat, UNCHANGED <<now, lines, written, rotations>>
  PROVE  AInv'
<1>1. /\ next' = [next EXCEPT ![p] = next'[p]] /\ next'[p] \in Int /\ Boundary(p)'
      /\ proc' = [proc EXCEPT ![p] = proc'[p]] /\ proc'[p] = [proc[p] EXCEPT !.pc = "open"]
      /\ proc'[p] \in State
  BY ResumeNext
<1>2. proc[p] \in State /\ Busy(p) /\ Past
  BY Typed DEF AInv
<1>3. proc'[p].pc = "open" /\ proc'[p].line = proc[p].line /\ proc'[p].at = proc[p].at
  BY <1>1, <1>2 DEF State
<1>4. Busy(p)'
  BY <1>2, <1>3 DEF Busy
<1>5. Past' /\ Onwards
  BY <1>2, Typed DEF Past, Onwards, LinesGrow
<1> QED
  BY <1>1, <1>4, <1>5, OneMoves

LEMMA FailStep ==
  ASSUME AInv, NEW p \in Proc, RenameFails(p) \/ UnlinkFails(p) \/ PruneFails(p)
  PROVE  AInv'
<1>1. /\ Fault \/ faults' = faults
      /\ UNCHANGED <<now, dir, files, lines, written, rotations>>
  BY DEF RenameFails, UnlinkFails, PruneFails
<1>2. Disk /\ Past
  BY DEF AInv
<1>3. faults' \in Nat
  BY <1>1, <1>2, FaultCounts DEF Past
<1>4. Disk'
  BY <1>1, <1>2 DEF Disk, Rotated
<1>5. proc[p].pc # "idle" /\ Resume(p)
  BY DEF RenameFails, UnlinkFails, PruneFails
<1> QED
  BY <1>1, <1>3, <1>4, <1>5, ResumeStep

LEMMA PruneStep ==
  ASSUME AInv, NEW p \in Proc, Prune(p)
  PROVE  AInv'
<1>1. /\ proc[p].pc # "idle" /\ Resume(p)
      /\ UNCHANGED <<now, files, lines, written, rotations, faults>>
      /\ dir' = Without(PastBackups) \/ dir' = dir
  BY DEF Prune
<1>2. Disk /\ Past
  BY DEF AInv
<1>3. Disk'
  <2>1. CASE dir' = Without(PastBackups)
    BY <1>1, <1>2, <2>1, DiskWithout
  <2>2. CASE dir' = dir
    BY <1>1, <1>2, <2>2 DEF Disk, Rotated
  <2> QED
    BY <1>1, <2>1, <2>2
<1>4. faults' \in Nat
  BY <1>1, <1>2 DEF Past
<1> QED
  BY <1>1, <1>3, <1>4, ResumeStep

LEMMA GzipStep ==
  ASSUME AInv, NEW p \in Proc, Gzip(p)
  PROVE  AInv'
<1> DEFINE to == proc[p].to
           n == Len(files) + 1
<1>1. /\ proc[p] \in State /\ DOMAIN proc = Proc /\ to \in Name /\ Busy(p) /\ Disk /\ Past
      /\ Len(files) \in Nat /\ Len(rotations) \in Nat
  BY Typed DEF AInv
<1>2. /\ proc[p].pc = "gzip" /\ files' = NewFile /\ dir' = Link(Gz(to), n)
      /\ proc' = [proc EXCEPT ![p].pc = "copy", ![p].fh = dir[to], ![p].out = n]
      /\ Exists(to) /\ UNCHANGED <<now, next, lines, written, rotations, faults>>
  BY DEF Gzip
<1>3. Gz(to) \in Name /\ Gz(to).counter = to.counter /\ to.counter < Len(rotations)
  BY <1>1, <1>2 DEF Gz, Name, Busy
<1>4. Disk' /\ Len(files') = Len(files) + 1
  BY <1>1, <1>2, <1>3, DiskLink
<1>5. dir[to] \in DOMAIN files /\ dir[to] \in Nat /\ n \in Nat
  <2>1. files \in Seq(File) /\ dir[to] \in DOMAIN files
    BY <1>1, <1>2 DEF Disk, Exists
  <2> QED
    BY <1>1, <2>1
<1>6. DOMAIN files \subseteq DOMAIN files' /\ n \in DOMAIN files'
  <2>1. files \in Seq(File) /\ files' \in Seq(File)
    BY <1>1, <1>4 DEF Disk
  <2> QED
    BY <1>1, <1>4, <2>1
<1> HIDE DEF n, to
<1>7. proc'[p] = [proc[p] EXCEPT !.pc = "copy", !.fh = dir[to], !.out = n]
  BY <1>1, <1>2
<1>8. /\ proc'[p] \in State /\ proc'[p].pc = "copy" /\ proc'[p].line = proc[p].line
      /\ proc'[p].at = proc[p].at /\ proc'[p].to = proc[p].to
      /\ proc'[p].fh = dir[to] /\ proc'[p].out = n
  BY <1>1, <1>5, <1>7 DEF State, PC
<1>9. proc' = [proc EXCEPT ![p] = proc'[p]]
  BY <1>1, <1>2, <1>7
<1>10. Busy(p)'
  BY <1>1, <1>2, <1>5, <1>6, <1>8 DEF Busy
<1>11. faults' \in Nat /\ written' \subseteq DOMAIN lines /\ Len(rotations) <= Len(rotations')
  BY <1>1, <1>2 DEF Past
<1> QED
  BY <1>2, <1>4, <1>6, <1>8, <1>9, <1>10, <1>11, QuietStep

LEMMA CopyStep ==
  ASSUME AInv, NEW p \in Proc, Copy(p)
  PROVE  AInv'
<1> DEFINE fh == proc[p].fh
           out == proc[p].out
<1>1. /\ proc[p] \in State /\ DOMAIN proc = Proc /\ Busy(p) /\ Disk /\ Past
      /\ Len(rotations) \in Nat
  BY Typed DEF AInv
<1>2. /\ proc[p].pc = "copy" /\ Goes(p, "unlink")
      /\ files' = [files EXCEPT ![out] = [lines |-> files[fh].lines, touched |-> Stamp]]
      /\ UNCHANGED <<now, dir, next, lines, written, rotations, faults>>
  BY DEF Copy
<1>3. fh \in DOMAIN files /\ out \in DOMAIN files
  BY <1>1, <1>2 DEF Busy
<1>4. files[fh].lines \in Seq(Nat) /\ Of(files[fh].lines, DOMAIN lines)
  BY <1>1, <1>3, LinesOf
<1>5. Disk' /\ DOMAIN files' = DOMAIN files
  BY <1>1, <1>2, <1>3, <1>4, DiskTouch
<1>6. /\ proc' = [proc EXCEPT ![p] = proc'[p]] /\ proc'[p] \in State
      /\ proc'[p].pc = "unlink" /\ proc'[p].line = proc[p].line /\ proc'[p].at = proc[p].at
      /\ proc'[p].to = proc[p].to
  BY <1>2, GoesTo DEF PC
<1>7. Busy(p)'
  BY <1>1, <1>2, <1>6 DEF Busy
<1>8. faults' \in Nat /\ written' \subseteq DOMAIN lines /\ Len(rotations) <= Len(rotations')
  BY <1>1, <1>2 DEF Past
<1> QED
  BY <1>2, <1>5, <1>6, <1>7, <1>8, QuietStep

\* A name goes away.
LEMMA AwayStep ==
  ASSUME AInv, NEW p \in Proc, CompressFails(p) \/ Unlink(p)
  PROVE  AInv'
<1>1. /\ proc[p] \in State /\ Busy(p) /\ Disk /\ Past /\ Len(rotations) \in Nat
  BY Typed DEF AInv
<1>2. /\ proc[p].pc # "idle" /\ Goes(p, "prune") /\ (Fault \/ faults' = faults)
      /\ UNCHANGED <<now, files, next, lines, written, rotations>>
  BY DEF CompressFails, Unlink
<1>3. Disk'
  <2>1. \E names : dir' = Without(names)
    BY DEF CompressFails, Unlink
  <2> QED
    BY <1>1, <1>2, <2>1, DiskWithout
<1>4. /\ proc' = [proc EXCEPT ![p] = proc'[p]] /\ proc'[p] \in State
      /\ proc'[p].pc = "prune" /\ proc'[p].line = proc[p].line /\ proc'[p].at = proc[p].at
  BY <1>2, GoesTo DEF PC
<1>5. Busy(p)'
  BY <1>1, <1>2, <1>4 DEF Busy
<1>6. faults' \in Nat /\ written' \subseteq DOMAIN lines /\ Len(rotations) <= Len(rotations')
  BY <1>1, <1>2, FaultCounts DEF Past
<1>7. DOMAIN files \subseteq DOMAIN files'
  BY <1>2
<1> QED
  BY <1>2, <1>3, <1>4, <1>5, <1>6, <1>7, QuietStep

LEMMA OpenStep ==
  ASSUME AInv, NEW p \in Proc, Open(p)
  PROVE  AInv'
<1>1. /\ proc[p] \in State /\ DOMAIN proc = Proc /\ Busy(p) /\ Disk /\ Past
      /\ Len(files) \in Nat /\ Len(rotations) \in Nat
  BY Typed DEF AInv
<1>2. /\ proc[p].pc = "open"
      /\ proc' = [proc EXCEPT ![p].pc = "write", ![p].fh = dir'[Active]]
      /\ UNCHANGED <<now, next, lines, written, rotations, faults>>
  BY DEF Open
<1>3. /\ Disk' /\ dir'[Active] \in DOMAIN files' /\ DOMAIN files \subseteq DOMAIN files'
      /\ dir'[Active] \in Nat
  <2>1. CASE Exists(Active)
    <3>1. UNCHANGED <<dir, files>>
      BY <2>1 DEF Open
    <3>2. Disk' /\ dir[Active] \in DOMAIN files
      BY <1>1, <1>2, <2>1, <3>1 DEF Disk, Rotated, Exists
    <3>3. files \in Seq(File)
      BY <1>1 DEF Disk
    <3> QED
      BY <3>1, <3>2, <3>3
  <2>2. CASE ~Exists(Active)
    <3>1. files' = NewFile /\ dir' = Link(Active, Len(files) + 1)
      BY <2>2 DEF Open
    <3>2. Disk' /\ dir'[Active] = Len(files) + 1 /\ Len(files') = Len(files) + 1
      BY <1>1, <1>2, <3>1, IdleTyped, DiskLink
    <3>3. files \in Seq(File) /\ files' \in Seq(File)
      BY <1>1, <3>2 DEF Disk
    <3> QED
      BY <1>1, <3>2, <3>3
  <2> QED
    BY <2>1, <2>2
<1>4. proc'[p] = [proc[p] EXCEPT !.pc = "write", !.fh = dir'[Active]]
  BY <1>1, <1>2
<1>5. /\ proc'[p] \in State /\ proc'[p].pc = "write" /\ proc'[p].line = proc[p].line
      /\ proc'[p].at = proc[p].at /\ proc'[p].fh = dir'[Active]
  BY <1>1, <1>3, <1>4 DEF State, PC
<1>6. proc' = [proc EXCEPT ![p] = proc'[p]]
  BY <1>1, <1>2, <1>4
<1>7. Busy(p)'
  BY <1>1, <1>2, <1>3, <1>5 DEF Busy
<1>8. faults' \in Nat /\ written' \subseteq DOMAIN lines /\ Len(rotations) <= Len(rotations')
  BY <1>1, <1>2 DEF Past
<1> QED
  BY <1>2, <1>3, <1>5, <1>6, <1>7, <1>8, QuietStep

\* log() is over.
LEMMA EndsBusy ==
  ASSUME AInv, NEW p \in Proc, proc' = [proc EXCEPT ![p] = Idle]
  PROVE  /\ proc'[p] = Idle /\ proc' = [proc EXCEPT ![p] = proc'[p]]
         /\ proc'[p] \in State /\ proc'[p].pc = "idle" /\ Busy(p)'
<1>1. DOMAIN proc = Proc
  BY Typed
<1>2. proc'[p] = Idle
  BY <1>1
<1>3. Busy(p)'
  BY <1>2, IdleTyped DEF Busy
<1> QED
  BY <1>2, <1>3, IdleTyped

LEMMA WriteStep ==
  ASSUME AInv, NEW p \in Proc, Write(p)
  PROVE  AInv'
<1> DEFINE fh == proc[p].fh
           ls == Append(files[fh].lines, proc[p].line)
<1>1. /\ proc[p] \in State /\ proc[p].line \in Nat /\ Busy(p) /\ Disk /\ Past
      /\ Len(rotations) \in Nat
  BY Typed DEF AInv
<1>2. /\ proc[p].pc = "write" /\ proc' = [proc EXCEPT ![p] = Idle]
      /\ files' = [files EXCEPT ![fh] = [lines |-> Append(@.lines, proc[p].line), touched |-> Stamp]]
      /\ written' = written \cup {proc[p].line}
      /\ UNCHANGED <<now, dir, next, lines, rotations, faults>>
  BY DEF Write
<1>3. fh \in DOMAIN files /\ proc[p].line \in DOMAIN lines
  BY <1>1, <1>2 DEF Busy
<1>4. files[fh].lines \in Seq(Nat) /\ Of(files[fh].lines, DOMAIN lines)
  BY <1>1, <1>3, LinesOf
<1>5. ls \in Seq(Nat) /\ Of(ls, DOMAIN lines)
  BY <1>1, <1>3, <1>4, OfAppend
<1>6. files' = [files EXCEPT ![fh] = [lines |-> ls, touched |-> Stamp]]
  BY <1>2, <1>3
<1> HIDE DEF ls
<1>7. Disk' /\ DOMAIN files' = DOMAIN files
  BY <1>1, <1>2, <1>3, <1>5, <1>6, DiskTouch
<1>8. faults' \in Nat /\ written' \subseteq DOMAIN lines /\ Len(rotations) <= Len(rotations')
  BY <1>1, <1>2, <1>3 DEF Past
<1> QED
  BY <1>2, <1>7, <1>8, EndsBusy, QuietStep

LEMMA StopStep ==
  ASSUME AInv, NEW p \in Proc, WriteFails(p) \/ Restart(p)
  PROVE  AInv'
<1>1. /\ Fault /\ proc' = [proc EXCEPT ![p] = Idle]
      /\ UNCHANGED <<now, dir, files, lines, written, rotations>>
  BY DEF WriteFails, Restart
<1>2. /\ Disk /\ Past /\ Boundary(p) /\ Len(rotations) \in Nat /\ DOMAIN next = Proc
      /\ next[p] \in Int /\ now \in Nat /\ next \in [Proc -> Int]
  BY Typed DEF AInv
<1>3. Disk' /\ Past' /\ Onwards
  <2>1. Disk'
    BY <1>1, <1>2 DEF Disk, Rotated
  <2>2. Past'
    BY <1>1, <1>2, FaultCounts DEF Past
  <2>3. Onwards
    BY <1>1, <1>2 DEF Onwards, LinesGrow
  <2> QED
    BY <2>1, <2>2, <2>3
<1>4. next' = [next EXCEPT ![p] = next'[p]] /\ next'[p] \in Int /\ Boundary(p)'
  <2>1. CASE next' = next
    BY <1>2, <2>1 DEF Boundary
  <2>2. CASE next' = [next EXCEPT ![p] = NextBoundary(now)]
    <3>1. next'[p] = NextBoundary(now)
      BY <1>2, <2>2
    <3> QED
      BY <1>2, <2>2, <3>1, NextIs DEF Boundary
  <2> QED
    BY <2>1, <2>2 DEF WriteFails, Restart
<1> QED
  BY <1>1, <1>3, <1>4, EndsBusy, OneMoves

LEMMA TickStep ==
  ASSUME AInv, Tick
  PROVE  AInv'
<1>1. now' = now + 1 /\ UNCHANGED <<dir, files, next, proc, lines, written, rotations, faults>>
  BY DEF Tick
<1>2. Disk /\ Past /\ now \in Nat
  BY DEF AInv, Past
<1>3. Disk' /\ Past'
  <2>1. Disk'
    BY <1>1, <1>2 DEF Disk, Rotated
  <2>2. Past'
    BY <1>1, <1>2 DEF Past
  <2> QED
    BY <2>1, <2>2
<1>4. Onwards
  <2>1. Len(rotations) \in Nat
    BY <1>2 DEF Disk
  <2> QED
    BY <1>1, <1>2, <2>1 DEF Onwards, LinesGrow
<1>5. \A q \in Proc : Busy(q)' /\ Boundary(q)'
  BY <1>1, <1>4, Waits
<1> QED
  BY <1>1, <1>3, <1>5 DEF AInv

LEMMA AInvInit == Init => AInv
<1> SUFFICES ASSUME Init PROVE AInv
  OBVIOUS
<1>1. Disk
  <2>1. /\ DOMAIN dir = {} /\ files = << >> /\ rotations = << >>
        /\ files \in Seq(File) /\ rotations \in Seq(Seq(Nat))
        /\ DOMAIN files = {} /\ DOMAIN rotations = {}
    BY DEF Init
  <2> QED
    BY <2>1, FS_EmptySet DEF Disk, Rotated
<1>2. Past
  BY DEF Init, Past
<1>3. ASSUME NEW p \in Proc
      PROVE  Busy(p) /\ Boundary(p) /\ next[p] \in Int /\ proc[p] \in State
  <2>1. proc[p] = Idle /\ next[p] = NextBoundary(0)
    BY DEF Init
  <2> QED
    BY <2>1, NextIs, IdleTyped DEF Busy, Boundary
<1>4. proc \in [Proc -> State] /\ next \in [Proc -> Int]
  BY <1>3 DEF Init
<1> QED
  BY <1>1, <1>2, <1>3, <1>4 DEF AInv

LEMMA AInvNext == AInv /\ [Next]_vars => AInv'
<1> SUFFICES ASSUME AInv, [Next]_vars PROVE AInv'
  OBVIOUS
<1>1. CASE UNCHANGED vars
  BY <1>1 DEF vars, AInv, Disk, Past, Rotated, Busy, Boundary
<1>2. CASE Tick
  BY <1>2, TickStep
<1>3. ASSUME NEW p \in Proc, Log(p) \/ Rotate(p) \/ Restart(p)
      PROVE  AInv'
  BY <1>3, EnterStep, ChooseStep, RenameStep, FailStep, GzipStep, CopyStep, AwayStep,
     PruneStep, OpenStep, WriteStep, StopStep DEF Log, Rotate
<1> QED
  BY <1>1, <1>2, <1>3 DEF Next

LEMMA DivIs ==
  ASSUME NEW d \in Nat, d > 0, NEW t \in Nat
  PROVE  t \div d \in Nat /\ t % d \in 0..d - 1 /\ t = d * (t \div d) + (t % d)
OBVIOUS

LEMMA DivAbove ==
  ASSUME NEW d \in Nat, d > 0, NEW t \in Nat, NEW b \in Nat
  PROVE  t >= d * b <=> t \div d >= b
<1> DEFINE q == t \div d
           r == t % d
<1>1. q \in Nat /\ t = d * q + r /\ r \in 0..d - 1
  BY DivIs
<1> HIDE DEF q, r
<1>2. ASSUME q >= b PROVE t >= d * b
  <2>1. d * q >= d * b
    BY <1>1, <1>2
  <2>2. d * q \in Nat /\ d * b \in Nat
    BY <1>1
  <2> QED
    BY <1>1, <2>1, <2>2
<1>3. ASSUME q < b PROVE t < d * b
  <2>1. d * (q + 1) <= d * b
    BY <1>1, <1>3
  <2>2. d * (q + 1) = d * q + d
    BY <1>1
  <2>3. d * q \in Nat /\ d * b \in Nat
    BY <1>1
  <2> QED
    BY <1>1, <2>1, <2>2, <2>3
<1> QED
  BY <1>1, <1>2, <1>3 DEF q

\* The boundary after a time lies after it.
LEMMA BoundaryLater ==
  ASSUME NEW t \in Nat, NextBoundary(t) # -1
  PROVE  t < NextBoundary(t)
<1>1. DayTicks \in Nat \ {0}
  BY RotationAssumption DEF NextBoundary
<1> DEFINE q == t \div DayTicks
<1>2. q \in Nat /\ NextBoundary(t) = (q + 1) * DayTicks
  BY <1>1, DivIs DEF NextBoundary
<1>3. t >= DayTicks * (q + 1) <=> q >= q + 1
  BY <1>1, <1>2, DivAbove
<1> HIDE DEF q
<1>4. (q + 1) * DayTicks = DayTicks * (q + 1) /\ DayTicks * (q + 1) \in Nat
  BY <1>1, <1>2
<1> QED
  BY <1>2, <1>3, <1>4

Ahead(p) == Settled(p) /\ next[p] # -1 => proc[p].at < next[p]

LEMMA AheadStep ==
  ASSUME AInv, NEW p \in Proc, Ahead(p), Log(p) \/ Rotate(p) \/ Restart(p)
  PROVE  Ahead(p)'
<1>0. /\ proc[p] \in State /\ proc[p].at \in Nat /\ next[p] \in Int /\ now \in Nat
      /\ DOMAIN proc = Proc /\ DOMAIN next = Proc
  BY Typed
<1>1. ASSUME proc'[p].pc = "idle"
      PROVE  Ahead(p)'
  BY <1>1 DEF Ahead, Settled
<1>2. CASE LogInPlace(p) \/ LogRotating(p)
  <2>1. PICK pc \in {"open", "name"} : Enter(p, pc)
    BY <1>2 DEF LogInPlace, LogRotating
  <2>2. proc'[p] = [Idle EXCEPT !.pc = pc, !.line = Len(lines) + 1, !.at = now, !.due = TimeDue(p)]
    BY <1>0, <2>1 DEF Enter
  <2>3. proc'[p].pc = pc /\ proc'[p].at = now /\ proc'[p].due = TimeDue(p)
    BY <2>2 DEF Idle
  <2>4. CASE ~TimeDue(p)
    <3>1. next'[p] = next[p]
      BY <1>0, <1>2, <2>4 DEF LogInPlace, LogRotating
    <3> QED
      BY <1>0, <2>3, <2>4, <3>1 DEF TimeDue, Ahead
  <2>5. CASE LogRotating(p) /\ TimeDue(p)
    <3>1. proc'[p].pc = "name"
      BY <1>0, <2>5 DEF LogRotating, Enter, Idle
    <3> QED
      BY <2>3, <2>5, <3>1 DEF Ahead, Settled
  <2>6. CASE LogInPlace(p) /\ TimeDue(p)
    <3>1. next'[p] = NextBoundary(now)
      BY <1>0, <2>6 DEF LogInPlace
    <3> QED
      BY <1>0, <2>3, <3>1, BoundaryLater DEF Ahead
  <2> QED
    BY <1>2, <2>4, <2>5, <2>6
<1>3. CASE RenameFails(p) \/ UnlinkFails(p) \/ Prune(p) \/ PruneFails(p)
  <2>1. Resume(p) /\ proc[p].pc \in {"rename", "unlink", "prune"}
    BY <1>3 DEF RenameFails, UnlinkFails, Prune, PruneFails
  <2>2. /\ proc'[p] = [proc[p] EXCEPT !.pc = "open"]
        /\ next'[p] = IF proc[p].due THEN NextBoundary(proc[p].at) ELSE next[p]
    BY <2>1, ResumeNext
  <2>3. proc'[p].at = proc[p].at
    BY <1>0, <2>2 DEF State
  <2>4. CASE proc[p].due
    BY <1>0, <2>2, <2>3, <2>4, BoundaryLater DEF Ahead
  <2>5. CASE ~proc[p].due
    BY <2>1, <2>2, <2>3, <2>5 DEF Ahead, Settled
  <2> QED
    BY <2>4, <2>5
<1>4. CASE ChooseName(p) \/ Rename(p) \/ Gzip(p) \/ Copy(p) \/ CompressFails(p) \/ Unlink(p) \/ Open(p)
  <2>1. next'[p] = next[p]
    BY <1>4 DEF ChooseName, Rename, Gzip, Copy, CompressFails, Unlink, Open
  <2>2. proc'[p].at = proc[p].at /\ proc'[p].due = proc[p].due
    BY <1>0, <1>4
    DEF ChooseName, Rename, Gzip, Copy, CompressFails, Unlink, Open, Goes, State
  <2>3. proc[p].pc # "idle" /\ (proc'[p].pc \in {"open", "write"} => proc[p].pc = "open")
    BY <1>0, <1>4
    DEF ChooseName, Rename, Gzip, Copy, CompressFails, Unlink, Open, Goes, State
  <2> QED
    BY <2>1, <2>2, <2>3 DEF Ahead, Settled
<1>5. CASE Write(p) \/ WriteFails(p) \/ Restart(p)
  <2>1. proc'[p] = Idle
    BY <1>0, <1>5 DEF Write, WriteFails, Restart
  <2> QED
    BY <1>1, <2>1, IdleTyped
<1> QED
  BY <1>2, <1>3, <1>4, <1>5 DEF Log, Rotate

\* Nobody but the process itself and its end touches its place and its boundary.
LEMMA AheadNext ==
  ASSUME AInv, \A p \in Proc : Ahead(p), [Next]_vars, NEW q \in Proc
  PROVE  Ahead(q)'
<1>1. ASSUME proc'[q] = proc[q], next'[q] = next[q]
      PROVE  Ahead(q)'
  BY <1>1 DEF Ahead, Settled
<1>2. CASE Tick \/ UNCHANGED vars
  BY <1>1, <1>2 DEF Tick, vars
<1>3. ASSUME NEW p \in Proc, Log(p) \/ Rotate(p) \/ Restart(p)
      PROVE  Ahead(q)'
  <2>1. CASE q = p
    BY <1>3, <2>1, AheadStep
  <2>2. CASE q # p
    <3>1. proc'[q] = proc[q]
      BY <1>3, <2>2 DEF AInv, Log, Rotate, LogInPlace, LogRotating, Enter, Open, Write, WriteFails,
         ChooseName, Rename, RenameFails, Gzip, Copy, CompressFails, Unlink, UnlinkFails, Prune,
         PruneFails, Resume, Goes, Restart
    <3>2. next'[q] = next[q]
      BY <1>3, <2>2 DEF AInv, Log, Rotate, LogInPlace, LogRotating, Enter, Open, Write, WriteFails,
         ChooseName, Rename, RenameFails, Gzip, Copy, CompressFails, Unlink, UnlinkFails, Prune,
         PruneFails, Resume, Goes, Restart
    <3> QED
      BY <1>1, <3>1, <3>2
  <2> QED
    BY <2>1, <2>2
<1> QED
  BY <1>2, <1>3 DEF Next

\* The directory, the files and the processes keep their shape, whatever processes log
\* and wherever they die (audit/log.py, AuditLogger), and a line that goes on to be written
\* has its process's next boundary ahead of it (_maybe_rotate, _compute_next_rotation).
THEOREM TypeCorrect == Spec => []TypeOK
<1> DEFINE AllAhead == \A p \in Proc : Ahead(p)
<1>1. AInv /\ AllAhead => TypeOK
  <2> SUFFICES ASSUME AInv, AllAhead
               PROVE  TypeOK
    OBVIOUS
  <2>1. next \in [Proc -> Nat \cup {-1}]
    BY DEF AInv, Boundary
  <2>2. \A p \in Proc : Settled(p) /\ next[p] # -1 => proc[p].at < next[p]
    BY DEF Ahead
  <2> QED
    BY <2>1, <2>2 DEF AInv, Disk, Past, Busy, TypeOK
<1>2. Init => AllAhead
  BY IdleTyped DEF Init, Ahead, Settled
<1>3. AInv /\ AllAhead /\ [Next]_vars => AllAhead'
  BY AheadNext
<1> QED
  BY <1>1, <1>2, <1>3, AInvInit, AInvNext, PTL DEF Spec

-----------------------------------------------------------------------------
(* One process on the file.                                                      *)

\* Files are written in the order they were made, and one name is all a file has.
InOrder ==
    /\ \A n, m \in DOMAIN dir : dir[n] = dir[m] => n = m
    /\ Exists(Active) => dir[Active] = Len(files)
    /\ \A f, g \in DOMAIN files : f < g => files[f].touched < files[g].touched
    /\ \A k \in DOMAIN rotations : rotations[k] # << >>

\* What a process finds as it left it, being the only one.
Alone(p) ==
    LET me == proc[p] IN
    /\ me.pc \in {"name", "rename"} => ActiveLines # << >>
    /\ me.pc = "rename" => Free(me.to)
    /\ me.pc \in {"gzip", "copy", "unlink", "prune"} => ~Exists(Active)
    /\ me.pc \in {"gzip", "copy", "unlink"} => Exists(me.to)
    /\ me.pc = "gzip" => ~Exists(Gz(me.to)) /\ dir[me.to] = Len(files)
    /\ me.pc \in {"copy", "unlink"} =>
          /\ Exists(Gz(me.to)) /\ dir[Gz(me.to)] = Len(files)
          /\ me.out = Len(files) /\ me.fh = dir[me.to] /\ me.fh = Len(files) - 1
    /\ me.pc = "copy" => files[me.out].lines = << >>
    /\ me.pc = "unlink" => files[me.out].lines = Lines(me.to)
    /\ me.pc = "write" => Exists(Active) /\ me.fh = dir[Active]

\* Nothing is renamed onto another file.
NamesStay == \A n \in Rotated \cap DOMAIN dir' : dir'[n] = dir[n]

LEMMA ActiveTyped ==
  ASSUME Disk
  PROVE  ActiveLines \in Seq(Nat) /\ Of(ActiveLines, DOMAIN lines)
<1>1. CASE Exists(Active)
  <2>1. dir[Active] \in DOMAIN files
    BY <1>1 DEF Disk, Exists
  <2> QED
    BY <1>1, <2>1, LinesOf DEF ActiveLines, Lines
<1>2. CASE ~Exists(Active)
  <2>1. ActiveLines = << >>
    BY <1>2 DEF ActiveLines
  <2> QED
    BY <2>1 DEF Of
<1> QED
  BY <1>1, <1>2

LEMMA SameFiles ==
  ASSUME InOrder, UNCHANGED <<dir, files, rotations>>
  PROVE  InOrder' /\ NamesStay /\ ActiveLines' = ActiveLines /\ Rotated' = Rotated
<1>1. InOrder'
  BY DEF InOrder, Exists
<1>2. NamesStay /\ Rotated' = Rotated
  BY DEF NamesStay, Rotated
<1>3. ActiveLines' = ActiveLines
  BY DEF ActiveLines, Exists, Lines
<1> QED
  BY <1>1, <1>2, <1>3

LEMMA AloneEnter ==
  ASSUME AInv, InOrder, NEW p \in Proc, LogInPlace(p) \/ LogRotating(p)
  PROVE  Alone(p)'
<1>1. PICK pc \in {"open", "name"} : Enter(p, pc) /\ (pc = "name" => ~NothingToRotate)
  BY DEF LogInPlace, LogRotating
<1>2. DOMAIN proc = Proc /\ UNCHANGED <<dir, files, rotations>>
  BY Typed DEF LogInPlace, LogRotating
<1>3. proc'[p].pc = pc
  BY <1>1, <1>2 DEF Enter, Idle
<1>4. pc = "name" => ActiveLines' # << >>
  BY <1>1, <1>2, SameFiles DEF NothingToRotate
<1> QED
  BY <1>1, <1>3, <1>4 DEF Alone

LEMMA AloneChoose ==
  ASSUME AInv, InOrder, NEW p \in Proc, Alone(p), ChooseName(p)
  PROVE  Alone(p)'
<1>1. Free(proc'[p].to) /\ proc'[p].pc = "rename"
  BY ChooseStep
<1>2. UNCHANGED <<dir, files, rotations>> /\ proc[p].pc = "name"
  BY DEF ChooseName
<1>3. ActiveLines' # << >>
  BY <1>2, SameFiles DEF Alone
<1>4. Free(proc[p].to)'
  BY <1>1, <1>2 DEF Free, Exists
<1> QED
  BY <1>1, <1>3, <1>4 DEF Alone

LEMMA AloneRename ==
  ASSUME AInv, InOrder, NEW p \in Proc, Alone(p), Rename(p)
  PROVE  /\ Alone(p)' /\ InOrder' /\ NamesStay
         /\ ActiveLines' = << >> /\ rotations' = Append(rotations, ActiveLines)
         /\ ActiveLines # << >> /\ Exists(Active)
         /\ DOMAIN dir' = (DOMAIN dir \cup {proc[p].to}) \ {Active}
         /\ proc[p].to # Active /\ ~Exists(proc[p].to)
         /\ dir'[proc[p].to] = dir[Active] /\ \A n \in Rotated : dir'[n] = dir[n]
         /\ proc'[p].pc = IF Compress THEN "gzip" ELSE "prune"
<1> DEFINE to == proc[p].to
           pc == IF Compress THEN "gzip" ELSE "prune"
<1>1. /\ proc[p] \in State /\ DOMAIN proc = Proc /\ proc[p].at \in Nat /\ Len(rotations) \in Nat
      /\ to \in Name /\ Busy(p) /\ Disk /\ Past /\ to.counter \in Nat
  BY Typed DEF AInv
<1>2. proc[p].pc = "rename" /\ Goes(p, pc) /\ Exists(Active) /\ pc \in {"gzip", "prune"}
      /\ UNCHANGED <<now, files, next, lines, written, faults>>
      /\ rotations' = Append(rotations, Lines(Active))
  BY DEF Rename
<1>3. to # Active /\ to.counter <= Len(rotations) /\ to.at # -1 /\ ~to.gz
  BY <1>1, <1>2, IdleTyped DEF Busy
<1>4. /\ Disk' /\ DOMAIN dir' = (DOMAIN dir \cup {to}) \ {Active} /\ dir'[to] = dir[Active]
      /\ \A n \in DOMAIN dir \ {Active, to} : dir'[n] = dir[n]
      /\ Len(rotations') = Len(rotations) + 1
      /\ \A k \in DOMAIN rotations : rotations'[k] = rotations[k]
      /\ rotations'[Len(rotations) + 1] = ActiveLines
  BY <1>1, <1>2, <1>3, DiskRename DEF Rename
<1>5. ActiveLines # << >> /\ ~Exists(to) /\ ~Exists(Gz(to))
  BY <1>2 DEF Alone, Free
<1>6. /\ proc'[p].pc = pc /\ proc'[p].to = to
  BY <1>2, GoesTo DEF PC
<1> HIDE DEF pc
<1>7. ~Exists(Active)' /\ to \in DOMAIN dir'
  BY <1>3, <1>4 DEF Exists
<1>8. Gz(to) \notin DOMAIN dir'
  <2>1. Gz(to) # to
    BY <1>1, <1>3 DEF Gz, Name
  <2> QED
    BY <1>4, <1>5, <2>1 DEF Exists
<1>9. Alone(p)'
  <2>1. ~Exists(Gz(proc[p].to))' /\ Exists(proc[p].to)'
    BY <1>6, <1>7, <1>8 DEF Exists, Gz
  <2> QED
    BY <1>2, <1>4, <1>6, <1>7, <2>1 DEF Alone, InOrder
<1>10. \A n \in Rotated : dir'[n] = dir[n]
  BY <1>4, <1>5 DEF Rotated, Exists
<1>11. InOrder'
  <2>1. ASSUME NEW n \in DOMAIN dir', NEW m \in DOMAIN dir', dir'[n] = dir'[m]
        PROVE  n = m
    <3> DEFINE Old(x) == IF x = to THEN Active ELSE x
    <3>1. ASSUME NEW x \in DOMAIN dir'
          PROVE  Old(x) \in DOMAIN dir /\ dir'[x] = dir[Old(x)] /\ x # Active
      BY <1>2, <1>4 DEF Exists
    <3>2. Old(n) = Old(m)
      <4> HIDE DEF Old
      <4> QED
        BY <2>1, <3>1 DEF InOrder
    <3> QED
      BY <3>1, <3>2
  <2>2. \A k \in DOMAIN rotations' : rotations'[k] # << >>
    <3>1. rotations \in Seq(Seq(Nat)) /\ rotations' \in Seq(Seq(Nat))
      BY <1>1, <1>4 DEF Disk
    <3>2. \A k \in DOMAIN rotations' : k \in DOMAIN rotations \/ k = Len(rotations) + 1
      BY <1>1, <1>4, <3>1
    <3> QED
      BY <1>4, <1>5, <3>2 DEF InOrder
  <2>3. \A f, g \in DOMAIN files' : f < g => files'[f].touched < files'[g].touched
    BY <1>2 DEF InOrder
  <2> QED
    BY <1>7, <2>1, <2>2, <2>3 DEF InOrder
<1>12. ActiveLines' = << >> /\ rotations' = Append(rotations, ActiveLines)
  BY <1>2, <1>7 DEF ActiveLines
<1>13. NamesStay
  BY <1>10 DEF NamesStay
<1> QED
  BY <1>2, <1>3, <1>4, <1>5, <1>6, <1>9, <1>10, <1>11, <1>12, <1>13 DEF pc

\* Back to the line itself.
LEMMA AloneResume ==
  ASSUME AInv, InOrder, NEW p \in Proc, proc[p].pc # "idle", Resume(p)
  PROVE  Alone(p)' /\ proc'[p].pc = "open" /\ proc'[p].at = proc[p].at /\ proc'[p].due = proc[p].due
<1>1. proc[p] \in State /\ proc'[p] = [proc[p] EXCEPT !.pc = "open"]
  BY ResumeNext, Typed
<1>2. proc'[p].pc = "open" /\ proc'[p].at = proc[p].at /\ proc'[p].due = proc[p].due
  BY <1>1 DEF State
<1> QED
  BY <1>2 DEF Alone

LEMMA AloneOver ==
  ASSUME AInv, NEW p \in Proc, proc' = [proc EXCEPT ![p] = Idle]
  PROVE  Alone(p)' /\ proc'[p].pc = "idle"
BY EndsBusy DEF Alone

\* A new file comes last.
LEMMA OrderLink ==
  ASSUME Disk, InOrder, NEW name \in Name, ~Exists(name), name # Active => ~Exists(Active) /\ name.counter < Len(rotations),
         files' = NewFile, dir' = Link(name, Len(files) + 1), UNCHANGED <<rotations, lines>>
  PROVE  InOrder' /\ NamesStay
<1>1. /\ Disk' /\ DOMAIN dir' = DOMAIN dir \cup {name} /\ dir'[name] = Len(files) + 1
      /\ \A n \in DOMAIN dir \ {name} : dir'[n] = dir[n]
      /\ Len(files') = Len(files) + 1 /\ Len(files) \in Nat
      /\ \A f \in DOMAIN files : files'[f] = files[f]
      /\ files'[Len(files) + 1] = [lines |-> << >>, touched |-> Stamp]
  BY DiskLink
<1>2. files \in Seq(File) /\ files' \in Seq(File) /\ DOMAIN files = 1..Len(files)
      /\ DOMAIN files' = 1..Len(files) + 1
  <2>1. files \in Seq(File) /\ files' \in Seq(File)
    BY <1>1 DEF Disk
  <2> QED
    BY <1>1, <2>1
<1>3. \A n \in DOMAIN dir : n # name /\ dir'[n] = dir[n] /\ dir[n] \in 1..Len(files)
  BY <1>1, <1>2 DEF Disk, Exists
<1>4. \A n, m \in DOMAIN dir' : dir'[n] = dir'[m] => n = m
  <2>1. \A n \in DOMAIN dir : dir'[n] # Len(files) + 1
    BY <1>1, <1>3
  <2> QED
    BY <1>1, <1>3, <2>1 DEF InOrder
<1>5. Exists(Active)' => dir'[Active] = Len(files')
  BY <1>1 DEF Exists
<1>6. ASSUME NEW f \in DOMAIN files', NEW g \in DOMAIN files', f < g
      PROVE  files'[f].touched < files'[g].touched
  <2>1. f \in DOMAIN files /\ files'[f] = files[f]
    BY <1>1, <1>2, <1>6
  <2>2. CASE g \in DOMAIN files
    BY <1>1, <1>6, <2>1, <2>2 DEF InOrder
  <2>3. CASE g = Len(files) + 1
    BY <1>1, <2>1, <2>3, StampNewer
  <2> QED
    BY <1>1, <1>2, <2>2, <2>3
<1>7. InOrder'
  BY <1>4, <1>5, <1>6 DEF InOrder
<1> QED
  BY <1>3, <1>7 DEF NamesStay, Rotated

\* The last file may be written.
LEMMA OrderTouch ==
  ASSUME Disk, InOrder, NEW f \in DOMAIN files, f = Len(files), NEW ls \in Seq(Nat), Of(ls, DOMAIN lines),
         files' = [files EXCEPT ![f] = [lines |-> ls, touched |-> Stamp]],
         UNCHANGED <<dir, rotations, lines>>
  PROVE  InOrder' /\ NamesStay
<1>1. /\ Disk' /\ Len(files') = Len(files) /\ DOMAIN files' = DOMAIN files
      /\ files'[f] = [lines |-> ls, touched |-> Stamp]
      /\ \A g \in DOMAIN files \ {f} : files'[g] = files[g]
  BY DiskTouch
<1>2. files \in Seq(File) /\ DOMAIN files = 1..Len(files) /\ Len(files) \in Nat
  <2>1. files \in Seq(File)
    BY DEF Disk
  <2> QED
    BY <2>1
<1>3. ASSUME NEW g \in DOMAIN files', NEW h \in DOMAIN files', g < h
      PROVE  files'[g].touched < files'[h].touched
  <2>1. g \in DOMAIN files /\ g # f /\ files'[g] = files[g]
    BY <1>1, <1>2, <1>3
  <2>2. CASE h # f
    BY <1>1, <1>3, <2>1, <2>2 DEF InOrder
  <2>3. CASE h = f
    BY <1>1, <2>1, <2>3, StampNewer
  <2> QED
    BY <2>2, <2>3
<1>4. InOrder'
  BY <1>1, <1>3 DEF InOrder, Exists
<1> QED
  BY <1>4 DEF NamesStay

LEMMA OrderWithout ==
  ASSUME InOrder, NEW names, dir' = Without(names), UNCHANGED <<files, rotations>>
  PROVE  /\ InOrder' /\ NamesStay /\ DOMAIN dir' = DOMAIN dir \ names
         /\ \A n \in DOMAIN dir' : dir'[n] = dir[n] /\ Lines(n)' = Lines(n)
         /\ ~Exists(Active) => ~Exists(Active)' /\ ActiveLines' = ActiveLines
<1>1. DOMAIN dir' = DOMAIN dir \ names /\ \A n \in DOMAIN dir' : dir'[n] = dir[n]
  BY DEF Without
<1>2. InOrder'
  BY <1>1 DEF InOrder, Exists
<1>3. \A n \in DOMAIN dir' : Lines(n)' = Lines(n)
  BY <1>1 DEF Lines
<1> QED
  BY <1>1, <1>2, <1>3 DEF NamesStay, Exists, ActiveLines

LEMMA AloneGzip ==
  ASSUME AInv, InOrder, NEW p \in Proc, Alone(p), Gzip(p)
  PROVE  /\ Alone(p)' /\ InOrder' /\ NamesStay /\ ActiveLines' = ActiveLines
         /\ proc'[p].pc = "copy" /\ Gz(proc[p].to) # Active /\ Gz(proc[p].to) # proc[p].to
         /\ DOMAIN dir' = DOMAIN dir \cup {Gz(proc[p].to)} /\ dir'[Gz(proc[p].to)] = Len(files) + 1
         /\ \A n \in DOMAIN dir : dir'[n] = dir[n] /\ Lines(n)' = Lines(n)
         /\ ~Exists(Gz(proc[p].to)) /\ Exists(proc[p].to) /\ ~Exists(Active)
<1> DEFINE to == proc[p].to
           n == Len(files) + 1
           gz == Gz(to)
<1>1. /\ proc[p] \in State /\ DOMAIN proc = Proc /\ to \in Name /\ Busy(p) /\ Disk /\ Past
      /\ Len(files) \in Nat /\ Len(rotations) \in Nat /\ proc[p].at \in Nat
  BY Typed DEF AInv
<1>2. /\ proc[p].pc = "gzip" /\ files' = NewFile /\ dir' = Link(gz, n)
      /\ proc' = [proc EXCEPT ![p].pc = "copy", ![p].fh = dir[to], ![p].out = n]
      /\ UNCHANGED <<now, next, lines, written, rotations, faults>>
  BY DEF Gzip
<1>3. gz \in Name /\ gz.counter < Len(rotations) /\ gz # to /\ gz # Active
  <2>1. to.at = proc[p].at /\ ~to.gz /\ to.counter < Len(rotations)
    BY <1>1, <1>2 DEF Busy
  <2>2. gz \in Name /\ gz.gz /\ gz.at = to.at /\ gz.counter = to.counter
    BY <1>1 DEF Gz, Name
  <2>3. gz.at # -1
    BY <1>1, <2>1, <2>2
  <2> QED
    BY <2>1, <2>2, <2>3, IdleTyped
<1>4. ~Exists(Active) /\ Exists(to) /\ ~Exists(gz) /\ dir[to] = Len(files)
  BY <1>2 DEF Alone
<1>5. /\ DOMAIN dir' = DOMAIN dir \cup {gz} /\ dir'[gz] = Len(files) + 1
      /\ \A m \in DOMAIN dir \ {gz} : dir'[m] = dir[m]
      /\ Len(files') = Len(files) + 1
      /\ \A f \in DOMAIN files : files'[f] = files[f]
      /\ files'[Len(files) + 1] = [lines |-> << >>, touched |-> Stamp]
  BY <1>1, <1>2, <1>3, DiskLink
<1>6. InOrder' /\ NamesStay
  BY <1>1, <1>2, <1>3, <1>4, OrderLink
<1>7. proc'[p] = [proc[p] EXCEPT !.pc = "copy", !.fh = dir[to], !.out = n]
  BY <1>1, <1>2
<1>8. /\ proc'[p].pc = "copy" /\ proc'[p].to = to /\ proc'[p].fh = dir[to] /\ proc'[p].out = n
  BY <1>1, <1>7 DEF State
<1>9. \A m \in DOMAIN dir : dir'[m] = dir[m] /\ Lines(m)' = Lines(m)
  <2>1. \A m \in DOMAIN dir : dir'[m] = dir[m] /\ dir[m] \in DOMAIN files
    BY <1>1, <1>4, <1>5 DEF Disk, Exists
  <2> QED
    BY <1>5, <2>1 DEF Lines
<1>10. Alone(p)'
  <2>1. Active \notin DOMAIN dir' /\ to \in DOMAIN dir' /\ gz \in DOMAIN dir' /\ dir'[to] = dir[to]
    BY <1>3, <1>4, <1>5, <1>9 DEF Exists
  <2>2. Gz(proc[p].to)' = gz
    BY <1>8 DEF Gz
  <2>3. ~Exists(Active)' /\ Exists(proc[p].to)' /\ Exists(Gz(proc[p].to))'
    BY <1>8, <2>1, <2>2 DEF Exists
  <2>4. /\ dir'[Gz(proc[p].to)'] = Len(files)' /\ proc'[p].out = Len(files)'
        /\ files'[proc'[p].out].lines = << >> /\ proc'[p].fh = Len(files)' - 1
    BY <1>1, <1>4, <1>5, <1>8, <2>2
  <2> QED
    BY <1>5, <1>8, <2>1, <2>3, <2>4 DEF Alone
<1>11. ActiveLines' = ActiveLines
  BY <1>3, <1>4, <1>5 DEF ActiveLines, Exists
<1> QED
  BY <1>3, <1>4, <1>5, <1>6, <1>8, <1>9, <1>10, <1>11

LEMMA AloneCopy ==
  ASSUME AInv, InOrder, NEW p \in Proc, Alone(p), Copy(p)
  PROVE  /\ Alone(p)' /\ InOrder' /\ NamesStay /\ ActiveLines' = ActiveLines
         /\ proc'[p].pc = "unlink" /\ proc'[p].to = proc[p].to
         /\ \A n \in DOMAIN dir \ {Gz(proc[p].to)} : Lines(n)' = Lines(n)
         /\ Lines(Gz(proc[p].to))' = Lines(proc[p].to) /\ ~Exists(Active)
         /\ Exists(proc[p].to) /\ Exists(Gz(proc[p].to)) /\ Lines(Gz(proc[p].to)) = << >>
<1> DEFINE to == proc[p].to
           fh == proc[p].fh
           out == proc[p].out
           gz == Gz(to)
<1>1. /\ proc[p] \in State /\ DOMAIN proc = Proc /\ Busy(p) /\ Disk /\ Past /\ to \in Name
  BY Typed DEF AInv
<1>2. /\ proc[p].pc = "copy" /\ Goes(p, "unlink")
      /\ files' = [files EXCEPT ![out] = [lines |-> files[fh].lines, touched |-> Stamp]]
      /\ UNCHANGED <<now, dir, next, lines, written, rotations, faults>>
  BY DEF Copy
<1>3. /\ fh \in DOMAIN files /\ out \in DOMAIN files /\ ~to.gz
      /\ Exists(to) /\ Exists(gz) /\ dir[gz] = out /\ out = Len(files) /\ fh = dir[to] /\ ~Exists(Active)
      /\ fh = Len(files) - 1 /\ files[out].lines = << >>
  BY <1>1, <1>2 DEF Busy, Alone
<1>4. files[fh].lines \in Seq(Nat) /\ Of(files[fh].lines, DOMAIN lines)
  BY <1>1, <1>3, LinesOf
<1>5. /\ Disk' /\ DOMAIN files' = DOMAIN files /\ Len(files') = Len(files)
      /\ files'[out] = [lines |-> files[fh].lines, touched |-> Stamp]
      /\ \A g \in DOMAIN files \ {out} : files'[g] = files[g]
  BY <1>1, <1>2, <1>3, <1>4, DiskTouch
<1>6. InOrder' /\ NamesStay
  BY <1>1, <1>2, <1>3, <1>4, OrderTouch
<1>7. gz # to /\ fh # out
  <2>1. gz.gz
    BY <1>1 DEF Gz, Name
  <2> QED
    BY <1>3, <2>1 DEF InOrder, Exists
<1>8. \A n \in DOMAIN dir \ {gz} : Lines(n)' = Lines(n)
  <2>1. \A n \in DOMAIN dir \ {gz} : dir[n] \in DOMAIN files \ {out}
    BY <1>1, <1>3 DEF InOrder, Exists, Disk
  <2> QED
    BY <1>2, <1>5, <2>1 DEF Lines
<1>9. /\ proc'[p].pc = "unlink" /\ proc'[p].to = to /\ proc'[p].fh = fh /\ proc'[p].out = out
  BY <1>2, GoesTo DEF PC
<1>10. files'[dir[gz]].lines = files[dir[to]].lines /\ files'[dir[to]].lines = files[dir[to]].lines
  <2>1. dir[gz] = out /\ dir[to] = fh /\ fh \in DOMAIN files \ {out}
    BY <1>3, <1>7
  <2> HIDE DEF gz, to, fh, out
  <2> QED
    BY <1>5, <2>1
<1>11. Alone(p)'
  <2>1. Gz(proc[p].to)' = gz
    BY <1>9 DEF Gz
  <2>2. ~Exists(Active)' /\ Exists(proc[p].to)' /\ Exists(Gz(proc[p].to))'
    BY <1>2, <1>3, <1>9, <2>1 DEF Exists
  <2>3. /\ dir'[Gz(proc[p].to)'] = Len(files)' /\ proc'[p].out = Len(files)'
        /\ proc'[p].fh = dir'[proc'[p].to] /\ proc'[p].fh = Len(files)' - 1
        /\ files'[proc'[p].out].lines = Lines(proc[p].to)'
    BY <1>2, <1>3, <1>5, <1>9, <1>10, <2>1 DEF Lines
  <2> QED
    BY <1>9, <2>2, <2>3 DEF Alone
<1>12. ActiveLines' = ActiveLines
  BY <1>2, <1>3 DEF ActiveLines, Exists
<1>13. Lines(Gz(proc[p].to))' = Lines(to)
  BY <1>2, <1>9, <1>10 DEF Lines, Gz
<1>14. Lines(gz) = << >>
  BY <1>3 DEF Lines
<1> QED
  BY <1>3, <1>6, <1>8, <1>9, <1>11, <1>12, <1>13, <1>14

LEMMA AloneAway ==
  ASSUME AInv, InOrder, NEW p \in Proc, Alone(p), CompressFails(p) \/ Unlink(p)
  PROVE  /\ Alone(p)' /\ InOrder' /\ NamesStay /\ ActiveLines' = ActiveLines
         /\ proc'[p].pc = "prune" /\ ~Exists(Active)
         /\ \A n \in DOMAIN dir' : dir'[n] = dir[n] /\ Lines(n)' = Lines(n)
         /\ proc[p].pc = "unlink" =>
              /\ Unlink(p) /\ DOMAIN dir' = DOMAIN dir \ {proc[p].to} /\ Exists(proc[p].to)
              /\ Exists(Gz(proc[p].to)) /\ Lines(Gz(proc[p].to)) = Lines(proc[p].to)
              /\ proc[p].to # Active /\ dir[Gz(proc[p].to)] = Len(files)
              /\ dir[proc[p].to] = Len(files) - 1
              /\ Gz(proc[p].to) # proc[p].to
         /\ proc[p].pc # "unlink" =>
              /\ proc[p].pc \in {"gzip", "copy"} /\ Fault
              /\ Exists(Gz(proc[p].to)) <=> proc[p].pc = "copy"
              /\ proc[p].pc = "copy" => Lines(Gz(proc[p].to)) = << >>
              /\ DOMAIN dir' = DOMAIN dir \ {Gz(proc[p].to)} /\ Gz(proc[p].to) # Active
<1> DEFINE to == proc[p].to
           gz == Gz(to)
<1>1. /\ proc[p] \in State /\ DOMAIN proc = Proc /\ Busy(p) /\ Disk /\ Past /\ to \in Name
      /\ Len(files) \in Nat /\ proc[p].at \in Nat
  BY Typed DEF AInv
<1>2. /\ proc[p].pc \in {"gzip", "copy", "unlink"} /\ Goes(p, "prune")
      /\ UNCHANGED <<now, files, next, lines, written, rotations>>
  BY DEF CompressFails, Unlink
<1>3. ~Exists(Active) /\ Exists(to) /\ to # Active /\ gz # Active /\ gz # to
  <2>1. to.at # -1 /\ ~to.gz /\ gz.at = to.at /\ gz.gz
    BY <1>1, <1>2 DEF Busy, Gz, Name
  <2>2. ~Exists(Active) /\ Exists(to)
    BY <1>2 DEF Alone
  <2> QED
    BY <2>1, <2>2, IdleTyped
<1>4. PICK names : dir' = Without(names)
  BY DEF CompressFails, Unlink
<1>5. /\ InOrder' /\ NamesStay /\ \A n \in DOMAIN dir' : dir'[n] = dir[n] /\ Lines(n)' = Lines(n)
      /\ ~Exists(Active)' /\ ActiveLines' = ActiveLines
  BY <1>2, <1>3, <1>4, OrderWithout
<1>6. proc'[p].pc = "prune"
  BY <1>2, GoesTo DEF PC
<1>7. Alone(p)'
  BY <1>5, <1>6 DEF Alone
<1>8. ASSUME proc[p].pc = "unlink"
      PROVE  /\ Unlink(p) /\ DOMAIN dir' = DOMAIN dir \ {to}
             /\ Exists(gz) /\ Lines(gz) = Lines(to) /\ dir[gz] = Len(files) /\ dir[to] = Len(files) - 1
  <2>1. Unlink(p) /\ dir' = Without({to})
    BY <1>8 DEF CompressFails, Unlink
  <2>2. /\ Exists(gz) /\ dir[gz] = Len(files) /\ proc[p].out = Len(files)
        /\ files[proc[p].out].lines = Lines(to) /\ dir[to] = Len(files) - 1
    BY <1>8 DEF Alone
  <2> QED
    BY <2>1, <2>2 DEF Without, Lines
<1>9. ASSUME proc[p].pc # "unlink"
      PROVE  /\ proc[p].pc \in {"gzip", "copy"} /\ Fault
             /\ Exists(gz) <=> proc[p].pc = "copy"
             /\ DOMAIN dir' = DOMAIN dir \ {gz}
             /\ proc[p].pc = "copy" => Lines(gz) = << >>
  <2>1. CompressFails(p) /\ Fault /\ dir' = Without({gz}) /\ proc[p].pc \in {"gzip", "copy"}
    BY <1>3, <1>9 DEF CompressFails, Unlink
  <2>2. /\ Exists(gz) <=> proc[p].pc = "copy"
        /\ proc[p].pc = "copy" => Lines(gz) = << >>
    BY <2>1 DEF Alone, Lines
  <2> QED
    BY <2>1, <2>2 DEF Without
<1> HIDE DEF gz
<1> QED
  BY <1>3, <1>5, <1>6, <1>7, <1>8, <1>9 DEF gz

LEMMA AlonePrune ==
  ASSUME AInv, InOrder, NEW p \in Proc, Alone(p), Prune(p)
  PROVE  /\ Alone(p)' /\ InOrder' /\ NamesStay /\ ActiveLines' = ActiveLines /\ ~Exists(Active)
         /\ proc'[p].pc = "open" /\ proc'[p].at = proc[p].at /\ proc'[p].due = proc[p].due
         /\ \A n \in DOMAIN dir' : dir'[n] = dir[n] /\ Lines(n)' = Lines(n)
         /\ DOMAIN dir' = IF BackupCount > 0 THEN DOMAIN dir \ PastBackups ELSE DOMAIN dir
<1>1. /\ proc[p].pc = "prune" /\ Resume(p)
      /\ UNCHANGED <<now, files, lines, written, rotations, faults>>
      /\ dir' = IF BackupCount > 0 THEN Without(PastBackups) ELSE dir
  BY DEF Prune
<1>2. ~Exists(Active)
  BY <1>1 DEF Alone
<1>3. Alone(p)' /\ proc'[p].pc = "open" /\ proc'[p].at = proc[p].at /\ proc'[p].due = proc[p].due
  BY <1>1, AloneResume
<1>4. CASE dir' = dir /\ ~(BackupCount > 0)
  BY <1>1, <1>2, <1>3, <1>4, SameFiles DEF Lines
<1>5. CASE dir' = Without(PastBackups) /\ BackupCount > 0
  BY <1>1, <1>2, <1>3, <1>5, OrderWithout
<1> QED
  BY <1>1, <1>4, <1>5

LEMMA AloneOpen ==
  ASSUME AInv, InOrder, NEW p \in Proc, Alone(p), Open(p)
  PROVE  /\ Alone(p)' /\ InOrder' /\ NamesStay /\ ActiveLines' = ActiveLines
         /\ proc'[p].pc = "write" /\ proc'[p].at = proc[p].at /\ proc'[p].due = proc[p].due
         /\ DOMAIN dir' = DOMAIN dir \cup {Active}
         /\ \A n \in DOMAIN dir : dir'[n] = dir[n] /\ Lines(n)' = Lines(n)
<1>1. /\ proc[p] \in State /\ DOMAIN proc = Proc /\ Disk /\ Past /\ Len(files) \in Nat
  BY Typed DEF AInv
<1>2. /\ proc[p].pc = "open"
      /\ proc' = [proc EXCEPT ![p].pc = "write", ![p].fh = dir'[Active]]
      /\ UNCHANGED <<now, next, lines, written, rotations, faults>>
  BY DEF Open
<1>3. proc'[p] = [proc[p] EXCEPT !.pc = "write", !.fh = dir'[Active]]
  BY <1>1, <1>2
<1>4. /\ proc'[p].pc = "write" /\ proc'[p].fh = dir'[Active]
      /\ proc'[p].at = proc[p].at /\ proc'[p].due = proc[p].due
  BY <1>1, <1>3 DEF State
<1>5. /\ InOrder' /\ NamesStay /\ ActiveLines' = ActiveLines
      /\ DOMAIN dir' = DOMAIN dir \cup {Active}
      /\ \A n \in DOMAIN dir : dir'[n] = dir[n] /\ Lines(n)' = Lines(n)
  <2>1. CASE Exists(Active)
    <3>1. UNCHANGED <<dir, files>>
      BY <2>1 DEF Open
    <3> QED
      BY <1>2, <2>1, <3>1, SameFiles DEF Exists, Lines
  <2>2. CASE ~Exists(Active)
    <3>1. files' = NewFile /\ dir' = Link(Active, Len(files) + 1)
      BY <2>2 DEF Open
    <3>2. InOrder' /\ NamesStay
      BY <1>1, <1>2, <2>2, <3>1, IdleTyped, OrderLink
    <3>3. /\ DOMAIN dir' = DOMAIN dir \cup {Active} /\ dir'[Active] = Len(files) + 1
          /\ \A n \in DOMAIN dir \ {Active} : dir'[n] = dir[n]
          /\ \A f \in DOMAIN files : files'[f] = files[f]
          /\ files'[Len(files) + 1] = [lines |-> << >>, touched |-> Stamp]
      BY <1>1, <1>2, <3>1, IdleTyped, DiskLink
    <3>4. ASSUME NEW n \in DOMAIN dir
          PROVE  dir'[n] = dir[n] /\ Lines(n)' = Lines(n)
      <4>1. n # Active /\ dir[n] \in DOMAIN files
        BY <1>1, <2>2 DEF Disk, Exists
      <4> QED
        BY <3>3, <4>1 DEF Lines
    <3>5. ActiveLines' = ActiveLines
      BY <2>2, <3>3 DEF ActiveLines, Exists, Lines
    <3> QED
      BY <3>2, <3>3, <3>4, <3>5
  <2> QED
    BY <2>1, <2>2
<1>6. Alone(p)'
  BY <1>4, <1>5 DEF Alone, Exists
<1> QED
  BY <1>4, <1>5, <1>6

LEMMA AloneWrite ==
  ASSUME AInv, InOrder, NEW p \in Proc, Alone(p), Write(p)
  PROVE  /\ Alone(p)' /\ InOrder' /\ NamesStay /\ ActiveLines' = Append(ActiveLines, proc[p].line)
         /\ proc'[p].pc = "idle" /\ proc[p].line \in DOMAIN lines /\ proc[p].line \in Nat
         /\ Rotated' = Rotated /\ \A n \in Rotated : Lines(n)' = Lines(n)
<1> DEFINE fh == proc[p].fh
           ls == Append(files[fh].lines, proc[p].line)
<1>1. /\ proc[p] \in State /\ proc[p].line \in Nat /\ Busy(p) /\ Disk /\ Past
  BY Typed DEF AInv
<1>2. /\ proc[p].pc = "write" /\ proc' = [proc EXCEPT ![p] = Idle]
      /\ files' = [files EXCEPT ![fh] = [lines |-> Append(@.lines, proc[p].line), touched |-> Stamp]]
      /\ UNCHANGED <<now, dir, next, lines, rotations, faults>>
  BY DEF Write
<1>3. /\ fh \in DOMAIN files /\ proc[p].line \in DOMAIN lines
      /\ Exists(Active) /\ fh = dir[Active] /\ fh = Len(files)
  BY <1>1, <1>2 DEF Busy, Alone, InOrder
<1>4. files[fh].lines \in Seq(Nat) /\ Of(files[fh].lines, DOMAIN lines)
  BY <1>1, <1>3, LinesOf
<1>5. ls \in Seq(Nat) /\ Of(ls, DOMAIN lines)
  BY <1>1, <1>3, <1>4, OfAppend
<1>6. files' = [files EXCEPT ![fh] = [lines |-> ls, touched |-> Stamp]]
  BY <1>2, <1>3
<1>7. ls = Append(ActiveLines, proc[p].line)
  BY <1>3 DEF ActiveLines, Lines
<1> HIDE DEF ls
<1>8. /\ Disk' /\ DOMAIN files' = DOMAIN files
      /\ files'[fh] = [lines |-> ls, touched |-> Stamp]
      /\ \A g \in DOMAIN files \ {fh} : files'[g] = files[g]
  BY <1>1, <1>2, <1>3, <1>5, <1>6, DiskTouch
<1>9. InOrder' /\ NamesStay
  BY <1>1, <1>2, <1>3, <1>5, <1>6, OrderTouch
<1>10. ActiveLines' = ls
  BY <1>2, <1>3, <1>8 DEF ActiveLines, Exists, Lines
<1>11. Alone(p)' /\ proc'[p].pc = "idle"
  BY <1>2, AloneOver
<1>12. \A n \in Rotated : Lines(n)' = Lines(n)
  <2>1. \A n \in Rotated : dir[n] \in DOMAIN files \ {fh}
    BY <1>1, <1>3 DEF Rotated, Disk, InOrder, Exists
  <2> QED
    BY <1>2, <1>8, <2>1 DEF Lines
<1> QED
  BY <1>1, <1>2, <1>3, <1>7, <1>9, <1>10, <1>11, <1>12 DEF Rotated

\* The only process, between its steps.
Sole(p) == AInv /\ InOrder /\ Alone(p)

\* The steps of a rotation that leave the contents of the active file and of the
\* rotations as they are and stay in it.
Quiet(p) == ChooseName(p) \/ Gzip(p) \/ Copy(p) \/ CompressFails(p) \/ Unlink(p)

\* Those that end it with no active file.
Ends(p) == UnlinkFails(p) \/ Prune(p) \/ PruneFails(p)

Stops(p) == WriteFails(p) \/ Restart(p)

LEMMA QuietKeeps ==
  ASSUME NEW p \in Proc, Sole(p), Quiet(p)
  PROVE  /\ Sole(p)' /\ NamesStay
         /\ UNCHANGED <<now, next, lines, written, rotations>> /\ ActiveLines' = ActiveLines
         /\ proc[p].pc # "idle" /\ proc'[p].pc \notin {"idle", "open", "write"}
         /\ proc'[p].at = proc[p].at /\ proc'[p].due = proc[p].due
         /\ faults' = faults \/ faults' = faults + 1
<1>1. AInv /\ InOrder /\ Alone(p)
  BY DEF Sole
<1>2. AInv'
  BY <1>1, ChooseStep, GzipStep, CopyStep, AwayStep DEF Quiet
<1>3. UNCHANGED <<now, next, lines, written, rotations>> /\ (faults' = faults \/ faults' = faults + 1)
  BY DEF Quiet, ChooseName, Gzip, Copy, CompressFails, Unlink, Fault
<1>4. proc[p].pc # "idle"
  BY DEF Quiet, ChooseName, Gzip, Copy, CompressFails, Unlink
<1>5. proc[p] \in State /\ DOMAIN proc = Proc
  BY <1>1, Typed
<1>6. CASE ChooseName(p)
  <2>1. UNCHANGED <<dir, files, rotations>> /\ proc'[p].pc = "rename"
    BY <1>1, <1>6, ChooseStep DEF ChooseName
  <2>2. proc'[p].at = proc[p].at /\ proc'[p].due = proc[p].due
    BY <1>5, <1>6 DEF ChooseName, State
  <2>3. Alone(p)' /\ InOrder' /\ NamesStay /\ ActiveLines' = ActiveLines
    BY <1>1, <1>6, <2>1, AloneChoose, SameFiles
  <2> QED
    BY <1>2, <1>3, <1>4, <2>1, <2>2, <2>3 DEF Sole
<1>7. CASE Gzip(p)
  <2>1. proc'[p].at = proc[p].at /\ proc'[p].due = proc[p].due
    BY <1>5, <1>7 DEF Gzip, State
  <2> QED
    BY <1>1, <1>2, <1>3, <1>4, <1>7, <2>1, AloneGzip DEF Sole
<1>8. CASE Copy(p)
  <2>1. proc'[p].at = proc[p].at /\ proc'[p].due = proc[p].due
    BY <1>1, <1>8, GoesTo DEF Copy, PC
  <2> QED
    BY <1>1, <1>2, <1>3, <1>4, <1>8, <2>1, AloneCopy DEF Sole
<1>9. CASE CompressFails(p) \/ Unlink(p)
  <2>1. proc'[p].at = proc[p].at /\ proc'[p].due = proc[p].due
    BY <1>1, <1>9, GoesTo DEF CompressFails, Unlink, PC
  <2> QED
    BY <1>1, <1>2, <1>3, <1>4, <1>9, <2>1, AloneAway DEF Sole
<1> QED
  BY <1>6, <1>7, <1>8, <1>9 DEF Quiet

LEMMA EndsEmpty ==
  ASSUME NEW p \in Proc, Sole(p), Ends(p)
  PROVE  /\ Sole(p)' /\ NamesStay
         /\ UNCHANGED <<now, lines, written, rotations>>
         /\ ActiveLines = << >> /\ ActiveLines' = << >>
         /\ proc[p].pc # "idle" /\ proc'[p].pc = "open"
         /\ proc'[p].at = proc[p].at /\ proc'[p].due = proc[p].due /\ Resume(p)
         /\ faults' = faults \/ faults' = faults + 1
<1>1. AInv /\ InOrder /\ Alone(p)
  BY DEF Sole
<1>2. AInv'
  BY <1>1, FailStep, PruneStep DEF Ends
<1>3. /\ UNCHANGED <<now, lines, written, rotations>> /\ (faults' = faults \/ faults' = faults + 1)
      /\ proc[p].pc \in {"unlink", "prune"} /\ Resume(p)
  BY DEF Ends, UnlinkFails, Prune, PruneFails, Fault
<1>4. ActiveLines = << >>
  BY <1>1, <1>3 DEF Alone, ActiveLines
<1>5. Alone(p)' /\ proc'[p].pc = "open" /\ proc'[p].at = proc[p].at /\ proc'[p].due = proc[p].due
  BY <1>1, <1>3, AloneResume
<1>6. InOrder' /\ NamesStay /\ ActiveLines' = ActiveLines
  <2>1. CASE Prune(p)
    BY <1>1, <2>1, AlonePrune
  <2>2. CASE UnlinkFails(p) \/ PruneFails(p)
    <3>1. UNCHANGED <<dir, files, rotations>>
      BY <2>2 DEF UnlinkFails, PruneFails
    <3> QED
      BY <1>1, <3>1, SameFiles
  <2> QED
    BY <2>1, <2>2 DEF Ends
<1> QED
  BY <1>2, <1>3, <1>4, <1>5, <1>6 DEF Sole

LEMMA EnterSole ==
  ASSUME NEW p \in Proc, Sole(p), LogInPlace(p) \/ LogRotating(p)
  PROVE  /\ Sole(p)' /\ NamesStay
         /\ UNCHANGED <<now, dir, files, written, rotations, faults>> /\ ActiveLines' = ActiveLines
         /\ lines' = Append(lines, now) /\ proc[p].pc = "idle"
         /\ proc'[p].at = now /\ proc'[p].due = TimeDue(p)
         /\ LogInPlace(p) => proc'[p].pc = "open"
         /\ LogRotating(p) => proc'[p].pc = "name"
<1>1. AInv /\ InOrder
  BY DEF Sole
<1>2. AInv' /\ Alone(p)'
  BY <1>1, EnterStep, AloneEnter
<1>3. UNCHANGED <<now, dir, files, written, rotations, faults>> /\ DOMAIN proc = Proc
  BY <1>1, Typed DEF LogInPlace, LogRotating
<1>4. InOrder' /\ NamesStay /\ ActiveLines' = ActiveLines
  BY <1>1, <1>3, SameFiles
<1>5. ASSUME NEW pc, Enter(p, pc)
      PROVE  /\ lines' = Append(lines, now) /\ proc[p].pc = "idle"
             /\ proc'[p].at = now /\ proc'[p].due = TimeDue(p) /\ proc'[p].pc = pc
  BY <1>3, <1>5 DEF Enter, Idle
<1> QED
  BY <1>2, <1>3, <1>4, <1>5 DEF Sole, LogInPlace, LogRotating

LEMMA RenameSole ==
  ASSUME NEW p \in Proc, Sole(p), Rename(p)
  PROVE  Sole(p)' /\ NamesStay
BY RenameStep, AloneRename DEF Sole

LEMMA RenameFailsSole ==
  ASSUME NEW p \in Proc, Sole(p), RenameFails(p)
  PROVE  /\ Sole(p)' /\ NamesStay
         /\ UNCHANGED <<now, dir, files, lines, written, rotations>> /\ ActiveLines' = ActiveLines
         /\ proc[p].pc # "idle" /\ proc'[p].pc = "open" /\ Resume(p)
         /\ proc'[p].at = proc[p].at /\ proc'[p].due = proc[p].due
         /\ faults' = faults + 1
<1>1. AInv /\ InOrder /\ Alone(p)
  BY DEF Sole
<1>2. /\ UNCHANGED <<now, dir, files, lines, written, rotations>>
      /\ proc[p].pc = "rename" /\ Resume(p)
  BY DEF RenameFails
<1>3. Exists(Active)
  BY <1>1, <1>2 DEF Alone, ActiveLines
<1>4. faults' = faults + 1
  BY <1>3 DEF RenameFails, Fault
<1>5. AInv'
  BY <1>1, FailStep
<1>6. Alone(p)' /\ proc'[p].pc = "open" /\ proc'[p].at = proc[p].at /\ proc'[p].due = proc[p].due
  BY <1>1, <1>2, AloneResume
<1> QED
  BY <1>1, <1>2, <1>4, <1>5, <1>6, SameFiles DEF Sole

LEMMA StopsSole ==
  ASSUME NEW p \in Proc, Sole(p), Stops(p)
  PROVE  /\ Sole(p)' /\ NamesStay
         /\ UNCHANGED <<now, dir, files, lines, written, rotations>> /\ ActiveLines' = ActiveLines
         /\ proc'[p].pc = "idle" /\ faults' = faults + 1
         /\ next'[p] = next[p] \/ next'[p] = NextBoundary(now)
<1>1. AInv /\ InOrder /\ Alone(p)
  BY DEF Sole
<1>2. /\ UNCHANGED <<now, dir, files, lines, written, rotations>>
      /\ proc' = [proc EXCEPT ![p] = Idle] /\ faults' = faults + 1
  BY DEF Stops, WriteFails, Restart, Fault
<1>3. next'[p] = next[p] \/ next'[p] = NextBoundary(now)
  BY <1>1, Typed DEF Stops, WriteFails, Restart
<1>4. AInv'
  BY <1>1, StopStep DEF Stops
<1> QED
  BY <1>1, <1>2, <1>3, <1>4, AloneOver, SameFiles DEF Sole

LEMMA OpenSole ==
  ASSUME NEW p \in Proc, Sole(p), Open(p)
  PROVE  /\ Sole(p)' /\ NamesStay
         /\ UNCHANGED <<now, next, lines, written, rotations, faults>> /\ ActiveLines' = ActiveLines
         /\ proc[p].pc = "open" /\ proc'[p].pc = "write"
         /\ proc'[p].at = proc[p].at /\ proc'[p].due = proc[p].due
BY OpenStep, AloneOpen DEF Sole, Open

LEMMA WriteSole ==
  ASSUME NEW p \in Proc, Sole(p), Write(p)
  PROVE  /\ Sole(p)' /\ NamesStay
         /\ UNCHANGED <<now, next, lines, rotations, faults>>
         /\ ActiveLines' = Append(ActiveLines, proc[p].line)
         /\ written' = written \cup {proc[p].line}
         /\ proc[p].pc = "write" /\ proc'[p].pc = "idle"
BY WriteStep, AloneWrite DEF Sole, Write

LEMMA TickSole ==
  ASSUME NEW p \in Proc, Sole(p), Tick
  PROVE  /\ Sole(p)' /\ NamesStay /\ now' = now + 1
         /\ UNCHANGED <<dir, files, next, proc, lines, written, rotations, faults>>
         /\ ActiveLines' = ActiveLines
<1>1. now' = now + 1 /\ UNCHANGED <<dir, files, next, proc, lines, written, rotations, faults>>
  BY DEF Tick
<1>2. AInv /\ InOrder /\ Alone(p)
  BY DEF Sole
<1>3. Alone(p)'
  BY <1>1, <1>2 DEF Alone, Exists, Free, Lines, ActiveLines
<1> QED
  BY <1>1, <1>2, <1>3, TickStep, SameFiles DEF Sole

LEMMA IdleSole ==
  ASSUME NEW p \in Proc, Sole(p), UNCHANGED vars
  PROVE  Sole(p)' /\ NamesStay /\ ActiveLines' = ActiveLines
<1>1. AInv /\ InOrder /\ Alone(p) /\ UNCHANGED <<dir, files, rotations, proc>>
  BY DEF Sole, vars
<1>2. Alone(p)'
  BY <1>1 DEF Alone, Exists, Free, Lines, ActiveLines
<1> QED
  BY <1>1, <1>2, AInvNext, SameFiles DEF Sole

\* The steps of the only process, and of the clock.
LEMMA Steps ==
  ASSUME NEW p, Proc = {p}, [Next]_vars
  PROVE  \/ LogInPlace(p) \/ LogRotating(p) \/ Quiet(p) \/ Rename(p) \/ RenameFails(p) \/ Ends(p)
         \/ Open(p) \/ Write(p) \/ Stops(p) \/ Tick \/ UNCHANGED vars
BY DEF Next, Log, Rotate, Quiet, Ends, Stops

LEMMA SoleInit ==
  ASSUME NEW p \in Proc, Init
  PROVE  Sole(p)
<1>1. DOMAIN dir = {} /\ files = << >> /\ rotations = << >> /\ proc[p].pc = "idle"
  BY IdleTyped DEF Init
<1> QED
  BY <1>1, AInvInit DEF Sole, InOrder, Alone, Exists

LEMMA SoleNext ==
  ASSUME NEW p, Proc = {p}, Sole(p), [Next]_vars
  PROVE  Sole(p)' /\ NamesStay
BY Steps, EnterSole, QuietKeeps, RenameSole, RenameFailsSole, EndsEmpty, OpenSole, WriteSole,
   StopsSole, TickSole, IdleSole

\* With one process on the file a rotation never overwrites a rotated file: a name stays
\* with the file it was given to (_do_rotate takes a counter that neither the
\* plain nor the compressed file has). Two processes can take the same name.
THEOREM NamesAreKept ==
  ASSUME NEW p, Proc = {p}
  PROVE  Spec => NeverOverwritten
<1>1. Init => Sole(p)
  BY SoleInit
<1>2. Sole(p) /\ [Next]_vars => Sole(p)' /\ NamesStay
  BY SoleNext
<1>3. NamesStay => [\A n \in Rotated \cap DOMAIN dir' : dir'[n] = dir[n]]_vars
  BY DEF NamesStay
<1> QED
  BY <1>1, <1>2, <1>3, PTL DEF Spec, NeverOverwritten

-----------------------------------------------------------------------------
(* The active file and the clock.                                                *)

\* max_bytes, and the line that is about to be appended.
SizeInv(p) ==
    MaxBytes > 0 =>
       Len(ActiveLines) + (IF proc[p].pc \in {"open", "write"} THEN 1 ELSE 0) <= MaxBytes + faults

LEMMA Numbers ==
  ASSUME NEW p \in Proc, Sole(p)
  PROVE  /\ faults \in Nat /\ now \in Nat /\ MaxBytes \in Nat /\ DayTicks \in Nat /\ BackupCount \in Nat
         /\ ActiveLines \in Seq(Nat) /\ Len(ActiveLines) \in Nat
         /\ lines \in Seq(Nat) /\ Len(rotations) \in Nat /\ rotations \in Seq(Seq(Nat))
         /\ proc[p].at \in Nat /\ next[p] \in Int
<1>1. AInv /\ Disk /\ Past
  BY DEF Sole, AInv
<1>2. ActiveLines \in Seq(Nat)
  BY <1>1, ActiveTyped
<1>3. lines \in Seq(Nat) /\ rotations \in Seq(Seq(Nat))
  BY <1>1 DEF Past, Disk
<1> QED
  BY <1>1, <1>2, <1>3, Typed, RotationAssumption

LEMMA SizeNext ==
  ASSUME NEW p, Proc = {p}, Sole(p), SizeInv(p), [Next]_vars
  PROVE  SizeInv(p)'
<1>1. /\ p \in Proc /\ faults \in Nat /\ MaxBytes \in Nat
      /\ ActiveLines \in Seq(Nat) /\ Len(ActiveLines) \in Nat
  BY Numbers
<1>2. CASE LogInPlace(p)
  <2>1. ActiveLines' = ActiveLines /\ faults' = faults
    BY <1>1, <1>2, EnterSole
  <2>2. CASE ActiveLines = << >>
    BY <1>1, <2>1, <2>2 DEF SizeInv
  <2>3. CASE ActiveLines # << >> /\ ~SizeDue
    <3>1. Exists(Active)
      BY <2>3 DEF ActiveLines
    <3> QED
      BY <1>1, <2>1, <2>3, <3>1 DEF SizeInv, SizeDue
  <2> QED
    BY <1>2, <2>2, <2>3 DEF LogInPlace, NothingToRotate
<1>3. CASE LogRotating(p)
  <2>1. ActiveLines' = ActiveLines /\ faults' = faults /\ proc[p].pc = "idle" /\ proc'[p].pc = "name"
    BY <1>1, <1>3, EnterSole
  <2> QED
    BY <2>1 DEF SizeInv
<1>4. CASE Quiet(p)
  <2>1. /\ ActiveLines' = ActiveLines /\ proc'[p].pc \notin {"idle", "open", "write"}
        /\ faults' = faults \/ faults' = faults + 1
    BY <1>1, <1>4, QuietKeeps
  <2> QED
    BY <1>1, <2>1 DEF SizeInv
<1>5. CASE Rename(p)
  <2>1. ActiveLines' = << >> /\ faults' = faults
    BY <1>1, <1>5, AloneRename DEF Sole, Rename
  <2> QED
    BY <1>1, <2>1 DEF SizeInv
<1>6. CASE RenameFails(p)
  <2>1. ActiveLines' = ActiveLines /\ faults' = faults + 1 /\ proc[p].pc = "rename"
    BY <1>1, <1>6, RenameFailsSole DEF RenameFails
  <2> QED
    BY <1>1, <2>1 DEF SizeInv
<1>7. CASE Ends(p)
  <2>1. ActiveLines' = << >> /\ (faults' = faults \/ faults' = faults + 1)
    BY <1>1, <1>7, EndsEmpty
  <2> QED
    BY <1>1, <2>1 DEF SizeInv
<1>8. CASE Open(p)
  <2>1. ActiveLines' = ActiveLines /\ proc[p].pc = "open" /\ faults' = faults
    BY <1>1, <1>8, OpenSole
  <2> QED
    BY <1>1, <2>1 DEF SizeInv
<1>9. CASE Write(p)
  <2>1. /\ ActiveLines' = Append(ActiveLines, proc[p].line) /\ proc[p].pc = "write"
        /\ proc'[p].pc = "idle" /\ faults' = faults
    BY <1>1, <1>9, WriteSole
  <2>2. Len(ActiveLines') = Len(ActiveLines) + 1
    BY <1>1, <2>1
  <2> QED
    BY <1>1, <2>1, <2>2 DEF SizeInv
<1>10. CASE Stops(p)
  <2>1. ActiveLines' = ActiveLines /\ proc'[p].pc = "idle" /\ faults' = faults + 1
    BY <1>1, <1>10, StopsSole
  <2> QED
    BY <1>1, <2>1 DEF SizeInv
<1>11. CASE Tick \/ UNCHANGED vars
  <2>1. ActiveLines' = ActiveLines /\ UNCHANGED <<faults, proc>>
    BY <1>1, <1>11, TickSole, IdleSole DEF vars
  <2> QED
    BY <2>1 DEF SizeInv
<1> QED
  BY <1>2, <1>3, <1>4, <1>5, <1>6, <1>7, <1>8, <1>9, <1>10, <1>11, Steps

\* Every written line is in the active file or was in it when it was renamed.
Somewhere == \A l \in written :
    \/ \E i \in DOMAIN ActiveLines : ActiveLines[i] = l
    \/ \E k \in DOMAIN rotations : \E i \in DOMAIN rotations[k] : rotations[k][i] = l

LEMMA SomewhereNext ==
  ASSUME NEW p, Proc = {p}, Sole(p), Somewhere, [Next]_vars
  PROVE  Somewhere'
<1>1. p \in Proc /\ ActiveLines \in Seq(Nat) /\ Len(ActiveLines) \in Nat /\ rotations \in Seq(Seq(Nat))
  BY Numbers
<1>2. CASE LogInPlace(p) \/ LogRotating(p) \/ Quiet(p) \/ RenameFails(p) \/ Ends(p)
           \/ Open(p) \/ Stops(p) \/ Tick \/ UNCHANGED vars
  <2>1. ActiveLines' = ActiveLines /\ UNCHANGED <<written, rotations>>
    BY <1>1, <1>2, EnterSole, QuietKeeps, RenameFailsSole, EndsEmpty, OpenSole, StopsSole,
       TickSole, IdleSole DEF vars
  <2> QED
    BY <2>1 DEF Somewhere
<1>3. CASE Rename(p)
  <2>1. rotations' = Append(rotations, ActiveLines) /\ written' = written
    BY <1>1, <1>3, AloneRename DEF Sole, Rename
  <2>2. /\ \A k \in DOMAIN rotations : k \in DOMAIN rotations' /\ rotations'[k] = rotations[k]
        /\ Len(rotations) + 1 \in DOMAIN rotations'
        /\ rotations'[Len(rotations) + 1] = ActiveLines
    BY <1>1, <2>1, AppendKeeps
  <2> QED
    BY <2>1, <2>2 DEF Somewhere
<1>4. CASE Write(p)
  <2>1. /\ ActiveLines' = Append(ActiveLines, proc[p].line) /\ rotations' = rotations
        /\ written' = written \cup {proc[p].line} /\ proc[p].line \in Nat
    BY <1>1, <1>4, WriteSole, AloneWrite DEF Sole
  <2>2. /\ \A i \in DOMAIN ActiveLines : i \in DOMAIN ActiveLines' /\ ActiveLines'[i] = ActiveLines[i]
        /\ Len(ActiveLines) + 1 \in DOMAIN ActiveLines'
        /\ ActiveLines'[Len(ActiveLines) + 1] = proc[p].line
    BY <1>1, <2>1, AppendKeeps
  <2> QED
    BY <2>1, <2>2 DEF Somewhere
<1> QED
  BY <1>2, <1>3, <1>4, Steps

\* The period whose lines the active file takes.
Turn(p) == next[p] \div DayTicks - 1

\* A file with lines of two periods, by the second of each line.
MixedIn(ls, seconds) ==
    \E i, j \in DOMAIN ls : seconds[ls[i]] \div DayTicks # seconds[ls[j]] \div DayTicks
MixedSet(rs, seconds) == {k \in DOMAIN rs : MixedIn(rs[k], seconds)}
Off(ls, seconds, turn) == \E i \in DOMAIN ls : seconds[ls[i]] \div DayTicks # turn

\* The line that is next to be written belongs to the active file's period.
Calendar(p) ==
    /\ Turn(p) <= now \div DayTicks
    /\ proc[p].pc \in {"open", "write"} \/ (proc[p].pc # "idle" /\ ~proc[p].due) =>
          proc[p].at \div DayTicks = Turn(p)

\* A file with lines of two periods, or an active file that may become one, is a fault's.
Counted(p) ==
    Cardinality(MixedSet(rotations, lines)) +
       (IF Off(ActiveLines, lines, Turn(p)) THEN 1 ELSE 0) <= faults

PeriodInv(p) == DayTicks > 0 => Calendar(p) /\ Counted(p)

LEMMA DivMonotone ==
  ASSUME NEW d \in Nat, d > 0, NEW t \in Nat, NEW u \in Nat, t <= u
  PROVE  t \div d <= u \div d /\ t \div d \in Nat /\ u \div d \in Nat
<1> DEFINE q == t \div d
           s == u \div d
<1>1. q \in Nat /\ t % d \in Nat /\ t = d * q + (t % d) /\ s \in Nat
  BY DivIs
<1>2. d * q \in Nat
  BY <1>1
<1>3. u >= d * q
  BY <1>1, <1>2
<1>4. u \div d >= q
  BY <1>1, <1>3, DivAbove
<1> QED
  BY <1>1, <1>4

LEMMA TurnIs ==
  ASSUME NEW p \in Proc, Sole(p), DayTicks > 0
  PROVE  /\ Turn(p) \in Int /\ now \div DayTicks \in Nat
         /\ TimeDue(p) <=> now \div DayTicks > Turn(p)
<1> DEFINE d == DayTicks
           b == next[p] \div d
<1>1. /\ d \in Nat /\ d > 0 /\ now \in Nat /\ next[p] \in Nat /\ next[p] % d = 0
  BY Numbers DEF Sole, AInv, Boundary
<1> HIDE DEF d
<1>2. b \in Nat /\ next[p] = d * b + (next[p] % d) /\ now \div d \in Nat
  BY <1>1, DivIs
<1>3. next[p] = d * b
  <2>1. d * b \in Nat
    BY <1>1, <1>2
  <2> QED
    BY <1>1, <1>2, <2>1
<1>4. now >= d * b <=> now \div d >= b
  BY <1>1, <1>2, DivAbove
<1>5. Turn(p) = b - 1
  BY DEF Turn, d
<1>6. TimeDue(p) <=> now >= d * b
  BY <1>1, <1>3 DEF TimeDue
<1> HIDE DEF b
<1> QED
  BY <1>2, <1>4, <1>5, <1>6 DEF d

LEMMA BoundaryTurn ==
  ASSUME NEW p \in Proc, NEW t \in Nat, DayTicks > 0, next'[p] = NextBoundary(t)
  PROVE  Turn(p)' = t \div DayTicks
<1>1. DayTicks \in Nat /\ t \div DayTicks \in Nat
  BY DivIs, RotationAssumption
<1>2. next'[p] \div DayTicks = t \div DayTicks + 1
  BY <1>1, NextIs
<1> QED
  BY <1>1, <1>2 DEF Turn

LEMMA MixedFinite ==
  ASSUME NEW p \in Proc, Sole(p), NEW seconds
  PROVE  /\ IsFiniteSet(MixedSet(rotations, seconds)) /\ Cardinality(MixedSet(rotations, seconds)) \in Nat
         /\ MixedSet(rotations, seconds) \subseteq 1..Len(rotations)
<1>1. MixedSet(rotations, seconds) \subseteq 1..Len(rotations) /\ Len(rotations) \in Nat
  BY Numbers DEF MixedSet
<1>2. IsFiniteSet(1..Len(rotations))
  BY <1>1, FS_Interval
<1>3. IsFiniteSet(MixedSet(rotations, seconds))
  BY <1>1, <1>2, FS_Subset
<1> QED
  BY <1>1, <1>3, FS_CardinalityType

\* Lines to come do not change what the files hold.
LEMMA SecondsStay ==
  ASSUME NEW p \in Proc, Sole(p), LinesGrow
  PROVE  /\ MixedSet(rotations, lines') = MixedSet(rotations, lines)
         /\ \A turn : Off(ActiveLines, lines', turn) <=> Off(ActiveLines, lines, turn)
<1>1. Disk /\ Past
  BY DEF Sole, AInv
<1>2. \A i \in DOMAIN lines : lines'[i] = lines[i]
  BY <1>1, LinesStay
<1>3. \A k \in DOMAIN rotations : \A i \in DOMAIN rotations[k] : rotations[k][i] \in DOMAIN lines
  BY <1>1 DEF Disk, Of
<1>4. \A i \in DOMAIN ActiveLines : ActiveLines[i] \in DOMAIN lines
  BY <1>1, ActiveTyped DEF Of
<1>5. \A k \in DOMAIN rotations : MixedIn(rotations[k], lines') <=> MixedIn(rotations[k], lines)
  <2>1. ASSUME NEW k \in DOMAIN rotations
        PROVE  \A i \in DOMAIN rotations[k] : lines'[rotations[k][i]] = lines[rotations[k][i]]
    BY <1>2, <1>3
  <2> QED
    BY <2>1 DEF MixedIn
<1>6. \A i \in DOMAIN ActiveLines : lines'[ActiveLines[i]] = lines[ActiveLines[i]]
  BY <1>2, <1>4
<1> QED
  BY <1>5, <1>6 DEF MixedSet, Off

\* What becomes of the count when the files, at most, get another period.
LEMMA CountStays ==
  ASSUME NEW p \in Proc, Sole(p), Counted(p), LinesGrow, rotations' = rotations,
         ActiveLines' = ActiveLines,
         \/ Turn(p)' = Turn(p) /\ (faults' = faults \/ faults' = faults + 1)
         \/ ActiveLines = << >> /\ (faults' = faults \/ faults' = faults + 1)
         \/ faults' = faults + 1
  PROVE  Counted(p)'
<1> DEFINE c == Cardinality(MixedSet(rotations, lines))
           off == Off(ActiveLines, lines, Turn(p))
           later == Off(ActiveLines, lines, Turn(p)')
<1>1. c \in Nat /\ faults \in Nat
  BY Numbers, MixedFinite
<1>2. c + (IF off THEN 1 ELSE 0) <= faults
  BY DEF Counted
<1>3. Counted(p)' <=> c + (IF later THEN 1 ELSE 0) <= faults'
  <2>1. MixedSet(rotations', lines') = MixedSet(rotations, lines)
    BY SecondsStay
  <2>2. Off(ActiveLines', lines', Turn(p)') <=> later
    BY SecondsStay
  <2> QED
    BY <2>1, <2>2 DEF Counted
<1>4. ActiveLines = << >> => ~later
  BY DEF Off
<1>5. Turn(p)' = Turn(p) => (later <=> off)
  OBVIOUS
<1> HIDE DEF c, off, later
<1> QED
  BY <1>1, <1>2, <1>3, <1>4, <1>5

LEMMA CalendarEnter ==
  ASSUME NEW p \in Proc, Sole(p), DayTicks > 0, Calendar(p), Counted(p), LogInPlace(p) \/ LogRotating(p)
  PROVE  Calendar(p)' /\ Counted(p)'
<1>1. /\ now' = now /\ UNCHANGED <<rotations, faults>> /\ ActiveLines' = ActiveLines
      /\ lines' = Append(lines, now) /\ proc'[p].at = now /\ proc'[p].due = TimeDue(p)
      /\ LogInPlace(p) => proc'[p].pc = "open"
      /\ LogRotating(p) => proc'[p].pc = "name"
  BY EnterSole
<1>2. /\ Turn(p) \in Int /\ now \div DayTicks \in Nat /\ now \in Nat
      /\ TimeDue(p) <=> now \div DayTicks > Turn(p)
  BY TurnIs, Numbers
<1>3. LinesGrow
  BY <1>1, <1>2 DEF LinesGrow
<1>4. DOMAIN next = Proc
  BY Typed DEF Sole
<1>5. CASE TimeDue(p) /\ LogInPlace(p)
  <2>1. ActiveLines = << >> /\ next'[p] = NextBoundary(now)
    BY <1>4, <1>5 DEF LogInPlace, NothingToRotate
  <2>2. Turn(p)' = now \div DayTicks
    BY <1>2, <2>1, BoundaryTurn
  <2>3. Calendar(p)'
    BY <1>1, <1>2, <2>2 DEF Calendar
  <2> QED
    BY <1>1, <1>3, <2>1, <2>3, CountStays
<1>6. CASE ~(TimeDue(p) /\ LogInPlace(p))
  <2>1. Turn(p)' = Turn(p)
    BY <1>4, <1>6 DEF Turn, LogInPlace, LogRotating
  <2>2. ~TimeDue(p) => now \div DayTicks = Turn(p)
    BY <1>2 DEF Calendar
  <2>3. Calendar(p)'
    BY <1>1, <1>6, <2>1, <2>2 DEF Calendar
  <2> QED
    BY <1>1, <1>3, <2>1, <2>3, CountStays
<1> QED
  BY <1>5, <1>6

LEMMA CalendarResume ==
  ASSUME NEW p \in Proc, Sole(p), DayTicks > 0, Calendar(p), proc[p].pc # "idle", Resume(p), now' = now
  PROVE  Calendar(p)'
<1>1. AInv /\ InOrder /\ Busy(p)
  BY DEF Sole, AInv
<1>2. proc[p].at \in Nat /\ now \in Nat /\ proc[p].at <= now /\ DayTicks \in Nat
  BY <1>1, Numbers DEF Busy
<1>3. proc[p].at \div DayTicks <= now \div DayTicks
  BY <1>2, DivMonotone
<1>4. proc'[p].pc = "open" /\ proc'[p].at = proc[p].at /\ proc'[p].due = proc[p].due
  BY <1>1, AloneResume
<1>5. next'[p] = IF proc[p].due THEN NextBoundary(proc[p].at) ELSE next[p]
  BY <1>1, ResumeNext
<1>6. CASE proc[p].due
  <2>1. Turn(p)' = proc[p].at \div DayTicks
    BY <1>2, <1>5, <1>6, BoundaryTurn
  <2> QED
    BY <1>3, <1>4, <2>1 DEF Calendar
<1>7. CASE ~proc[p].due
  <2>1. Turn(p)' = Turn(p)
    BY <1>5, <1>7 DEF Turn
  <2> QED
    BY <1>4, <1>7, <2>1 DEF Calendar
<1> QED
  BY <1>6, <1>7

LEMMA PeriodRename ==
  ASSUME NEW p \in Proc, Sole(p), DayTicks > 0, Calendar(p), Counted(p), Rename(p)
  PROVE  Calendar(p)' /\ Counted(p)'
<1> DEFINE old == MixedSet(rotations, lines)
           new == MixedSet(rotations', lines)
           off == Off(ActiveLines, lines, Turn(p))
<1>1. /\ ActiveLines' = << >> /\ rotations' = Append(rotations, ActiveLines)
      /\ UNCHANGED <<now, next, lines, faults>> /\ proc[p].pc = "rename"
      /\ proc'[p].pc \in {"gzip", "prune"}
  BY AloneRename DEF Sole, Rename
<1>2. proc'[p].at = proc[p].at /\ proc'[p].due = proc[p].due
  BY GoesTo DEF Sole, Rename, PC
<1>3. Calendar(p)'
  BY <1>1, <1>2 DEF Calendar, Turn
<1>4. /\ ActiveLines \in Seq(Nat) /\ rotations \in Seq(Seq(Nat)) /\ faults \in Nat /\ Len(rotations) \in Nat
  BY Numbers
<1>5. /\ \A k \in DOMAIN rotations : rotations'[k] = rotations[k]
      /\ rotations'[Len(rotations) + 1] = ActiveLines
      /\ \A k \in DOMAIN rotations' : k \in DOMAIN rotations \/ k = Len(rotations) + 1
  BY <1>1, <1>4, AppendKeeps
<1>6. /\ IsFiniteSet(old) /\ Cardinality(old) \in Nat
  BY MixedFinite
<1>7. MixedIn(ActiveLines, lines) => off
  BY DEF MixedIn, Off
<1>8. new \subseteq old \cup (IF off THEN {Len(rotations) + 1} ELSE {})
  BY <1>5, <1>7 DEF MixedSet
<1>9. Cardinality(old) + (IF off THEN 1 ELSE 0) <= faults
  BY DEF Counted
<1> HIDE DEF old, new, off
<1>10. /\ Cardinality(new) \in Nat
       /\ Cardinality(new) <= Cardinality(old) + (IF off THEN 1 ELSE 0)
  <2> DEFINE extra == IF off THEN 1 ELSE 0
  <2>1. extra \in {0, 1} /\ new \subseteq old \cup {Len(rotations) + 1} /\ (extra = 0 => new \subseteq old)
    BY <1>8
  <2> HIDE DEF extra
  <2>2. Cardinality(new) \in Nat /\ Cardinality(new) <= Cardinality(old) + extra
    BY <1>6, <2>1, OneMore
  <2> QED
    BY <2>2 DEF extra
<1>11. Cardinality(new) <= faults
  BY <1>4, <1>6, <1>9, <1>10
<1>12. ~Off(ActiveLines', lines', Turn(p)')
  BY <1>1 DEF Off
<1>13. new = MixedSet(rotations, lines)'
  BY <1>1 DEF new
<1>14. Counted(p)'
  BY <1>1, <1>4, <1>11, <1>12, <1>13, <1>10 DEF Counted
<1> QED
  BY <1>3, <1>14

LEMMA PeriodWrite ==
  ASSUME NEW p \in Proc, Sole(p), DayTicks > 0, Calendar(p), Counted(p), Write(p)
  PROVE  Calendar(p)' /\ Counted(p)'
<1>1. /\ UNCHANGED <<now, next, lines, rotations, faults>>
      /\ ActiveLines' = Append(ActiveLines, proc[p].line)
      /\ proc[p].pc = "write" /\ proc'[p].pc = "idle"
  BY WriteSole
<1>2. Turn(p)' = Turn(p)
  BY <1>1 DEF Turn
<1>3. Calendar(p)'
  BY <1>1, <1>2 DEF Calendar
<1>4. lines[proc[p].line] \div DayTicks = Turn(p)
  <2>1. lines[proc[p].line] = proc[p].at
    BY <1>1 DEF Sole, AInv, Busy
  <2> QED
    BY <1>1, <2>1 DEF Calendar
<1>5. ActiveLines \in Seq(Nat) /\ proc[p].line \in Nat
  BY Numbers, Typed DEF Sole
<1>6. /\ \A i \in DOMAIN ActiveLines : i \in DOMAIN ActiveLines' /\ ActiveLines'[i] = ActiveLines[i]
      /\ ActiveLines'[Len(ActiveLines) + 1] = proc[p].line
      /\ \A i \in DOMAIN ActiveLines' : i \in DOMAIN ActiveLines \/ i = Len(ActiveLines) + 1
  BY <1>1, <1>5, AppendKeeps
<1>7. Off(ActiveLines', lines, Turn(p)) <=> Off(ActiveLines, lines, Turn(p))
  BY <1>4, <1>6 DEF Off
<1>8. Counted(p)'
  BY <1>1, <1>2, <1>7 DEF Counted
<1> QED
  BY <1>3, <1>8

LEMMA PeriodNext ==
  ASSUME NEW p, Proc = {p}, Sole(p), PeriodInv(p), [Next]_vars
  PROVE  PeriodInv(p)'
<1> SUFFICES ASSUME DayTicks > 0
             PROVE  Calendar(p)' /\ Counted(p)'
  BY DEF PeriodInv
<1>1. /\ p \in Proc /\ Calendar(p) /\ Counted(p)
      /\ now \in Nat /\ faults \in Nat /\ DayTicks \in Nat
  BY Numbers DEF PeriodInv
<1>2. CASE LogInPlace(p) \/ LogRotating(p)
  BY <1>1, <1>2, CalendarEnter
<1>3. CASE Rename(p)
  BY <1>1, <1>3, PeriodRename
<1>4. CASE Write(p)
  BY <1>1, <1>4, PeriodWrite
<1>5. CASE Quiet(p)
  <2>1. /\ UNCHANGED <<now, next, lines, rotations>> /\ ActiveLines' = ActiveLines
        /\ proc[p].pc # "idle" /\ proc'[p].pc \notin {"idle", "open", "write"}
        /\ proc'[p].at = proc[p].at /\ proc'[p].due = proc[p].due
        /\ faults' = faults \/ faults' = faults + 1
    BY <1>1, <1>5, QuietKeeps
  <2>2. Turn(p)' = Turn(p) /\ LinesGrow
    BY <2>1 DEF Turn, LinesGrow
  <2>3. Calendar(p)'
    BY <1>1, <2>1, <2>2 DEF Calendar
  <2> QED
    BY <1>1, <2>1, <2>2, <2>3, CountStays
<1>6. CASE RenameFails(p) \/ Ends(p)
  <2>1. /\ UNCHANGED <<now, lines, rotations>> /\ ActiveLines' = ActiveLines
        /\ proc[p].pc # "idle" /\ Resume(p)
        /\ \/ faults' = faults + 1
           \/ ActiveLines = << >> /\ (faults' = faults \/ faults' = faults + 1)
    BY <1>1, <1>6, RenameFailsSole, EndsEmpty
  <2>2. Calendar(p)'
    BY <1>1, <2>1, CalendarResume
  <2>3. LinesGrow
    BY <2>1 DEF LinesGrow
  <2> QED
    BY <1>1, <2>1, <2>2, <2>3, CountStays
<1>7. CASE Open(p)
  <2>1. /\ UNCHANGED <<now, next, lines, rotations, faults>> /\ ActiveLines' = ActiveLines
        /\ proc[p].pc = "open" /\ proc'[p].pc = "write"
        /\ proc'[p].at = proc[p].at
    BY <1>1, <1>7, OpenSole
  <2>2. Turn(p)' = Turn(p) /\ LinesGrow
    BY <2>1 DEF Turn, LinesGrow
  <2>3. Calendar(p)'
    BY <1>1, <2>1, <2>2 DEF Calendar
  <2> QED
    BY <1>1, <2>1, <2>2, <2>3, CountStays
<1>8. CASE Stops(p)
  <2>1. /\ UNCHANGED <<now, lines, rotations>> /\ ActiveLines' = ActiveLines
        /\ proc'[p].pc = "idle" /\ faults' = faults + 1
        /\ next'[p] = next[p] \/ next'[p] = NextBoundary(now)
    BY <1>1, <1>8, StopsSole
  <2>2. Turn(p)' = Turn(p) \/ Turn(p)' = now \div DayTicks
    BY <1>1, <2>1, BoundaryTurn DEF Turn
  <2>3. LinesGrow
    BY <2>1 DEF LinesGrow
  <2>4. now \div DayTicks \in Nat
    BY <1>1, DivIs
  <2>5. Calendar(p)'
    BY <1>1, <2>1, <2>2, <2>4 DEF Calendar
  <2> QED
    BY <1>1, <2>1, <2>3, <2>5, CountStays
<1>9. CASE Tick \/ UNCHANGED vars
  <2>1. /\ UNCHANGED <<next, proc, lines, rotations, faults>> /\ ActiveLines' = ActiveLines
        /\ now' = now \/ now' = now + 1
    BY <1>1, <1>9, TickSole, IdleSole DEF vars
  <2>2. Turn(p)' = Turn(p) /\ LinesGrow
    BY <2>1 DEF Turn, LinesGrow
  <2>3. now \div DayTicks <= now' \div DayTicks /\ now' \div DayTicks \in Nat /\ now \div DayTicks \in Nat
    BY <1>1, <2>1, DivMonotone
  <2>4. Turn(p) \in Int
    BY <1>1, TurnIs
  <2>5. Calendar(p)'
    BY <1>1, <2>1, <2>2, <2>3, <2>4 DEF Calendar
  <2> QED
    BY <1>1, <2>1, <2>2, <2>5, CountStays
<1> QED
  BY <1>2, <1>3, <1>4, <1>5, <1>6, <1>7, <1>8, <1>9, Steps

LEMMA PeriodKeptBy ==
  ASSUME NEW p \in Proc, Sole(p), PeriodInv(p)
  PROVE  PeriodKept
<1> SUFFICES ASSUME DayTicks > 0
             PROVE  LET contents == Append(rotations, ActiveLines) IN
                    Cardinality({k \in DOMAIN contents : Mixed(contents[k])}) <= faults
  BY DEF PeriodKept
<1> DEFINE old == MixedSet(rotations, lines)
           off == Off(ActiveLines, lines, Turn(p))
           contents == Append(rotations, ActiveLines)
           all == {k \in DOMAIN contents : Mixed(contents[k])}
<1>1. /\ ActiveLines \in Seq(Nat) /\ rotations \in Seq(Seq(Nat)) /\ faults \in Nat /\ Len(rotations) \in Nat
  BY Numbers
<1>2. /\ \A k \in DOMAIN rotations : contents[k] = rotations[k]
      /\ contents[Len(rotations) + 1] = ActiveLines
      /\ \A k \in DOMAIN contents : k \in DOMAIN rotations \/ k = Len(rotations) + 1
  BY <1>1, AppendKeeps
<1>3. IsFiniteSet(old) /\ Cardinality(old) \in Nat
  BY MixedFinite
<1>4. Mixed(ActiveLines) => off
  BY DEF Mixed, Off
<1> HIDE DEF contents
<1>5. \A k \in DOMAIN rotations : Mixed(contents[k]) => k \in old
  BY <1>2 DEF Mixed, MixedSet, MixedIn
<1>6. all \subseteq old \cup (IF off THEN {Len(rotations) + 1} ELSE {})
  BY <1>2, <1>4, <1>5
<1>7. Cardinality(old) + (IF off THEN 1 ELSE 0) <= faults
  BY DEF PeriodInv, Counted
<1> HIDE DEF old, off, all
<1>8. Cardinality(all) <= faults
  <2> DEFINE extra == IF off THEN 1 ELSE 0
  <2>1. extra \in {0, 1} /\ all \subseteq old \cup {Len(rotations) + 1} /\ (extra = 0 => all \subseteq old)
    BY <1>6
  <2>2. Cardinality(old) + extra <= faults
    BY <1>7
  <2> HIDE DEF extra
  <2>3. Cardinality(all) \in Nat /\ Cardinality(all) <= Cardinality(old) + extra
    BY <1>3, <2>1, OneMore
  <2> QED
    BY <1>1, <1>3, <2>1, <2>2, <2>3
<1> QED
  BY <1>8 DEF all, contents

-----------------------------------------------------------------------------
(* The rotated files.                                                            *)

\* Names a rotation in progress may have more than the last pruning left.
Extra(pc) == IF pc \in {"gzip", "prune"} THEN 1 ELSE IF pc \in {"copy", "unlink"} THEN 2 ELSE 0

\* What pruning left, what is in progress, and two names a fault at most.
BackupInv(p) ==
    BackupCount > 0 => Cardinality(Rotated) <= BackupCount + 2 * faults + Extra(proc[p].pc)

LEMMA RotatedFinite ==
  ASSUME NEW p \in Proc, Sole(p), NEW T, T \subseteq Rotated
  PROVE  IsFiniteSet(T) /\ Cardinality(T) \in Nat
<1>1. IsFiniteSet(DOMAIN dir) /\ T \subseteq DOMAIN dir
  BY DEF Sole, AInv, Disk, Rotated
<1> QED
  BY <1>1, FS_Subset, FS_CardinalityType

LEMMA RotatedTyped ==
  ASSUME NEW p \in Proc, Sole(p), NEW n \in Rotated
  PROVE  dir[n] \in DOMAIN files /\ dir[n] \in Nat /\ Len(files) \in Nat /\ dir[n] <= Len(files)
<1>1. files \in Seq(File) /\ dir[n] \in DOMAIN files
  BY DEF Sole, AInv, Disk, Rotated
<1> QED
  BY <1>1

\* The order of modification is the order of creation.
LEMMA NewerIs ==
  ASSUME NEW p \in Proc, Sole(p), NEW n \in Rotated, NEW m \in Rotated
  PROVE  m \in Newer(n) <=> dir[m] > dir[n]
<1> DEFINE a == dir[n]
           b == dir[m]
<1>1. a \in DOMAIN files /\ b \in DOMAIN files /\ a \in Nat /\ b \in Nat
  BY RotatedTyped
<1>2. files[a].touched \in Nat /\ files[b].touched \in Nat
  BY <1>1, LinesOf DEF Sole, AInv
<1>3. m \in Newer(n) <=> files[b].touched > files[a].touched
  BY DEF Newer
<1> HIDE DEF a, b
<1>4. b > a => files[b].touched > files[a].touched
  BY <1>1, <1>2 DEF Sole, InOrder
<1>5. a > b => files[a].touched > files[b].touched
  BY <1>1, <1>2 DEF Sole, InOrder
<1>6. m \in Newer(n) <=> b > a
  BY <1>1, <1>2, <1>3, <1>4, <1>5
<1> QED
  BY <1>6 DEF a, b

\* What the pruning leaves.
LEMMA PruneLeaves ==
  ASSUME NEW p \in Proc, Sole(p), BackupCount > 0
  PROVE  Cardinality(Rotated \ PastBackups) <= BackupCount
<1> DEFINE K == Rotated \ PastBackups
           T == {dir[n] : n \in K}
<1>1. IsFiniteSet(K) /\ Cardinality(K) \in Nat /\ BackupCount \in Nat
  BY RotatedFinite, RotationAssumption
<1>2. CASE K = {}
  BY <1>1, <1>2, FS_EmptySet
<1>3. CASE K # {}
  <2>1. T \subseteq Nat /\ T # {}
    BY <1>3, RotatedTyped
  <2>2. PICK t \in T : \A u \in T : t <= u
    BY <2>1, LeastNumber
  <2>3. PICK o \in K : t = dir[o]
    OBVIOUS
  <2>4. ASSUME NEW m \in K, m # o
        PROVE  m \in Newer(o)
    <3>1. dir[m] # dir[o]
      BY <2>4 DEF Sole, InOrder, Rotated
    <3>2. dir[o] <= dir[m] /\ dir[o] \in Nat /\ dir[m] \in Nat
      BY <2>2, <2>3, RotatedTyped
    <3> QED
      BY <3>1, <3>2, NewerIs
  <2>5. Newer(o) \subseteq Rotated
    BY DEF Newer
  <2>6. IsFiniteSet(Newer(o)) /\ Cardinality(Newer(o)) \in Nat
    BY <2>5, RotatedFinite
  <2>7. Cardinality(Newer(o)) < BackupCount
    BY <1>1, <2>6 DEF PastBackups
  <2>8. K \subseteq Newer(o) \cup {o}
    BY <2>4
  <2> HIDE DEF K
  <2>9. Cardinality(K) <= Cardinality(Newer(o)) + 1
    <3>1. 1 \in {0, 1} /\ (1 = 0 => K \subseteq Newer(o))
      OBVIOUS
    <3> QED
      BY <2>6, <2>8, <3>1, OneMore
  <2> QED
    BY <1>1, <2>6, <2>7, <2>9 DEF K
<1> QED
  BY <1>2, <1>3

LEMMA BackupNext ==
  ASSUME NEW p, Proc = {p}, Sole(p), BackupInv(p), [Next]_vars
  PROVE  BackupInv(p)'
<1> SUFFICES ASSUME BackupCount > 0
             PROVE  Cardinality(Rotated') <= BackupCount + 2 * faults' + Extra(proc'[p].pc)
  BY DEF BackupInv
<1> DEFINE to == proc[p].to
           c == Cardinality(Rotated)
<1>1. /\ p \in Proc /\ AInv /\ InOrder /\ Alone(p) /\ faults \in Nat /\ BackupCount \in Nat
      /\ c <= BackupCount + 2 * faults + Extra(proc[p].pc)
  BY Numbers DEF Sole, BackupInv
<1>2. IsFiniteSet(Rotated) /\ c \in Nat
  BY <1>1, RotatedFinite
<1>3. Extra(proc[p].pc) \in 0..2 /\ Extra(proc'[p].pc) \in 0..2
  BY DEF Extra
<1>4. ASSUME Rotated' = Rotated, \/ faults' = faults /\ Extra(proc'[p].pc) >= Extra(proc[p].pc)
                                \/ faults' = faults + 1
      PROVE  Cardinality(Rotated') <= BackupCount + 2 * faults' + Extra(proc'[p].pc)
  <2> HIDE DEF c
  <2>1. Cardinality(Rotated') = c
    BY <1>4 DEF c
  <2>2. CASE faults' = faults /\ Extra(proc'[p].pc) >= Extra(proc[p].pc)
    BY <1>1, <1>2, <1>3, <2>1, <2>2
  <2>3. CASE faults' = faults + 1
    BY <1>1, <1>2, <1>3, <2>1, <2>3
  <2> QED
    BY <1>4, <2>2, <2>3
<1>5. CASE LogInPlace(p) \/ LogRotating(p)
  <2>1. dir' = dir /\ faults' = faults /\ proc[p].pc = "idle"
    BY <1>1, <1>5, EnterSole
  <2> QED
    BY <1>3, <1>4, <2>1 DEF Rotated, Extra
<1>6. CASE ChooseName(p)
  <2>1. dir' = dir /\ faults' = faults /\ proc[p].pc = "name"
    BY <1>6 DEF ChooseName
  <2> QED
    BY <1>3, <1>4, <2>1 DEF Rotated, Extra
<1>7. ASSUME NEW e, NEW new, new \subseteq Rotated \cup {e}
      PROVE  Cardinality(new) <= c + 1 /\ Cardinality(new) \in Nat
  <2>1. 1 \in {0, 1} /\ (1 = 0 => new \subseteq Rotated)
    OBVIOUS
  <2> QED
    BY <1>2, <1>7, <2>1, OneMore
<1>8. ASSUME NEW e \in Rotated
      PROVE  Cardinality(Rotated \ {e}) = c - 1
  BY <1>2, FS_RemoveElement
<1>9. CASE Rename(p)
  <2>1. /\ DOMAIN dir' = (DOMAIN dir \cup {to}) \ {Active}
        /\ proc'[p].pc \in {"gzip", "prune"} /\ proc[p].pc = "rename" /\ faults' = faults
    BY <1>1, <1>9, AloneRename DEF Rename
  <2>2. Rotated' \subseteq Rotated \cup {to}
    BY <2>1 DEF Rotated
  <2>3. Cardinality(Rotated') <= c + 1 /\ Cardinality(Rotated') \in Nat
    BY <1>7, <2>2
  <2>4. Extra(proc'[p].pc) = 1 /\ Extra(proc[p].pc) = 0
    BY <2>1 DEF Extra
  <2> HIDE DEF c
  <2> QED
    BY <1>1, <1>2, <2>1, <2>3, <2>4
<1>10. CASE RenameFails(p)
  <2>1. dir' = dir /\ faults' = faults + 1
    BY <1>1, <1>10, RenameFailsSole
  <2> QED
    BY <1>4, <2>1 DEF Rotated
<1>11. CASE Gzip(p)
  <2>1. DOMAIN dir' = DOMAIN dir \cup {Gz(to)} /\ proc'[p].pc = "copy" /\ proc[p].pc = "gzip"
        /\ faults' = faults
    BY <1>1, <1>11, AloneGzip DEF Gzip
  <2>2. Rotated' \subseteq Rotated \cup {Gz(to)}
    BY <2>1 DEF Rotated
  <2>3. Cardinality(Rotated') <= c + 1 /\ Cardinality(Rotated') \in Nat
    BY <1>7, <2>2
  <2>4. Extra(proc'[p].pc) = 2 /\ Extra(proc[p].pc) = 1
    BY <2>1 DEF Extra
  <2> HIDE DEF c
  <2> QED
    BY <1>1, <1>2, <2>1, <2>3, <2>4
<1>12. CASE Copy(p)
  <2>1. dir' = dir /\ faults' = faults /\ proc[p].pc = "copy" /\ proc'[p].pc = "unlink"
    BY <1>1, <1>12, AloneCopy DEF Copy
  <2>2. Extra(proc'[p].pc) >= Extra(proc[p].pc)
    BY <2>1 DEF Extra
  <2> QED
    BY <1>4, <2>1, <2>2 DEF Rotated
<1>13. CASE CompressFails(p) \/ Unlink(p)
  <2>1. proc'[p].pc = "prune" /\ Extra(proc'[p].pc) = 1
    BY <1>1, <1>13, AloneAway DEF Extra
  <2>2. CASE proc[p].pc = "unlink"
    <3>1. /\ Unlink(p) /\ DOMAIN dir' = DOMAIN dir \ {to} /\ Exists(to) /\ to # Active
      BY <1>1, <1>13, <2>2, AloneAway
    <3>2. faults' = faults /\ Extra(proc[p].pc) = 2
      BY <2>2, <3>1 DEF Unlink, Extra
    <3>3. Rotated' = Rotated \ {to} /\ to \in Rotated
      BY <3>1 DEF Rotated, Exists
    <3>4. Cardinality(Rotated') = c - 1
      BY <1>8, <3>3
    <3> HIDE DEF c
    <3> QED
      BY <1>1, <1>2, <2>1, <3>2, <3>4
  <2>3. CASE proc[p].pc # "unlink"
    <3>1. faults' = faults + 1 /\ DOMAIN dir' = DOMAIN dir \ {Gz(to)}
      BY <1>1, <1>13, <2>3, AloneAway DEF Fault
    <3>2. Rotated' \subseteq Rotated
      BY <3>1 DEF Rotated
    <3>3. Cardinality(Rotated') <= c /\ Cardinality(Rotated') \in Nat
      BY <1>2, <3>2, FS_Subset, FS_CardinalityType
    <3> HIDE DEF c
    <3> QED
      BY <1>1, <1>2, <1>3, <2>1, <3>1, <3>3
  <2> QED
    BY <2>2, <2>3
<1>14. CASE UnlinkFails(p) \/ PruneFails(p)
  <2>1. dir' = dir /\ faults' = faults + 1
    <3>1. CASE UnlinkFails(p)
      <4>1. Exists(proc[p].to)
        BY <1>1, <3>1 DEF Alone, UnlinkFails
      <4> QED
        BY <3>1, <4>1 DEF UnlinkFails, Fault
    <3>2. CASE PruneFails(p)
      BY <3>2 DEF PruneFails, Fault
    <3> QED
      BY <1>14, <3>1, <3>2
  <2> QED
    BY <1>4, <2>1 DEF Rotated
<1>15. CASE Prune(p)
  <2>1. DOMAIN dir' = DOMAIN dir \ PastBackups /\ faults' = faults
    BY <1>1, <1>15, AlonePrune DEF Prune
  <2>2. Rotated' = Rotated \ PastBackups
    BY <2>1 DEF Rotated
  <2>3. Cardinality(Rotated') <= BackupCount
    BY <1>1, <2>2, PruneLeaves
  <2>4. Cardinality(Rotated') \in Nat
    BY <1>1, <2>2, RotatedFinite
  <2> QED
    BY <1>1, <1>3, <2>1, <2>3, <2>4
<1>16. CASE Open(p)
  <2>1. DOMAIN dir' = DOMAIN dir \cup {Active} /\ proc[p].pc = "open" /\ faults' = faults
    BY <1>1, <1>16, AloneOpen DEF Open
  <2> QED
    BY <1>3, <1>4, <2>1 DEF Rotated, Extra
<1>17. CASE Write(p)
  <2>1. dir' = dir /\ proc[p].pc = "write" /\ faults' = faults
    BY <1>17 DEF Write
  <2> QED
    BY <1>3, <1>4, <2>1 DEF Rotated, Extra
<1>18. CASE Stops(p)
  <2>1. dir' = dir /\ faults' = faults + 1
    BY <1>1, <1>18, StopsSole
  <2> QED
    BY <1>4, <2>1 DEF Rotated
<1>19. CASE Tick \/ UNCHANGED vars
  <2>1. UNCHANGED <<dir, faults, proc>>
    BY <1>19 DEF Tick, vars
  <2> QED
    BY <1>3, <1>4, <2>1 DEF Rotated
<1> QED
  BY <1>5, <1>6, <1>9, <1>10, <1>11, <1>12, <1>13, <1>14, <1>15, <1>16, <1>17, <1>18, <1>19, Steps
     DEF Quiet, Ends

\* The rotated names from a file on; the second name a compression gives a rotation.
From(f) == {n \in Rotated : dir[n] >= f}
Both(pc) == IF pc \in {"copy", "unlink"} THEN 1 ELSE 0

\* Rotation k is whole under some name, one of no more names from a file on than there
\* have been rotations since, or backup_count of them have followed.
Keeps(p, k) ==
    \E f \in DOMAIN files :
       /\ Cardinality(From(f)) <= Len(rotations) - k + 1 + faults + Both(proc[p].pc)
       /\ \/ \E n \in From(f) : Lines(n) = rotations[k]
          \/ BackupCount > 0 /\ Len(rotations) - k >= BackupCount - faults

KeepsAll(p) == \A k \in DOMAIN rotations : Keeps(p, k)

LEMMA FromFinite ==
  ASSUME NEW p \in Proc, Sole(p), NEW f
  PROVE  IsFiniteSet(From(f)) /\ Cardinality(From(f)) \in Nat
BY RotatedFinite DEF From

LEMMA RotationOf ==
  ASSUME NEW p \in Proc, Sole(p), NEW k \in DOMAIN rotations
  PROVE  k \in Nat /\ k >= 1 /\ k <= Len(rotations) /\ Len(rotations) \in Nat /\ rotations[k] # << >>
<1>1. rotations \in Seq(Seq(Nat))
  BY Numbers
<1> QED
  BY <1>1 DEF Sole, InOrder

LEMMA KeepsSame ==
  ASSUME NEW p \in Proc, Sole(p), KeepsAll(p), Rotated' = Rotated,
         \A n \in Rotated : dir'[n] = dir[n] /\ Lines(n)' = Lines(n),
         rotations' = rotations, DOMAIN files \subseteq DOMAIN files',
         \/ faults' = faults /\ Both(proc'[p].pc) = Both(proc[p].pc)
         \/ faults' = faults + 1
  PROVE  KeepsAll(p)'
<1> SUFFICES ASSUME NEW k \in DOMAIN rotations
             PROVE  Keeps(p, k)'
  BY DEF KeepsAll
<1>1. PICK f \in DOMAIN files :
         /\ Cardinality(From(f)) <= Len(rotations) - k + 1 + faults + Both(proc[p].pc)
         /\ \/ \E n \in From(f) : Lines(n) = rotations[k]
            \/ BackupCount > 0 /\ Len(rotations) - k >= BackupCount - faults
  BY DEF KeepsAll, Keeps
<1>2. From(f)' = From(f)
  BY DEF From
<1>3. /\ Cardinality(From(f)) \in Nat /\ faults \in Nat /\ BackupCount \in Nat
      /\ Both(proc[p].pc) \in 0..1 /\ Both(proc'[p].pc) \in 0..1
      /\ k \in Nat /\ Len(rotations) \in Nat
  BY FromFinite, Numbers, RotationOf DEF Both
<1>4. Cardinality(From(f)') <= Len(rotations') - k + 1 + faults' + Both(proc'[p].pc)
  BY <1>1, <1>2, <1>3
<1>5. \/ \E n \in From(f)' : Lines(n)' = rotations'[k]
      \/ BackupCount > 0 /\ Len(rotations') - k >= BackupCount - faults'
  <2>1. \A n \in From(f) : Lines(n)' = Lines(n)
    BY DEF From
  <2> QED
    BY <1>1, <1>2, <1>3, <2>1
<1> QED
  BY <1>4, <1>5 DEF Keeps

LEMMA KeepsRename ==
  ASSUME NEW p \in Proc, Sole(p), KeepsAll(p), Rename(p)
  PROVE  KeepsAll(p)'
<1> DEFINE to == proc[p].to
           n0 == Len(rotations)
<1>1. /\ ActiveLines # << >> /\ rotations' = Append(rotations, ActiveLines) /\ Exists(Active)
      /\ DOMAIN dir' = (DOMAIN dir \cup {to}) \ {Active} /\ to # Active /\ ~Exists(to)
      /\ dir'[to] = dir[Active] /\ \A n \in Rotated : dir'[n] = dir[n]
      /\ proc'[p].pc \in {"gzip", "prune"} /\ proc[p].pc = "rename"
      /\ faults' = faults /\ files' = files
  BY AloneRename DEF Sole, Rename
<1>2. /\ faults \in Nat /\ BackupCount \in Nat /\ rotations \in Seq(Seq(Nat)) /\ n0 \in Nat
      /\ ActiveLines \in Seq(Nat)
  BY Numbers
<1>3. /\ Len(rotations') = n0 + 1 /\ rotations'[n0 + 1] = ActiveLines
      /\ \A k \in DOMAIN rotations : rotations'[k] = rotations[k]
      /\ \A k \in DOMAIN rotations' : k \in DOMAIN rotations \/ k = n0 + 1
  BY <1>1, <1>2, AppendKeeps
<1>4. Rotated' = Rotated \cup {to}
  BY <1>1 DEF Rotated
<1>5. Both(proc'[p].pc) = 0 /\ Both(proc[p].pc) = 0
  BY <1>1 DEF Both
<1>6. \A n \in Rotated : Lines(n)' = Lines(n)
  BY <1>1 DEF Lines
<1>7. ASSUME NEW k \in DOMAIN rotations
      PROVE  Keeps(p, k)'
  <2>1. PICK f \in DOMAIN files :
           /\ Cardinality(From(f)) <= n0 - k + 1 + faults + Both(proc[p].pc)
           /\ \/ \E n \in From(f) : Lines(n) = rotations[k]
              \/ BackupCount > 0 /\ n0 - k >= BackupCount - faults
    BY DEF KeepsAll, Keeps
  <2>2. From(f)' \subseteq From(f) \cup {to} /\ From(f) \subseteq From(f)'
    BY <1>1, <1>4 DEF From
  <2>3. /\ Cardinality(From(f)) \in Nat /\ IsFiniteSet(From(f)) /\ k \in Nat
    BY FromFinite, RotationOf
  <2>4. Cardinality(From(f)') \in Nat /\ Cardinality(From(f)') <= Cardinality(From(f)) + 1
    <3>1. 1 \in {0, 1} /\ (1 = 0 => From(f)' \subseteq From(f))
      OBVIOUS
    <3> QED
      BY <2>2, <2>3, <3>1, OneMore
  <2>5. Cardinality(From(f)') <= Len(rotations') - k + 1 + faults' + Both(proc'[p].pc)
    <3>1. Cardinality(From(f)') <= n0 - k + 1 + faults + 1
      BY <1>2, <1>5, <2>1, <2>3, <2>4
    <3>2. n0 + 1 - k + 1 + faults = n0 - k + 1 + faults + 1
      BY <1>2, <2>3
    <3> QED
      BY <1>1, <1>3, <1>5, <1>2, <2>3, <3>1, <3>2
  <2>6. \/ \E n \in From(f)' : Lines(n)' = rotations'[k]
        \/ BackupCount > 0 /\ Len(rotations') - k >= BackupCount - faults'
    <3>1. CASE \E n \in From(f) : Lines(n) = rotations[k]
      <4>1. PICK n \in From(f) : Lines(n) = rotations[k]
        BY <3>1
      <4>2. Lines(n)' = rotations'[k] /\ n \in From(f)'
        BY <1>3, <1>6, <2>2, <4>1 DEF From
      <4> QED
        BY <4>2
    <3>2. CASE BackupCount > 0 /\ n0 - k >= BackupCount - faults
      BY <1>1, <1>2, <1>3, <2>3, <3>2
    <3> QED
      BY <2>1, <3>1, <3>2
  <2>7. f \in DOMAIN files'
    BY <1>1
  <2> QED
    BY <2>5, <2>6, <2>7 DEF Keeps
<1>8. ASSUME NEW k, k = n0 + 1
      PROVE  Keeps(p, k)'
  <2> DEFINE f == Len(files)
  <2>1. f = dir[Active] /\ f \in DOMAIN files /\ f \in Nat
    <3>1. dir[Active] \in DOMAIN files /\ files \in Seq(File) /\ dir[Active] = f
      BY <1>1 DEF Sole, InOrder, AInv, Disk, Exists
    <3> QED
      BY <3>1
  <2>2. \A n \in Rotated : ~(dir'[n] >= f)
    <3>1. ASSUME NEW n \in Rotated
          PROVE  ~(dir'[n] >= f)
      <4>1. dir[n] # dir[Active]
        BY <1>1 DEF Sole, InOrder, Rotated, Exists
      <4>2. dir[n] \in Nat /\ dir[n] <= f
        BY RotatedTyped
      <4> HIDE DEF f
      <4> QED
        BY <1>1, <2>1, <4>1, <4>2
    <3> QED
      BY <3>1
  <2>3. {n \in Rotated' : dir'[n] >= f} = {to}
    BY <1>1, <1>4, <2>1, <2>2
  <2>4. Lines(to) = Lines(to)
    OBVIOUS
  <2>5. files'[dir'[to]].lines = rotations'[k]
    BY <1>1, <1>3, <1>8 DEF ActiveLines, Lines
  <2>6. Cardinality({to}) = 1
    BY FS_Singleton
  <2> HIDE DEF to, f
  <2>7. ASSUME NEW g \in DOMAIN files', g = f
        PROVE  /\ Cardinality(From(g)') <= Len(rotations') - k + 1 + faults' + Both(proc'[p].pc)
               /\ \E n \in From(g)' : Lines(n)' = rotations'[k]
    <3>1. From(g)' = {to}
      BY <2>3, <2>7 DEF From
    <3>2. Len(rotations') - k + 1 + faults' + Both(proc'[p].pc) >= 1
      BY <1>1, <1>2, <1>3, <1>5, <1>8
    <3>3. \A n \in From(g)' : Lines(n)' = rotations'[k]
      BY <2>5, <3>1 DEF Lines
    <3> QED
      BY <2>6, <3>1, <3>2, <3>3
  <2>8. f \in DOMAIN files'
    BY <1>1, <2>1
  <2> QED
    BY <2>7, <2>8 DEF Keeps
<1> QED
  BY <1>3, <1>7, <1>8 DEF KeepsAll

\* The file of a rotation is not the empty one a compression has just made.
LEMMA KeepsGzip ==
  ASSUME NEW p \in Proc, Sole(p), KeepsAll(p), Gzip(p)
  PROVE  KeepsAll(p)'
<1> DEFINE gz == Gz(proc[p].to)
<1>1. /\ DOMAIN dir' = DOMAIN dir \cup {gz} /\ gz # Active /\ ~Exists(gz)
      /\ \A n \in DOMAIN dir : dir'[n] = dir[n] /\ Lines(n)' = Lines(n)
      /\ proc'[p].pc = "copy" /\ proc[p].pc = "gzip"
      /\ UNCHANGED <<rotations, faults>>
  BY AloneGzip DEF Sole, Gzip
<1>2. DOMAIN files \subseteq DOMAIN files'
  <2>1. files \in Seq(File) /\ files' \in Seq(File) /\ Len(files') = Len(files) + 1 /\ Len(files) \in Nat
    <3>1. Stamp \in Nat /\ files \in Seq(File)
      BY StampNewer DEF Sole, AInv, Disk
    <3>2. [lines |-> << >>, touched |-> Stamp] \in File
      BY <3>1 DEF File
    <3> QED
      BY <3>1, <3>2, AppendKeeps DEF Gzip, NewFile
  <2> QED
    BY <2>1
<1>3. Both(proc'[p].pc) = 1 /\ Both(proc[p].pc) = 0
  BY <1>1 DEF Both
<1> SUFFICES ASSUME NEW k \in DOMAIN rotations
             PROVE  Keeps(p, k)'
  BY <1>1 DEF KeepsAll
<1>4. PICK f \in DOMAIN files :
         /\ Cardinality(From(f)) <= Len(rotations) - k + 1 + faults + Both(proc[p].pc)
         /\ \/ \E n \in From(f) : Lines(n) = rotations[k]
            \/ BackupCount > 0 /\ Len(rotations) - k >= BackupCount - faults
  BY DEF KeepsAll, Keeps
<1>5. From(f)' \subseteq From(f) \cup {gz} /\ From(f) \subseteq From(f)'
  BY <1>1 DEF From, Rotated, Exists
<1>6. /\ Cardinality(From(f)) \in Nat /\ IsFiniteSet(From(f)) /\ k \in Nat
      /\ Len(rotations) \in Nat /\ faults \in Nat
  BY FromFinite, RotationOf, Numbers
<1>7. Cardinality(From(f)') \in Nat /\ Cardinality(From(f)') <= Cardinality(From(f)) + 1
  <2>1. 1 \in {0, 1} /\ (1 = 0 => From(f)' \subseteq From(f))
    OBVIOUS
  <2> QED
    BY <1>5, <1>6, <2>1, OneMore
<1>8. Cardinality(From(f)') <= Len(rotations') - k + 1 + faults' + Both(proc'[p].pc)
  BY <1>1, <1>3, <1>4, <1>6, <1>7
<1>9. \A n \in From(f) : n \in From(f)' /\ Lines(n)' = Lines(n)
  BY <1>1, <1>5 DEF From, Rotated
<1> QED
  BY <1>1, <1>2, <1>4, <1>8, <1>9 DEF Keeps

LEMMA KeepsCopy ==
  ASSUME NEW p \in Proc, Sole(p), KeepsAll(p), Copy(p)
  PROVE  KeepsAll(p)'
<1> DEFINE gz == Gz(proc[p].to)
<1>1. /\ \A n \in DOMAIN dir \ {gz} : Lines(n)' = Lines(n)
      /\ Lines(gz) = << >> /\ proc'[p].pc = "unlink" /\ proc[p].pc = "copy"
      /\ UNCHANGED <<rotations, faults, dir>>
  BY AloneCopy DEF Sole, Copy
<1>2. DOMAIN files' = DOMAIN files
  BY DEF Copy
<1>3. Both(proc'[p].pc) = Both(proc[p].pc)
  BY <1>1 DEF Both
<1> SUFFICES ASSUME NEW k \in DOMAIN rotations
             PROVE  Keeps(p, k)'
  BY <1>1 DEF KeepsAll
<1>4. PICK f \in DOMAIN files :
         /\ Cardinality(From(f)) <= Len(rotations) - k + 1 + faults + Both(proc[p].pc)
         /\ \/ \E n \in From(f) : Lines(n) = rotations[k]
            \/ BackupCount > 0 /\ Len(rotations) - k >= BackupCount - faults
  BY DEF KeepsAll, Keeps
<1>5. From(f)' = From(f)
  BY <1>1 DEF From, Rotated
<1>6. Cardinality(From(f)') <= Len(rotations') - k + 1 + faults' + Both(proc'[p].pc)
  BY <1>1, <1>3, <1>4, <1>5
<1>7. \A n \in From(f) : Lines(n) = rotations[k] => Lines(n)' = rotations'[k]
  <2>1. \A n \in From(f) : n \in DOMAIN dir
    BY DEF From, Rotated
  <2>2. rotations[k] # << >>
    BY RotationOf
  <2> HIDE DEF gz
  <2> QED
    BY <1>1, <2>1, <2>2
<1> QED
  BY <1>1, <1>2, <1>4, <1>5, <1>6, <1>7 DEF Keeps

LEMMA KeepsAway ==
  ASSUME NEW p \in Proc, Sole(p), KeepsAll(p), CompressFails(p), proc[p].pc # "unlink"
  PROVE  KeepsAll(p)'
<1> DEFINE gz == Gz(proc[p].to)
<1>1. /\ \A n \in DOMAIN dir' : dir'[n] = dir[n] /\ Lines(n)' = Lines(n)
      /\ DOMAIN dir' = DOMAIN dir \ {gz} /\ gz # Active
      /\ Exists(gz) => Lines(gz) = << >>
      /\ proc'[p].pc = "prune" /\ faults' = faults + 1 /\ UNCHANGED <<rotations, files>>
  BY AloneAway DEF Sole, CompressFails, Fault
<1>2. Both(proc'[p].pc) = 0 /\ Both(proc[p].pc) \in 0..1
  BY <1>1 DEF Both
<1> SUFFICES ASSUME NEW k \in DOMAIN rotations
             PROVE  Keeps(p, k)'
  BY <1>1 DEF KeepsAll
<1>3. PICK f \in DOMAIN files :
         /\ Cardinality(From(f)) <= Len(rotations) - k + 1 + faults + Both(proc[p].pc)
         /\ \/ \E n \in From(f) : Lines(n) = rotations[k]
            \/ BackupCount > 0 /\ Len(rotations) - k >= BackupCount - faults
  BY DEF KeepsAll, Keeps
<1>4. From(f)' = From(f) \ {gz}
  BY <1>1 DEF From, Rotated
<1>5. /\ Cardinality(From(f)) \in Nat /\ IsFiniteSet(From(f)) /\ k \in Nat
      /\ Len(rotations) \in Nat /\ faults \in Nat /\ BackupCount \in Nat
  BY FromFinite, RotationOf, Numbers
<1>6. Cardinality(From(f)') \in Nat /\ Cardinality(From(f)') <= Cardinality(From(f))
  BY <1>4, <1>5, FS_Subset, FS_CardinalityType
<1>7. Cardinality(From(f)') <= Len(rotations') - k + 1 + faults' + Both(proc'[p].pc)
  BY <1>1, <1>2, <1>3, <1>5, <1>6, SMTT(30)
<1>8. \A n \in From(f) : Lines(n) = rotations[k] => n \in From(f)' /\ Lines(n)' = rotations'[k]
  <2>1. \A n \in From(f) : n \in DOMAIN dir
    BY DEF From, Rotated
  <2>2. rotations[k] # << >>
    BY RotationOf
  <2> HIDE DEF gz
  <2> QED
    BY <1>1, <1>4, <2>1, <2>2 DEF Exists
<1>9. \/ \E n \in From(f)' : Lines(n)' = rotations'[k]
      \/ BackupCount > 0 /\ Len(rotations') - k >= BackupCount - faults'
  <2>1. CASE \E n \in From(f) : Lines(n) = rotations[k]
    BY <1>8, <2>1
  <2>2. CASE BackupCount > 0 /\ Len(rotations) - k >= BackupCount - faults
    BY <1>1, <1>5, <2>2
  <2> QED
    BY <1>3, <2>1, <2>2
<1> QED
  BY <1>1, <1>7, <1>9 DEF Keeps

\* The compressed file takes the place of the plain one, which is older.
LEMMA KeepsUnlink ==
  ASSUME NEW p \in Proc, Sole(p), KeepsAll(p), Unlink(p)
  PROVE  KeepsAll(p)'
<1> DEFINE to == proc[p].to
           gz == Gz(to)
           last == Len(files)
<1>1. /\ proc[p].pc = "unlink" /\ UNCHANGED <<files, rotations, faults>>
  BY DEF Unlink
<1>2. /\ \A n \in DOMAIN dir' : dir'[n] = dir[n] /\ Lines(n)' = Lines(n)
      /\ DOMAIN dir' = DOMAIN dir \ {to} /\ Exists(to) /\ to # Active /\ Exists(gz) /\ gz # to
      /\ Lines(gz) = Lines(to) /\ dir[gz] = last /\ dir[to] = last - 1
      /\ proc'[p].pc = "prune" /\ ~Exists(Active)
  BY <1>1, AloneAway DEF Sole
<1>3. Both(proc'[p].pc) = 0 /\ Both(proc[p].pc) = 1
  BY <1>1, <1>2 DEF Both
<1>4. gz \in Rotated /\ to \in Rotated /\ last \in Nat /\ last \in DOMAIN files
  <2>1. gz \in Rotated /\ to \in Rotated
    BY <1>2 DEF Rotated, Exists
  <2> QED
    BY <1>2, <2>1, RotatedTyped
<1> SUFFICES ASSUME NEW k \in DOMAIN rotations
             PROVE  Keeps(p, k)'
  BY <1>1 DEF KeepsAll
<1>5. PICK f \in DOMAIN files :
         /\ Cardinality(From(f)) <= Len(rotations) - k + 1 + faults + Both(proc[p].pc)
         /\ \/ \E n \in From(f) : Lines(n) = rotations[k]
            \/ BackupCount > 0 /\ Len(rotations) - k >= BackupCount - faults
  BY DEF KeepsAll, Keeps
<1>6. /\ Cardinality(From(f)) \in Nat /\ IsFiniteSet(From(f)) /\ k \in Nat /\ f \in Nat
      /\ Len(rotations) \in Nat /\ faults \in Nat /\ BackupCount \in Nat /\ k <= Len(rotations)
  <2>1. files \in Seq(File)
    BY DEF Sole, AInv, Disk
  <2>2. f \in Nat
    BY <2>1
  <2> QED
    BY <2>2, FromFinite, RotationOf, Numbers
<1>7. From(f)' = From(f) \ {to}
  BY <1>2 DEF From, Rotated
<1>8. CASE dir[to] >= f
  <2>1. to \in From(f) /\ gz \in From(f)
    BY <1>2, <1>4, <1>6, <1>8 DEF From
  <2>2. Cardinality(From(f)') = Cardinality(From(f)) - 1
    <3> HIDE DEF to
    <3>1. Cardinality(From(f) \ {to}) = Cardinality(From(f)) - 1
      BY <1>6, <2>1, FS_RemoveElement
    <3> QED
      BY <1>7, <3>1
  <2>3. Cardinality(From(f)') <= Len(rotations') - k + 1 + faults' + Both(proc'[p].pc)
    <3> HIDE DEF to
    <3> QED
      BY <1>1, <1>3, <1>5, <1>6, <2>2
  <2>4. \A n \in From(f) : Lines(n) = rotations[k] => \E m \in From(f)' : Lines(m)' = rotations'[k]
    <3>1. ASSUME NEW n \in From(f), Lines(n) = rotations[k]
          PROVE  \E m \in From(f)' : Lines(m)' = rotations'[k]
      <4> DEFINE m == IF n = to THEN gz ELSE n
      <4>1. m \in From(f) /\ m # to /\ Lines(m) = rotations[k] /\ m \in DOMAIN dir
        BY <1>2, <2>1, <3>1 DEF From, Rotated
      <4> HIDE DEF m, to
      <4>2. m \in From(f)' /\ m \in DOMAIN dir'
        BY <1>2, <1>7, <4>1
      <4>3. \A x \in DOMAIN dir' : Lines(x)' = Lines(x)
        BY <1>2
      <4>4. \E x \in From(f)' : x = m
        BY <4>2
      <4>5. PICK x \in From(f)' : x = m
        BY <4>4
      <4>6. x \in DOMAIN dir' /\ Lines(x) = rotations[k]
        BY <4>1, <4>2, <4>5
      <4>7. Lines(x)' = rotations'[k]
        BY <1>1, <4>3, <4>6
      <4> QED
        BY <4>7
    <3> QED
      BY <3>1
  <2> QED
    BY <1>1, <1>5, <2>3, <2>4 DEF Keeps
<1>9. CASE ~(dir[to] >= f)
  <2>1. f = last
    <3>1. f <= last
      <4>1. files \in Seq(File)
        BY DEF Sole, AInv, Disk
      <4> QED
        BY <4>1
    <3> HIDE DEF last, to
    <3> QED
      BY <1>2, <1>4, <1>6, <1>9, <3>1
  <2>2. \A n \in From(f) : n = gz
    <3>1. ASSUME NEW n \in From(f)
          PROVE  n = gz
      <4>1. n \in Rotated /\ dir[n] >= last /\ dir[n] <= last /\ dir[n] \in Nat
        BY <2>1, RotatedTyped DEF From
      <4>2. dir[n] = dir[gz]
        BY <1>2, <1>4, <4>1
      <4> QED
        BY <1>4, <4>1, <4>2 DEF Sole, InOrder, Rotated
    <3> QED
      BY <3>1
  <2>3. Cardinality(From(f)') <= 1 /\ Cardinality(From(f)') \in Nat
    <3>1. Cardinality({gz}) = 1 /\ IsFiniteSet({gz})
      BY FS_Singleton
    <3>2. From(f)' \subseteq {gz}
      BY <1>7, <2>2
    <3> QED
      BY <3>1, <3>2, FS_Subset, FS_CardinalityType
  <2>4. Cardinality(From(f)') <= Len(rotations') - k + 1 + faults' + Both(proc'[p].pc)
    BY <1>1, <1>3, <1>6, <2>3
  <2>5. \A n \in From(f) : n \in From(f)' /\ Lines(n)' = Lines(n)
    <3>1. \A n \in From(f) : n \in DOMAIN dir /\ n # to
      BY <1>2, <2>2 DEF From, Rotated
    <3> QED
      BY <1>2, <1>7, <3>1
  <2> QED
    BY <1>1, <1>5, <2>4, <2>5 DEF Keeps
<1> QED
  BY <1>8, <1>9

\* What the pruning takes has backup_count newer files above it.
LEMMA KeepsPrune ==
  ASSUME NEW p \in Proc, Sole(p), KeepsAll(p), Prune(p)
  PROVE  KeepsAll(p)'
<1>1. /\ proc[p].pc = "prune" /\ proc'[p].pc = "open" /\ UNCHANGED <<files, rotations, faults>>
      /\ \A n \in DOMAIN dir' : dir'[n] = dir[n] /\ Lines(n)' = Lines(n)
      /\ DOMAIN dir' = IF BackupCount > 0 THEN DOMAIN dir \ PastBackups ELSE DOMAIN dir
      /\ ~Exists(Active)
  BY AlonePrune DEF Sole, Prune
<1>2. Both(proc'[p].pc) = 0 /\ Both(proc[p].pc) = 0
  BY <1>1 DEF Both
<1> SUFFICES ASSUME NEW k \in DOMAIN rotations
             PROVE  Keeps(p, k)'
  BY <1>1 DEF KeepsAll
<1>3. PICK f \in DOMAIN files :
         /\ Cardinality(From(f)) <= Len(rotations) - k + 1 + faults + Both(proc[p].pc)
         /\ \/ \E n \in From(f) : Lines(n) = rotations[k]
            \/ BackupCount > 0 /\ Len(rotations) - k >= BackupCount - faults
  BY DEF KeepsAll, Keeps
<1>4. From(f)' \subseteq From(f)
  BY <1>1 DEF From, Rotated
<1>5. /\ Cardinality(From(f)) \in Nat /\ IsFiniteSet(From(f)) /\ k \in Nat /\ f \in Nat
      /\ Len(rotations) \in Nat /\ faults \in Nat /\ BackupCount \in Nat
  <2>1. files \in Seq(File)
    BY DEF Sole, AInv, Disk
  <2>2. f \in Nat
    BY <2>1
  <2> QED
    BY <2>2, FromFinite, RotationOf, Numbers
<1>6. Cardinality(From(f)') \in Nat /\ Cardinality(From(f)') <= Cardinality(From(f))
  BY <1>4, <1>5, FS_Subset, FS_CardinalityType
<1>7. Cardinality(From(f)') <= Len(rotations') - k + 1 + faults' + Both(proc'[p].pc)
  BY <1>1, <1>2, <1>3, <1>5, <1>6
<1>8. ASSUME NEW n \in From(f), Lines(n) = rotations[k], n \in DOMAIN dir'
      PROVE  n \in From(f)' /\ Lines(n)' = rotations'[k]
  BY <1>1, <1>8 DEF From, Rotated
<1>9. ASSUME NEW n \in From(f), n \notin DOMAIN dir'
      PROVE  BackupCount > 0 /\ Len(rotations) - k >= BackupCount - faults
  <2>1. n \in Rotated /\ dir[n] >= f /\ dir[n] \in Nat /\ BackupCount > 0 /\ n \in PastBackups
    BY <1>1, <1>9, RotatedTyped DEF From, Rotated
  <2>2. /\ Newer(n) \subseteq Rotated /\ Cardinality(Newer(n)) >= BackupCount
    BY <2>1 DEF PastBackups, Newer
  <2>3. IsFiniteSet(Newer(n)) /\ Cardinality(Newer(n)) \in Nat
    BY <2>2, RotatedFinite
  <2>4. n \notin Newer(n)
    BY <2>1, NewerIs
  <2>5. Newer(n) \cup {n} \subseteq From(f)
    <3>1. ASSUME NEW m \in Newer(n)
          PROVE  m \in From(f)
      <4>1. m \in Rotated /\ dir[m] > dir[n] /\ dir[m] \in Nat
        BY <2>1, <2>2, NewerIs, RotatedTyped
      <4> QED
        BY <1>5, <2>1, <4>1 DEF From
    <3> QED
      BY <1>9, <3>1
  <2>6. Cardinality(Newer(n) \cup {n}) = Cardinality(Newer(n)) + 1
    BY <2>3, <2>4, FS_AddElement
  <2>7. Cardinality(Newer(n) \cup {n}) <= Cardinality(From(f))
    BY <1>5, <2>5, FS_Subset
  <2>8. BackupCount + 1 <= Len(rotations) - k + 1 + faults
    BY <1>2, <1>3, <1>5, <2>2, <2>3, <2>6, <2>7
  <2> QED
    BY <1>5, <2>1, <2>8
<1>10. \/ \E n \in From(f)' : Lines(n)' = rotations'[k]
       \/ BackupCount > 0 /\ Len(rotations') - k >= BackupCount - faults'
  <2>1. CASE \E n \in From(f) : Lines(n) = rotations[k]
    BY <1>1, <1>8, <1>9, <2>1
  <2>2. CASE BackupCount > 0 /\ Len(rotations) - k >= BackupCount - faults
    BY <1>1, <2>2
  <2> QED
    BY <1>3, <2>1, <2>2
<1> QED
  BY <1>1, <1>7, <1>10 DEF Keeps

LEMMA KeepsNext ==
  ASSUME NEW p, Proc = {p}, Sole(p), KeepsAll(p), [Next]_vars
  PROVE  KeepsAll(p)'
<1>1. p \in Proc /\ AInv /\ InOrder /\ Alone(p) /\ Disk
  BY DEF Sole, AInv
<1>2. ASSUME UNCHANGED <<dir, files, rotations>>,
             \/ faults' = faults /\ Both(proc'[p].pc) = Both(proc[p].pc)
             \/ faults' = faults + 1
      PROVE  KeepsAll(p)'
  <2>1. Rotated' = Rotated /\ \A n \in Rotated : dir'[n] = dir[n] /\ Lines(n)' = Lines(n)
    BY <1>2 DEF Rotated, Lines
  <2> QED
    BY <1>1, <1>2, <2>1, KeepsSame
<1>3. CASE LogInPlace(p) \/ LogRotating(p)
  <2>1. UNCHANGED <<dir, files, rotations, faults>> /\ proc[p].pc = "idle" /\ proc'[p].pc \in {"open", "name"}
    BY <1>1, <1>3, EnterSole
  <2> QED
    BY <1>2, <2>1 DEF Both
<1>4. CASE ChooseName(p)
  <2>1. UNCHANGED <<dir, files, rotations, faults>> /\ proc[p].pc = "name" /\ proc'[p].pc = "rename"
    BY <1>1, <1>4, ChooseStep DEF ChooseName
  <2> QED
    BY <1>2, <2>1 DEF Both
<1>5. CASE RenameFails(p)
  BY <1>1, <1>2, <1>5, RenameFailsSole
<1>6. CASE CompressFails(p)
  <2>1. proc[p].pc # "unlink"
    BY <1>6 DEF CompressFails
  <2> QED
    BY <1>1, <1>6, <2>1, KeepsAway
<1>7. CASE UnlinkFails(p) \/ PruneFails(p)
  <2>1. UNCHANGED <<dir, files, rotations>> /\ faults' = faults + 1
    <3>1. CASE UnlinkFails(p)
      <4>1. Exists(proc[p].to)
        BY <1>1, <3>1 DEF Alone, UnlinkFails
      <4> QED
        BY <3>1, <4>1 DEF UnlinkFails, Fault
    <3>2. CASE PruneFails(p)
      BY <3>2 DEF PruneFails, Fault
    <3> QED
      BY <1>7, <3>1, <3>2
  <2> QED
    BY <1>2, <2>1
<1>8. CASE Stops(p)
  BY <1>1, <1>2, <1>8, StopsSole
<1>9. CASE Tick \/ UNCHANGED vars
  <2>1. UNCHANGED <<dir, files, rotations, faults, proc>>
    BY <1>9 DEF Tick, vars
  <2> QED
    BY <1>2, <2>1
<1>10. CASE Open(p)
  <2>1. /\ DOMAIN dir' = DOMAIN dir \cup {Active}
        /\ \A n \in DOMAIN dir : dir'[n] = dir[n] /\ Lines(n)' = Lines(n)
        /\ proc[p].pc = "open" /\ proc'[p].pc = "write" /\ UNCHANGED <<rotations, faults>>
    BY <1>1, <1>10, AloneOpen, OpenSole
  <2>2. DOMAIN files \subseteq DOMAIN files'
    <3>1. CASE Exists(Active)
      BY <1>10, <3>1 DEF Open
    <3>2. CASE ~Exists(Active)
      <4>1. files' = NewFile /\ Stamp \in Nat /\ files \in Seq(File)
        BY <1>1, <1>10, <3>2, StampNewer DEF Open, Disk
      <4>2. [lines |-> << >>, touched |-> Stamp] \in File
        BY <4>1 DEF File
      <4> QED
        BY <4>1, <4>2, AppendKeeps DEF NewFile
    <3> QED
      BY <3>1, <3>2
  <2>3. Rotated' = Rotated /\ \A n \in Rotated : dir'[n] = dir[n] /\ Lines(n)' = Lines(n)
    BY <2>1 DEF Rotated
  <2>4. Both(proc'[p].pc) = Both(proc[p].pc)
    BY <2>1 DEF Both
  <2> QED
    BY <1>1, <2>1, <2>2, <2>3, <2>4, KeepsSame
<1>11. CASE Write(p)
  <2>1. /\ UNCHANGED <<dir, rotations, faults>> /\ proc[p].pc = "write" /\ proc'[p].pc = "idle"
        /\ DOMAIN files' = DOMAIN files
    BY <1>1, <1>11, WriteSole DEF Write
  <2>2. Rotated' = Rotated /\ \A n \in Rotated : dir'[n] = dir[n] /\ Lines(n)' = Lines(n)
    BY <1>1, <1>11, <2>1, AloneWrite
  <2>3. Both(proc'[p].pc) = Both(proc[p].pc)
    BY <2>1 DEF Both
  <2> QED
    BY <1>1, <2>1, <2>2, <2>3, KeepsSame
<1> QED
  BY <1>1, <1>3, <1>4, <1>5, <1>6, <1>7, <1>8, <1>9, <1>10, <1>11, Steps, KeepsRename, KeepsGzip,
     KeepsCopy, KeepsUnlink, KeepsPrune DEF Quiet, Ends

LEMMA HonouredBy ==
  ASSUME NEW p \in Proc, Sole(p), Somewhere, KeepsAll(p)
  PROVE  RetentionHonoured
<1> SUFFICES ASSUME NEW l \in written, ~Held(l)
             PROVE  /\ BackupCount > 0
                    /\ \E k \in DOMAIN rotations :
                          /\ \E i \in DOMAIN rotations[k] : rotations[k][i] = l
                          /\ Len(rotations) - k >= BackupCount - faults
  BY DEF RetentionHonoured
<1>1. ~\E i \in DOMAIN ActiveLines : ActiveLines[i] = l
  <2>1. ASSUME NEW i \in DOMAIN ActiveLines, ActiveLines[i] = l
        PROVE  FALSE
    <3>1. Exists(Active) /\ ActiveLines = Lines(Active)
      BY <2>1 DEF ActiveLines
    <3> QED
      BY <2>1, <3>1 DEF Held, Exists
  <2> QED
    BY <2>1
<1>2. PICK k \in DOMAIN rotations : \E i \in DOMAIN rotations[k] : rotations[k][i] = l
  BY <1>1 DEF Somewhere
<1>3. ~\E n \in Rotated : Lines(n) = rotations[k]
  BY <1>2 DEF Held, Rotated
<1>4. BackupCount > 0 /\ Len(rotations) - k >= BackupCount - faults
  BY <1>3 DEF KeepsAll, Keeps, From
<1> QED
  BY <1>2, <1>4

-----------------------------------------------------------------------------

\* The invariant of one process on the file.
SoleInv(p) == Sole(p) /\ SizeInv(p) /\ PeriodInv(p) /\ BackupInv(p) /\ Somewhere /\ KeepsAll(p)

LEMMA SoleInvInit ==
  ASSUME NEW p \in Proc, Init
  PROVE  SoleInv(p)
<1>1. /\ DOMAIN dir = {} /\ files = << >> /\ rotations = << >> /\ proc[p].pc = "idle"
      /\ faults = 0 /\ now = 0 /\ next[p] = NextBoundary(0) /\ written = {} /\ lines = << >>
  BY IdleTyped DEF Init
<1>2. Sole(p)
  BY SoleInit
<1>3. ActiveLines = << >> /\ Rotated = {} /\ MixedSet(rotations, lines) = {}
  BY <1>1 DEF ActiveLines, Exists, Rotated, MixedSet
<1>4. SizeInv(p)
  BY <1>1, <1>3, RotationAssumption DEF SizeInv
<1>5. PeriodInv(p)
  <2>1. ASSUME DayTicks > 0
        PROVE  Turn(p) = 0 /\ 0 \div DayTicks = 0
    <3>1. DayTicks \in Nat
      BY RotationAssumption
    <3>2. 0 \div DayTicks = 0
      BY <2>1, <3>1
    <3>3. NextBoundary(0) \div DayTicks = 0 \div DayTicks + 1
      BY <2>1, <3>1, NextIs
    <3> QED
      BY <1>1, <3>2, <3>3 DEF Turn
  <2>2. Cardinality({}) = 0
    BY FS_EmptySet
  <2>3. \A turn : ~Off(ActiveLines, lines, turn)
    BY <1>3 DEF Off
  <2> QED
    <3>1. DayTicks > 0 => Calendar(p)
      BY <1>1, <2>1 DEF Calendar
    <3>2. Counted(p)
      <4>1. Cardinality(MixedSet(rotations, lines)) = 0
        BY <1>3, <2>2
      <4>2. ~Off(ActiveLines, lines, Turn(p)) /\ faults = 0
        BY <1>1, <2>3
      <4> QED
        BY <4>1, <4>2 DEF Counted
    <3> QED
      BY <3>1, <3>2 DEF PeriodInv
<1>6. BackupInv(p)
  <2>1. Cardinality(Rotated) = 0
    BY <1>3, FS_EmptySet
  <2> QED
    BY <1>1, <2>1, RotationAssumption DEF BackupInv, Extra
<1>7. Somewhere /\ KeepsAll(p)
  BY <1>1 DEF Somewhere, KeepsAll
<1> QED
  BY <1>2, <1>4, <1>5, <1>6, <1>7 DEF SoleInv

LEMMA SoleInvNext ==
  ASSUME NEW p, Proc = {p}, SoleInv(p), [Next]_vars
  PROVE  SoleInv(p)'
BY SoleNext, SizeNext, PeriodNext, BackupNext, SomewhereNext, KeepsNext DEF SoleInv

\* With one process on the file, a line that log() has written stays readable until
\* backup_count rotations have followed its own, less one for each crash or failed
\* operation, whichever of the steps of _do_rotate, _gzip_in_place and
\* _prune_old_backups they fall between.
THEOREM RetentionIsHonoured ==
  ASSUME NEW p, Proc = {p}
  PROVE  Spec => []RetentionHonoured
<1>1. Init => SoleInv(p)
  BY SoleInvInit
<1>2. SoleInv(p) /\ [Next]_vars => SoleInv(p)'
  BY SoleInvNext
<1>3. SoleInv(p) => RetentionHonoured
  BY HonouredBy DEF SoleInv
<1> QED
  BY <1>1, <1>2, <1>3, PTL DEF Spec

\* With one process on the file, rotation and pruning keep up: the active file stays
\* within max_bytes, a file holds the lines of one period and pruning leaves no more than
\* backup_count files, but for what crashes and failed operations leave behind.
THEOREM RotationDoesKeepUp ==
  ASSUME NEW p, Proc = {p}
  PROVE  Spec => []RotationKeepsUp
<1>1. Init => SoleInv(p)
  BY SoleInvInit
<1>2. SoleInv(p) /\ [Next]_vars => SoleInv(p)'
  BY SoleInvNext
<1>3. SoleInv(p) => RotationKeepsUp
  <2> SUFFICES ASSUME SoleInv(p) PROVE RotationKeepsUp
    OBVIOUS
  <2>1. faults \in Nat /\ MaxBytes \in Nat /\ Len(ActiveLines) \in Nat /\ BackupCount \in Nat
    BY Numbers DEF SoleInv
  <2>2. SizeKept
    BY <2>1 DEF SoleInv, SizeInv, SizeKept
  <2>3. PeriodKept
    BY PeriodKeptBy DEF SoleInv
  <2>4. BackupsKept
    <3>1. Cardinality(Rotated) \in Nat
      BY RotatedFinite DEF SoleInv
    <3>2. proc[p].pc = "idle" => Extra(proc[p].pc) = 0
      BY DEF Extra
    <3> QED
      BY <2>1, <3>1, <3>2 DEF SoleInv, BackupInv, BackupsKept
  <2> QED
    BY <2>2, <2>3, <2>4 DEF RotationKeepsUp
<1> QED
  BY <1>1, <1>2, <1>3, PTL DEF Spec
====
