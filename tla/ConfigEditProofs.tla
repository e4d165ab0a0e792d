--------------------------- MODULE ConfigEditProofs ---------------------------
(***************************************************************************)
(* Proofs about ConfigEdit, with the daemon and the editor of JobSync      *)
(* beside it: what the commands make of the names and the entries of a     *)
(* text, for every text; that only a raced add can bring a name in twice;  *)
(* and what one command at a time leaves in the file and in its backup.    *)
(***************************************************************************)
EXTENDS JobSync, TLAPS, SequenceTheorems

\* A text with other entries: what there is to show of them.
LEMMA OtherJobs ==
    ASSUME NEW t, IsText(t), NEW S, NEW js \in Seq(S),
           \A i \in DOMAIN js : IsEntry(js[i]),
           \A i, k \in DOMAIN js : js[i].name = js[k].name => i = k
    PROVE  Distinct([t EXCEPT !.jobs = js])
<1> DEFINE u == [t EXCEPT !.jobs = js]
<1>1. u = [form |-> t.form, version |-> t.version, defaults |-> t.defaults,
           declared |-> t.declared, jobs |-> js, comments |-> t.comments]
  BY DEF IsText
<1>2. js \in Seq({js[i] : i \in DOMAIN js})
  OBVIOUS
<1> QED
  BY <1>1, <1>2 DEF Distinct, IsText, UniqueNames

LEMMA WrittenDistinct ==
    ASSUME NEW t, Distinct(t)
    PROVE  Distinct(Written(t))
<1> DEFINE js == [i \in DOMAIN t.jobs |-> [t.jobs[i] EXCEPT !.layer = Rendered(@)]]
<1>1. \A i \in DOMAIN t.jobs :
         js[i] = Entry(t.jobs[i].name, t.jobs[i].schedule, Rendered(t.jobs[i].layer))
  BY DEF Distinct, IsText, IsEntry, Entry
<1>2. Len(t.jobs) \in Nat /\ DOMAIN t.jobs = 1 .. Len(t.jobs)
  BY DEF Distinct, IsText
<1>4. \A i \in DOMAIN js : IsEntry(js[i]) /\ js[i].name = t.jobs[i].name
  BY <1>1 DEF IsEntry, Entry
<1> HIDE DEF js
<1>5. Written(t) = [form |-> "toml", version |-> t.version, defaults |-> Rendered(t.defaults),
                    declared |-> t.declared, jobs |-> js, comments |-> FALSE]
  BY DEF Written, Text, js
<1>6. DOMAIN js = DOMAIN t.jobs
  BY DEF js
<1>3. js \in Seq({js[i] : i \in DOMAIN js})
  <2>1. js \in [1 .. Len(t.jobs) -> {js[i] : i \in DOMAIN js}]
    BY <1>2 DEF js
  <2> QED
    BY <1>2, <2>1, SeqDef
<1>7. UniqueNames(Written(t))
  <2>1. Written(t).jobs = js
    BY <1>5
  <2> QED
    BY <1>4, <1>6, <2>1 DEF Distinct, UniqueNames
<1>8. IsText(Written(t))
  BY <1>3, <1>4, <1>5 DEF IsText
<1> QED
  BY <1>7, <1>8 DEF Distinct

\* What add appends has a new name.
LEMMA AppendedDistinct ==
    ASSUME NEW t, Distinct(t), NEW e, IsEntry(e), e.name \notin NamesIn(t)
    PROVE  Distinct(Appended(t, e))
<1> DEFINE new == Entry(e.name, e.schedule, Rendered(e.layer))
           js == Append(t.jobs, new)
           S == {t.jobs[i] : i \in DOMAIN t.jobs} \cup {new}
<1>1. Appended(t, e) = [t EXCEPT !.jobs = js]
  <2>1. [e EXCEPT !.layer = Rendered(@)] = new
    BY DEF IsEntry, Entry
  <2> QED
    BY <2>1 DEF Appended
<1>2. t.jobs \in Seq(S) /\ Len(t.jobs) \in Nat /\ DOMAIN t.jobs = 1 .. Len(t.jobs)
  BY SeqMonotonic DEF Distinct, IsText
<1>3. js \in Seq(S) /\ DOMAIN js = 1 .. Len(t.jobs) + 1
  BY <1>2
<1>4. \A i \in DOMAIN js : js[i] = IF i \in DOMAIN t.jobs THEN t.jobs[i] ELSE new
  BY <1>2
<1>5. IsEntry(new) /\ new.name = e.name
  BY DEF IsEntry, Entry
<1> HIDE DEF js, new, S
<1>6. \A i \in DOMAIN js : IsEntry(js[i])
  BY <1>4, <1>5 DEF Distinct, IsText
<1>7. \A i, k \in DOMAIN js : js[i].name = js[k].name => i = k
  BY <1>2, <1>3, <1>4, <1>5 DEF Distinct, UniqueNames, NamesIn
<1> QED
  BY <1>1, <1>3, <1>6, <1>7, OtherJobs DEF Distinct

\* A name has one place in a text, so the first is that one.
LEMMA FirstIsPlace ==
    ASSUME NEW t, Distinct(t), NEW name \in NamesIn(t)
    PROVE  First(t, name) \in DOMAIN t.jobs /\ t.jobs[First(t, name)].name = name
<1>1. PICK i \in DOMAIN t.jobs : t.jobs[i].name = name
  BY DEF NamesIn
<1>2. i \in Nat /\ \A k \in Positions(t, name) : k = i
  BY <1>1 DEF Distinct, IsText, UniqueNames, Positions
<1>3. i \in Positions(t, name) /\ \A k \in Positions(t, name) : i <= k
  BY <1>1, <1>2 DEF Positions
<1>4. First(t, name) \in Positions(t, name)
  BY <1>3 DEF First
<1> QED
  BY <1>4 DEF Positions

\* What remove leaves: every entry but the first of the name, in its order.
LEMMA WithoutJobs ==
    ASSUME NEW t, Distinct(t), NEW name \in NamesIn(t)
    PROVE  \E js \in Seq({t.jobs[i] : i \in DOMAIN t.jobs}) :
              /\ Without(t, name) = [t EXCEPT !.jobs = js]
              /\ DOMAIN js = 1 .. Len(t.jobs) - 1
              /\ \A i \in DOMAIN js :
                    js[i] = t.jobs[IF i < First(t, name) THEN i ELSE i + 1]
<1> DEFINE k == First(t, name)
           S == {t.jobs[i] : i \in DOMAIN t.jobs}
           n == Len(t.jobs)
           js == SubSeq(t.jobs, 1, k - 1) \o SubSeq(t.jobs, k + 1, n)
<1>1. t.jobs \in Seq(S) /\ n \in Nat /\ DOMAIN t.jobs = 1 .. n /\ k \in 1 .. n
  BY FirstIsPlace DEF Distinct, IsText
<1>2. Without(t, name) = [t EXCEPT !.jobs = js]
  BY DEF Without
<1> HIDE DEF S, k, n
<1> DEFINE a == SubSeq(t.jobs, 1, k - 1)
           b == SubSeq(t.jobs, k + 1, n)
<1>3. a \in Seq(S) /\ Len(a) = k - 1 /\ \A i \in 1 .. k - 1 : a[i] = t.jobs[i]
  BY <1>1
<1>4. b \in Seq(S) /\ Len(b) = n - k /\ \A i \in 1 .. n - k : b[i] = t.jobs[i + k]
  BY <1>1
<1>5. js = a \o b
  BY DEF js
<1> HIDE DEF a, b, js
<1>6. js \in Seq(S) /\ DOMAIN js = 1 .. n - 1
  <2>1. js \in Seq(S) /\ Len(js) = Len(a) + Len(b)
    BY <1>3, <1>4, <1>5, ConcatProperties
  <2>2. DOMAIN js = 1 .. Len(js)
    BY <2>1, LenProperties
  <2>3. Len(a) + Len(b) = n - 1
    BY <1>1, <1>3, <1>4
  <2> QED
    BY <2>1, <2>2, <2>3
<1>7. ASSUME NEW i \in 1 .. n - 1
      PROVE  js[i] = t.jobs[IF i < k THEN i ELSE i + 1]
  <2>1. CASE i < k
    <3>1. js[i] = a[i]
      BY <1>1, <1>3, <1>4, <1>5, <2>1
    <3> QED
      BY <1>1, <1>3, <2>1, <3>1
  <2>2. CASE ~ (i < k)
    <3>1. js[i] = b[i - (k - 1)]
      BY <1>1, <1>3, <1>4, <1>5, <2>2
    <3>2. i - (k - 1) \in 1 .. n - k /\ (i - (k - 1)) + k = i + 1
      BY <1>1, <2>2
    <3>3. b[i - (k - 1)] = t.jobs[i + 1]
      BY <1>4, <3>2
    <3> QED
      BY <1>1, <2>2, <3>1, <3>3
  <2> QED
    BY <2>1, <2>2
<1> QED
  BY <1>2, <1>6, <1>7 DEF S, k, n

LEMMA WithoutDistinct ==
    ASSUME NEW t, Distinct(t), NEW name \in NamesIn(t)
    PROVE  Distinct(Without(t, name))
<1> DEFINE k == First(t, name)
           S == {t.jobs[i] : i \in DOMAIN t.jobs}
           n == Len(t.jobs)
<1>1. t.jobs \in Seq(S) /\ n \in Nat /\ DOMAIN t.jobs = 1 .. n /\ k \in 1 .. n
  BY FirstIsPlace DEF Distinct, IsText
<1>2. PICK js \in Seq(S) :
         /\ Without(t, name) = [t EXCEPT !.jobs = js]
         /\ DOMAIN js = 1 .. n - 1
         /\ \A i \in DOMAIN js : js[i] = t.jobs[IF i < k THEN i ELSE i + 1]
  BY WithoutJobs
<1> HIDE DEF S, k, n
<1>3. ASSUME NEW i \in 1 .. n - 1
      PROVE  \E m \in 1 .. n :
                m # k /\ m = (IF i < k THEN i ELSE i + 1) /\ js[i] = t.jobs[m]
  <2>1. (IF i < k THEN i ELSE i + 1) \in (1 .. n) \ {k}
    BY <1>1
  <2> QED
    BY <1>2, <2>1
<1>4. \A i \in DOMAIN js : IsEntry(js[i])
  BY <1>1, <1>2, <1>3 DEF Distinct, IsText
<1>5. \A i, m \in DOMAIN js : js[i].name = js[m].name => i = m
  <2> SUFFICES ASSUME NEW i \in 1 .. n - 1, NEW m \in 1 .. n - 1, js[i].name = js[m].name
               PROVE  i = m
    BY <1>2
  <2>1. PICK x \in 1 .. n : x = (IF i < k THEN i ELSE i + 1) /\ js[i] = t.jobs[x]
    BY <1>3
  <2>2. PICK y \in 1 .. n : y = (IF m < k THEN m ELSE m + 1) /\ js[m] = t.jobs[y]
    BY <1>3
  <2>3. x = y
    BY <1>1, <2>1, <2>2 DEF Distinct, UniqueNames
  <2> QED
    BY <1>1, <2>1, <2>2, <2>3
<1>6. IsText(t) /\ Without(t, name) = [t EXCEPT !.jobs = js]
  BY <1>2 DEF Distinct
<1> QED
  BY <1>4, <1>5, <1>6, OtherJobs

LEMMA UpdatedDistinct ==
    ASSUME NEW t, Distinct(t), NEW name \in NamesIn(t), NEW s, NEW l
    PROVE  Distinct(Updated(t, name, s, l))
<1> DEFINE k == First(t, name)
           old == t.jobs[k]
           e == Entry(name, IF s = {} THEN old.schedule ELSE CHOOSE x \in s : TRUE,
                      Layer(Overlay(old.layer.policy, l.policy),
                            Overlay(old.layer.notify, l.notify)))
           js == [t.jobs EXCEPT ![k] = e]
           S == {t.jobs[i] : i \in DOMAIN t.jobs} \cup {e}
<1>1. t.jobs \in Seq(S) /\ k \in DOMAIN t.jobs /\ old.name = name
  BY FirstIsPlace, SeqMonotonic DEF Distinct, IsText
<1>2. Updated(t, name, s, l) = [t EXCEPT !.jobs = js]
  BY DEF Updated
<1>3. IsEntry(e) /\ e.name = name
  BY DEF IsEntry, Entry
<1>4. e \in S
  OBVIOUS
<1> HIDE DEF S, k, e
<1>5. js \in Seq(S) /\ DOMAIN js = DOMAIN t.jobs
  BY <1>1, <1>4
<1>6. \A i \in DOMAIN js : js[i] = IF i = k THEN e ELSE t.jobs[i]
  BY <1>1, <1>5
<1> HIDE DEF js
<1>7. \A i \in DOMAIN js : IsEntry(js[i]) /\ js[i].name = t.jobs[i].name
  BY <1>1, <1>3, <1>5, <1>6 DEF Distinct, IsText
<1>8. \A i, m \in DOMAIN js : js[i].name = js[m].name => i = m
  BY <1>5, <1>7 DEF Distinct, UniqueNames
<1>9. IsText(t)
  BY DEF Distinct
<1> QED
  BY <1>2, <1>5, <1>7, <1>8, <1>9, OtherJobs

LEMMA OtherForm ==
    ASSUME NEW t, IsText(t), NEW f
    PROVE  [t EXCEPT !.form = f] =
              [form |-> f, version |-> t.version, defaults |-> t.defaults,
               declared |-> t.declared, jobs |-> t.jobs, comments |-> t.comments]
BY DEF IsText

LEMMA EmptyDistinct == Distinct(EmptyText) /\ Distinct(Garbled)
<1>1. EmptyText = [form |-> "toml", version |-> FALSE, defaults |-> NoLayer, declared |-> {},
                   jobs |-> <<>>, comments |-> FALSE]
  BY DEF EmptyText, Text
<1>2. <<>> \in Seq({<<>>[i] : i \in DOMAIN <<>>}) /\ DOMAIN <<>> = {}
  BY EmptySeq
<1>3. IsText(EmptyText) /\ UniqueNames(EmptyText) /\ EmptyText.jobs = <<>>
  BY <1>1, <1>2 DEF IsText, UniqueNames
<1>4. Garbled = [form |-> "garbled", version |-> EmptyText.version,
                 defaults |-> EmptyText.defaults, declared |-> EmptyText.declared,
                 jobs |-> EmptyText.jobs, comments |-> EmptyText.comments]
  BY <1>3, OtherForm DEF Garbled
<1>5. IsText(Garbled) /\ UniqueNames(Garbled)
  BY <1>2, <1>3, <1>4 DEF IsText, UniqueNames
<1> QED
  BY <1>3, <1>5 DEF Distinct

\* A file cut short has fewer names, none of them twice.
LEMMA CutDistinct ==
    ASSUME NEW t, Distinct(t), NEW u \in Cuts(t)
    PROVE  Distinct(u)
<1>1. Distinct(EmptyText) /\ Distinct(Garbled)
  BY EmptyDistinct
<1>2. ASSUME NEW k \in DOMAIN t.jobs, u \in CutAt(t, k) PROVE Distinct(u)
  <2> DEFINE old == t.jobs[k]
             S == {t.jobs[i] : i \in DOMAIN t.jobs}
             a == SubSeq(t.jobs, 1, k - 1)
  <2>1. PICK e \in {old, [old EXCEPT !.layer = NoLayer], Entry(old.name, NoSchedule, NoLayer)} :
           u = [t EXCEPT !.jobs = Append(a, e)]
    BY <1>2 DEF CutAt
  <2>2. IsEntry(old)
    BY DEF Distinct, IsText
  <2>3. IsEntry(e) /\ e.name = old.name
    BY <2>2 DEF IsEntry, Entry
  <2>4. t.jobs \in Seq(S) /\ Len(t.jobs) \in Nat /\ DOMAIN t.jobs = 1 .. Len(t.jobs)
    BY DEF Distinct, IsText
  <2> HIDE DEF S, old
  <2>5. a \in Seq(S) /\ Len(a) = k - 1 /\ \A i \in 1 .. k - 1 : a[i] = t.jobs[i]
    BY <2>4
  <2> DEFINE js == Append(a, e)
  <2> HIDE DEF a
  <2>6. a \in Seq(S \cup {e})
    BY <2>5, SeqMonotonic
  <2>7. /\ js \in Seq(S \cup {e}) /\ DOMAIN js = 1 .. k
        /\ \A i \in 1 .. k : js[i] = IF i < k THEN a[i] ELSE e
    BY <2>4, <2>5, <2>6
  <2> HIDE DEF js
  <2>8. ASSUME NEW i \in 1 .. k PROVE IsEntry(js[i]) /\ js[i].name = t.jobs[i].name
    <3>1. CASE i < k
      <4>1. i \in 1 .. k - 1 /\ i \in DOMAIN t.jobs
        BY <2>4, <3>1
      <4> QED
        BY <2>5, <2>7, <3>1, <4>1 DEF Distinct, IsText
    <3>2. CASE ~ (i < k)
      <4>1. i = k
        BY <2>4, <3>2
      <4> QED
        BY <2>3, <2>7, <4>1 DEF old
    <3> QED
      BY <3>1, <3>2
  <2>9. \A i, m \in DOMAIN js : js[i].name = js[m].name => i = m
    BY <2>4, <2>7, <2>8 DEF Distinct, UniqueNames
  <2>10. u = [t EXCEPT !.jobs = js] /\ IsText(t) /\ \A i \in DOMAIN js : IsEntry(js[i])
    BY <2>1, <2>7, <2>8 DEF Distinct, js
  <2> QED
    BY <2>7, <2>9, <2>10, OtherJobs
<1> DEFINE parts == UNION {CutAt(t, k) : k \in DOMAIN t.jobs}
<1>3. CASE u \in parts
  <2>1. PICK S \in {CutAt(t, k) : k \in DOMAIN t.jobs} : u \in S
    BY <1>3
  <2> QED
    BY <1>2, <2>1
<1>4. CASE u \in {EmptyText, Garbled}
  BY <1>1, <1>4
<1>5. Cuts(t) = {EmptyText, Garbled} \cup parts
  BY DEF Cuts
<1> HIDE DEF parts
<1> QED
  BY <1>3, <1>4, <1>5

\* What is written over another text is that text, or it does not parse.
LEMMA OverDistinct ==
    ASSUME NEW t, Distinct(t), NEW old, NEW u \in Over(t, old)
    PROVE  Distinct(u)
<1>1. Distinct(Garbled)
  BY EmptyDistinct
<1> QED
  BY <1>1 DEF Over

-----------------------------------------------------------------------------
LEMMA CrewFixed ==
    ASSUME NEW p, EditorStep(p)
    PROVE  crew' = crew
BY DEF EditorStep, Start, StatFree, AddExists, AddRead, Decode, Refused, BackupRead,
       BackupTruncate, BackupWrite, Truncate, WritePart, Write, Kill, Goto, Finish

IsFun(f) == f = [p \in Editor |-> f[p]]

ShapeInv ==
    /\ crew \in DOMAIN Scenes
    /\ IsFun(pc) /\ IsFun(cmd) /\ IsFun(buf) /\ IsFun(copy)

\* Which command is at which of its steps.
CommandInv ==
    \A p \in Editor :
        /\ pc[p] \in {"exists", "read"} => cmd[p].kind = "add"
        /\ pc[p] = "stat" => cmd[p].kind = "create"
        /\ pc[p] \in {"decode", "copy", "clearBak", "writeBak"} =>
              cmd[p].kind \in {"remove", "edit"}

\* Until an add has been raced, no text at hand has a name twice, and one that
\* is about to read the file has not found its name in it.
NamesInv ==
    "add" \notin misled =>
        /\ Distinct(file)
        /\ \A p \in Editor :
              /\ Distinct(buf[p])
              /\ pc[p] = "read" => cmd[p].name \notin NamesIn(copy[p])

EditInv == ShapeInv /\ CommandInv /\ NamesInv

LEMMA InitEditInv == Init => EditInv
<1> SUFFICES ASSUME Init PROVE EditInv
  OBVIOUS
<1>1. ShapeInv
  BY DEF Init, ShapeInv, IsFun
<1>2. CommandInv
  BY DEF Init, CommandInv
<1>3. NamesInv
  BY ScenesAssumption, EmptyDistinct DEF Init, NamesInv
<1> QED
  BY <1>1, <1>2, <1>3 DEF EditInv

\* Every step of a command keeps the shapes and the command's place.
LEMMA NextShape ==
    ASSUME EditInv, NEW p \in crew \cap Editor, EditorStep(p)
    PROVE  ShapeInv' /\ CommandInv'
<1> USE DEF EditInv, ShapeInv, CommandInv, IsFun, Goto, Finish
<1>1. ASSUME NEW c \in Scenes[crew].commands, Start(p, c) PROVE ShapeInv' /\ CommandInv'
  BY <1>1, ScenesAssumption DEF Start, Kinds
<1>2. CASE StatFree(p)
  BY <1>2 DEF StatFree
<1>3. CASE AddExists(p)
  BY <1>3 DEF AddExists
<1>4. CASE AddRead(p)
  BY <1>4 DEF AddRead
<1>5. CASE Decode(p)
  BY <1>5 DEF Decode
<1>6. CASE Refused(p)
  BY <1>6 DEF Refused
<1>7. CASE BackupRead(p)
  BY <1>7 DEF BackupRead
<1>8. CASE BackupTruncate(p)
  BY <1>8 DEF BackupTruncate
<1>9. CASE BackupWrite(p)
  BY <1>9 DEF BackupWrite
<1>10. CASE Truncate(p)
  BY <1>10 DEF Truncate
<1>11. CASE WritePart(p)
  BY <1>11 DEF WritePart
<1>12. CASE Write(p)
  BY <1>12 DEF Write
<1>13. CASE Kill(p)
  BY <1>13 DEF Kill
<1> QED
  BY <1>1, <1>2, <1>3, <1>4, <1>5, <1>6, <1>7, <1>8, <1>9, <1>10, <1>11, <1>12, <1>13
     DEF EditorStep

\* A command that does not raise misled has only texts without a name twice in
\* hand.
LEMMA NextNames ==
    ASSUME EditInv, NEW p \in crew \cap Editor, EditorStep(p)
    PROVE  NamesInv'
<1> SUFFICES ASSUME "add" \notin misled'
             PROVE  /\ Distinct(file')
                    /\ \A q \in Editor :
                          /\ Distinct(buf'[q])
                          /\ pc'[q] = "read" => cmd'[q].name \notin NamesIn(copy'[q])
  BY DEF NamesInv
<1> USE DEF EditInv, ShapeInv, CommandInv, IsFun, Goto, Finish, history
<1>1. "add" \notin misled
  BY DEF EditorStep, Start, StatFree, AddExists, AddRead, Decode, Refused, BackupRead,
         BackupTruncate, BackupWrite, Truncate, WritePart, Write, Kill
<1>2. /\ Distinct(file)
      /\ \A q \in Editor :
            /\ Distinct(buf[q])
            /\ pc[q] = "read" => cmd[q].name \notin NamesIn(copy[q])
  BY <1>1 DEF NamesInv
<1>3. Distinct(EmptyText) /\ Distinct(Garbled)
  BY EmptyDistinct
<1>4. ASSUME NEW c \in Scenes[crew].commands, Start(p, c) PROVE NamesInv'
  BY <1>2, <1>3, <1>4, ScenesAssumption DEF Start, Kinds, NamesInv
<1>5. CASE StatFree(p)
  BY <1>2, <1>5 DEF StatFree
<1>6. CASE AddExists(p)
  BY <1>2, <1>6 DEF AddExists, Refuses
<1>7. CASE AddRead(p)
  <2>1. file = copy[p] /\ cmd[p].name \notin NamesIn(file)
    BY <1>2, <1>7 DEF AddRead
  <2>2. PICK s \in cmd[p].schedule :
           buf' = [buf EXCEPT ![p] = Appended(file, Entry(cmd[p].name, s, cmd[p].layer))]
    BY <1>7 DEF AddRead
  <2>3. IsEntry(Entry(cmd[p].name, s, cmd[p].layer))
        /\ Entry(cmd[p].name, s, cmd[p].layer).name = cmd[p].name
    BY DEF IsEntry, Entry
  <2>4. Distinct(Appended(file, Entry(cmd[p].name, s, cmd[p].layer)))
    BY <1>2, <2>1, <2>3, AppendedDistinct
  <2> QED
    BY <1>2, <1>7, <2>2, <2>4 DEF AddRead
<1>8. CASE Decode(p)
  <2>1. cmd[p].kind \in {"remove", "edit"} /\ cmd[p].name \in NamesIn(file)
    BY <1>8 DEF Decode, Refuses
  <2>2. Distinct(Changed(file, cmd[p]))
    BY <1>2, <2>1, WithoutDistinct, UpdatedDistinct DEF Changed
  <2>3. Distinct(Written(Changed(file, cmd[p])))
    BY <2>2, WrittenDistinct
  <2> QED
    BY <1>2, <1>8, <2>3 DEF Decode
<1>9. CASE Refused(p)
  BY <1>2, <1>3, <1>9 DEF Refused
<1>10. CASE BackupRead(p)
  BY <1>2, <1>10 DEF BackupRead
<1>11. CASE BackupTruncate(p)
  BY <1>2, <1>11 DEF BackupTruncate
<1>12. CASE BackupWrite(p)
  BY <1>2, <1>12 DEF BackupWrite
<1>13. CASE Truncate(p)
  BY <1>2, <1>3, <1>13 DEF Truncate
<1>14. CASE WritePart(p)
  BY <1>2, <1>3, <1>14, CutDistinct DEF WritePart
<1>15. CASE Write(p)
  BY <1>2, <1>3, <1>15, OverDistinct DEF Write
<1>16. CASE Kill(p)
  BY <1>2, <1>3, <1>16 DEF Kill
<1> QED
  BY <1>4, <1>5, <1>6, <1>7, <1>8, <1>9, <1>10, <1>11, <1>12, <1>13, <1>14,
     <1>15, <1>16 DEF NamesInv, EditorStep

\* The daemon leaves the file alone, and the editor puts a text without a name
\* twice there.
LEMMA NextEditInv == EditInv /\ [SyncNext]_syncVars => EditInv'
<1> SUFFICES ASSUME EditInv, [SyncNext]_syncVars PROVE EditInv'
  OBVIOUS
<1>1. CASE Next
  BY <1>1, NextShape, NextNames DEF Next, EditInv
<1>2. CASE EditConfig
  BY <1>2, ScenesAssumption
     DEF EditConfig, EditInv, ShapeInv, CommandInv, NamesInv, IsFun
<1>3. CASE UNCHANGED vars
  BY <1>3 DEF vars, history, EditInv, ShapeInv, CommandInv, NamesInv, IsFun
<1> QED
  BY <1>1, <1>2, <1>3
     DEF SyncNext, syncVars, StartDaemon, SavedAll, LoadJobs, GoDown, SaveJob

\* README:143-144: whatever commands run at once, are killed, or cut the file
\* short, and whatever the editor does, the file gets a name twice only when an
\* add appends to a text other than the one it has checked.
THEOREM SpecNamesUnlessRaced == SyncSpec => []NamesUnlessRaced
<1>1. SyncInit => EditInv
  BY InitEditInv DEF SyncInit
<1>2. EditInv => NamesUnlessRaced
  BY DEF EditInv, NamesInv, NamesUnlessRaced, Distinct
<1> QED
  BY <1>1, <1>2, NextEditInv, PTL DEF SyncSpec

-----------------------------------------------------------------------------
\* A command alone with the file: nothing comes between what add has read and
\* what it writes, and only an interrupted write leaves another text behind.
AloneInv ==
    \A p \in Editor : Alone(p) =>
        /\ "add" \notin misled
        /\ Distinct(intact)
        /\ pc[p] = "read" => copy[p] = file
        /\ torn = {} /\ pc[p] # "write" => file = intact
        /\ torn = {} /\ cmd[p].kind = "add" =>
              /\ pc[p] = "write" => file = EmptyText
              /\ pc[p] \in {"truncate", "write"} =>
                    \E e : IsEntry(e) /\ buf[p] = Appended(intact, e)

\* Where p is alone with the file, only p takes steps.
LEMMA NextIsAlone ==
    ASSUME Next, NEW p \in Editor, Alone(p)'
    PROVE  p \in crew \cap Editor /\ Alone(p) /\ EditorStep(p)
<1>1. PICK q \in crew \cap Editor : EditorStep(q)
  BY DEF Next
<1>2. crew' = crew
  BY <1>1, CrewFixed
<1> QED
  BY <1>1, <1>2 DEF Alone

LEMMA InitAloneInv == Init => AloneInv
<1> SUFFICES ASSUME Init PROVE AloneInv
  OBVIOUS
<1>1. Distinct(intact) /\ file = intact /\ torn = {} /\ "add" \notin misled
  BY ScenesAssumption DEF Init
<1>2. \A p \in Editor : pc[p] = "idle"
  BY DEF Init
<1> QED
  BY <1>1, <1>2 DEF AloneInv

LEMMA NextAlone ==
    ASSUME EditInv, AloneInv, NEW p \in crew \cap Editor, Alone(p), EditorStep(p)
    PROVE  AloneInv'
<1> DEFINE Inv == /\ "add" \notin misled
                  /\ Distinct(intact)
                  /\ pc[p] = "read" => copy[p] = file
                  /\ torn = {} /\ pc[p] # "write" => file = intact
                  /\ torn = {} /\ cmd[p].kind = "add" =>
                        /\ pc[p] = "write" => file = EmptyText
                        /\ pc[p] \in {"truncate", "write"} =>
                              \E e : IsEntry(e) /\ buf[p] = Appended(intact, e)
<1>0. crew' = crew
  BY CrewFixed
<1> SUFFICES Inv'
  BY <1>0 DEF AloneInv, Alone
<1>1. Inv
  BY DEF AloneInv
<1>2. IsFun(pc) /\ IsFun(cmd) /\ IsFun(buf) /\ IsFun(copy) /\ crew \in DOMAIN Scenes
  BY DEF EditInv, ShapeInv
<1>3. Distinct(buf[p])
  BY <1>1 DEF EditInv, NamesInv
<1> USE DEF IsFun, Goto, Finish, history
<1>4. ASSUME NEW c \in Scenes[crew].commands, Start(p, c) PROVE Inv'
  BY <1>1, <1>2, <1>4, ScenesAssumption DEF Start, Kinds
<1>5. CASE StatFree(p)
  BY <1>1, <1>2, <1>5 DEF StatFree, EditInv, CommandInv
<1>6. CASE AddExists(p)
  BY <1>1, <1>2, <1>6 DEF AddExists
<1>7. CASE AddRead(p)
  <2>1. PICK s \in cmd[p].schedule :
           buf' = [buf EXCEPT ![p] = Appended(file, Entry(cmd[p].name, s, cmd[p].layer))]
    BY <1>7 DEF AddRead
  <2>2. IsEntry(Entry(cmd[p].name, s, cmd[p].layer))
    BY DEF IsEntry, Entry
  <2>3. torn' = {} => \E e : IsEntry(e) /\ buf'[p] = Appended(intact', e)
    BY <1>1, <1>2, <1>7, <2>1, <2>2 DEF AddRead
  <2> QED
    BY <1>1, <1>2, <1>7, <2>3 DEF AddRead
<1>8. CASE Decode(p)
  BY <1>1, <1>2, <1>8 DEF Decode
<1>9. CASE Refused(p)
  BY <1>1, <1>2, <1>9 DEF Refused
<1>10. CASE BackupRead(p)
  BY <1>1, <1>2, <1>10 DEF BackupRead
<1>11. CASE BackupTruncate(p)
  BY <1>1, <1>2, <1>11 DEF BackupTruncate
<1>12. CASE BackupWrite(p)
  BY <1>1, <1>2, <1>12 DEF BackupWrite, EditInv, CommandInv
<1>13. CASE Truncate(p)
  BY <1>1, <1>2, <1>13 DEF Truncate
<1>14. CASE WritePart(p)
  BY <1>1, <1>2, <1>14 DEF WritePart
<1>15. CASE Write(p)
  BY <1>1, <1>2, <1>3, <1>15, OverDistinct DEF Write
<1>16. CASE Kill(p)
  BY <1>1, <1>2, <1>16 DEF Kill
<1> QED
  BY <1>4, <1>5, <1>6, <1>7, <1>8, <1>9, <1>10, <1>11, <1>12, <1>13, <1>14,
     <1>15, <1>16 DEF EditorStep

LEMMA NextAloneInv == EditInv /\ AloneInv /\ [SyncNext]_syncVars => AloneInv'
<1> SUFFICES ASSUME EditInv, AloneInv, [SyncNext]_syncVars PROVE AloneInv'
  OBVIOUS
<1>1. CASE Next
  <2>1. ASSUME NEW p \in Editor, Alone(p)' PROVE AloneInv'
    BY <1>1, <2>1, NextIsAlone, NextAlone
  <2> QED
    BY <2>1 DEF AloneInv
<1>2. CASE EditConfig
  BY <1>2, ScenesAssumption DEF EditConfig, EditInv, ShapeInv, AloneInv, Alone
<1>3. CASE UNCHANGED vars
  BY <1>3 DEF vars, history, AloneInv, Alone
<1> QED
  BY <1>1, <1>2, <1>3
     DEF SyncNext, syncVars, StartDaemon, SavedAll, LoadJobs, GoDown, SaveJob

\* What add appends leaves everything before it.
LEMMA AppendedKeeps ==
    ASSUME NEW t, Distinct(t), NEW e
    PROVE  /\ [Appended(t, e) EXCEPT !.jobs = <<>>] = [t EXCEPT !.jobs = <<>>]
           /\ SubSeq(Appended(t, e).jobs, 1, Len(t.jobs)) = t.jobs
           /\ Len(Appended(t, e).jobs) = Len(t.jobs) + 1
<1> DEFINE new == [e EXCEPT !.layer = Rendered(@)]
           js == Append(t.jobs, new)
           S == {t.jobs[i] : i \in DOMAIN t.jobs} \cup {new}
<1>1. t.jobs \in Seq(S) /\ new \in S
  BY SeqMonotonic DEF Distinct, IsText
<1> HIDE DEF S, new
<1>2. Appended(t, e) = [t EXCEPT !.jobs = js]
  BY DEF Appended, new
<1>3. Appended(t, e) =
         [form |-> t.form, version |-> t.version, defaults |-> t.defaults,
          declared |-> t.declared, jobs |-> js, comments |-> t.comments]
  BY <1>2 DEF Distinct, IsText
<1>4. [t EXCEPT !.jobs = <<>>] =
         [form |-> t.form, version |-> t.version, defaults |-> t.defaults,
          declared |-> t.declared, jobs |-> <<>>, comments |-> t.comments]
  BY DEF Distinct, IsText
<1>5. Len(js) = Len(t.jobs) + 1 /\ SubSeq(js, 1, Len(t.jobs)) = t.jobs
  BY <1>1
<1> HIDE DEF js
<1> QED
  BY <1>3, <1>4, <1>5

\* README:142-144: an add alone with the file leaves the rest of it as it was,
\* whatever other commands have been carried out, or killed, before.
THEOREM SpecAddLeavesRest == SyncSpec => AddLeavesRest
<1> DEFINE Leaves(p) ==
       Write(p) /\ cmd[p].kind = "add" /\ torn = {} /\ Alone(p) =>
              /\ [file' EXCEPT !.jobs = <<>>] = [intact EXCEPT !.jobs = <<>>]
              /\ SubSeq(file'.jobs, 1, Len(intact.jobs)) = intact.jobs
              /\ Len(file'.jobs) = Len(intact.jobs) + 1
<1>1. SyncInit => EditInv /\ AloneInv
  BY InitEditInv, InitAloneInv DEF SyncInit
<1>2. AloneInv => \A p \in Editor : Leaves(p)
  <2> SUFFICES ASSUME AloneInv, NEW p \in Editor, Write(p), cmd[p].kind = "add",
                      torn = {}, Alone(p)
               PROVE  Leaves(p)
    OBVIOUS
  <2>1. pc[p] = "write" /\ file' \in Over(buf[p], file)
    BY DEF Write
  <2>2. PICK e : IsEntry(e) /\ buf[p] = Appended(intact, e)
    BY <2>1 DEF AloneInv
  <2>3. file = EmptyText /\ Distinct(intact)
    BY <2>1 DEF AloneInv
  <2>4. file' = Appended(intact, e)
    BY <2>1, <2>2, <2>3 DEF Over
  <2> QED
    BY <2>3, <2>4, AppendedKeeps
<1>3. EditInv /\ AloneInv /\ [SyncNext]_syncVars => [\A p \in Editor : Leaves(p)]_vars
  BY <1>2
<1> QED
  BY <1>1, <1>3, NextEditInv, NextAloneInv, PTL DEF SyncSpec, AddLeavesRest

-----------------------------------------------------------------------------
\* Where the last complete text is while one command at a time rewrites: in the
\* file until the backup is whole, and then in the backup.
Rewrites == {"remove", "edit"}

BackupInv ==
    \A p \in Editor : Alone(p) /\ torn \subseteq Rewrites /\ "cut" \notin misled =>
        /\ pc[p] = "write" \/ intact \in {file, bak}
        /\ pc[p] \in {"copy", "clearBak", "writeBak"} => file = intact
        /\ pc[p] \in {"clearBak", "writeBak"} => copy[p] = intact
        /\ pc[p] = "writeBak" => bak = EmptyText
        /\ pc[p] \in {"truncate", "write"} /\ cmd[p].kind \in Rewrites => bak = intact

LEMMA NextBackup ==
    ASSUME EditInv, BackupInv, NEW p \in crew \cap Editor, Alone(p), EditorStep(p)
    PROVE  BackupInv'
<1> DEFINE Inv == torn \subseteq Rewrites /\ "cut" \notin misled =>
        /\ pc[p] = "write" \/ intact \in {file, bak}
        /\ pc[p] \in {"copy", "clearBak", "writeBak"} => file = intact
        /\ pc[p] \in {"clearBak", "writeBak"} => copy[p] = intact
        /\ pc[p] = "writeBak" => bak = EmptyText
        /\ pc[p] \in {"truncate", "write"} /\ cmd[p].kind \in Rewrites => bak = intact
<1>0. crew' = crew
  BY CrewFixed
<1> SUFFICES Inv'
  BY <1>0 DEF BackupInv, Alone
<1>1. Inv
  BY DEF BackupInv
<1>2. IsFun(pc) /\ IsFun(cmd) /\ IsFun(buf) /\ IsFun(copy) /\ crew \in DOMAIN Scenes
  BY DEF EditInv, ShapeInv
<1>3. /\ pc[p] \in {"exists", "read"} => cmd[p].kind = "add"
      /\ pc[p] = "stat" => cmd[p].kind = "create"
  BY DEF EditInv, CommandInv
<1> USE DEF IsFun, Goto, Finish, history, Rewrites
<1>4. ASSUME NEW c \in Scenes[crew].commands, Start(p, c) PROVE Inv'
  BY <1>1, <1>2, <1>4, ScenesAssumption DEF Start, Kinds
<1>5. CASE StatFree(p)
  BY <1>1, <1>2, <1>3, <1>5 DEF StatFree
<1>6. CASE AddExists(p)
  BY <1>1, <1>2, <1>6 DEF AddExists
<1>7. CASE AddRead(p)
  BY <1>1, <1>2, <1>3, <1>7 DEF AddRead
<1>8. CASE Decode(p)
  BY <1>1, <1>2, <1>8 DEF Decode
<1>9. CASE Refused(p)
  BY <1>1, <1>2, <1>9 DEF Refused
<1>10. CASE BackupRead(p)
  BY <1>1, <1>2, <1>10 DEF BackupRead
<1>11. CASE BackupTruncate(p)
  BY <1>1, <1>2, <1>11 DEF BackupTruncate
<1>12. CASE BackupWrite(p)
  BY <1>1, <1>2, <1>12 DEF BackupWrite, BackupData, Over
<1>13. CASE Truncate(p)
  BY <1>1, <1>2, <1>13 DEF Truncate
<1>14. CASE WritePart(p)
  BY <1>1, <1>2, <1>14 DEF WritePart
<1>15. CASE Write(p)
  BY <1>1, <1>2, <1>15 DEF Write
<1>16. CASE Kill(p)
  BY <1>1, <1>2, <1>16 DEF Kill
<1> QED
  BY <1>4, <1>5, <1>6, <1>7, <1>8, <1>9, <1>10, <1>11, <1>12, <1>13, <1>14,
     <1>15, <1>16 DEF EditorStep

LEMMA NextBackupInv == EditInv /\ BackupInv /\ [SyncNext]_syncVars => BackupInv'
<1> SUFFICES ASSUME EditInv, BackupInv, [SyncNext]_syncVars PROVE BackupInv'
  OBVIOUS
<1>1. CASE Next
  <2>1. ASSUME NEW p \in Editor, Alone(p)' PROVE BackupInv'
    BY <1>1, <2>1, NextIsAlone, NextBackup
  <2> QED
    BY <2>1 DEF BackupInv
<1>2. CASE EditConfig
  BY <1>2 DEF EditConfig, BackupInv, Alone
<1>3. CASE UNCHANGED vars
  BY <1>3 DEF vars, history, BackupInv, Alone
<1> QED
  BY <1>1, <1>2, <1>3
     DEF SyncNext, syncVars, StartDaemon, SavedAll, LoadJobs, GoDown, SaveJob

\* edit.go:216: a remove or an edit alone with the file may be killed at any
\* step, in the middle of a write too, and the last complete text is still in
\* the file or in its backup.
THEOREM SpecRecoverable == SyncSpec => [](\A p \in Editor : Alone(p) => Recoverable)
<1>1. SyncInit => EditInv /\ BackupInv
  <2>1. Init => BackupInv
    BY DEF Init, BackupInv
  <2> QED
    BY <2>1, InitEditInv DEF SyncInit
<1>2. BackupInv => \A p \in Editor : Alone(p) => Recoverable
  BY DEF BackupInv, Recoverable, Rewrites
<1> QED
  BY <1>1, <1>2, NextEditInv, NextBackupInv, PTL DEF SyncSpec
-----------------------------------------------------------------------------
LEMMA PreambleKept ==
    ASSUME NEW t, IsText(t), NEW js
    PROVE  Preamble([t EXCEPT !.jobs = js]) = Preamble(t) /\ [t EXCEPT !.jobs = js].jobs = js
<1>1. [t EXCEPT !.jobs = js] =
         [form |-> t.form, version |-> t.version, defaults |-> t.defaults,
          declared |-> t.declared, jobs |-> js, comments |-> t.comments]
  BY DEF IsText
<1> QED
  BY <1>1 DEF Preamble

\* add leaves the entries, and one more.
LEMMA AppendedEntries ==
    ASSUME NEW t, Distinct(t), NEW name, NEW s, NEW l
    PROVE  /\ Preamble(Appended(t, Entry(name, s, l))) = Preamble(t)
           /\ Entries(Appended(t, Entry(name, s, l))) =
                 Entries(t) \cup {Entry(name, s, Rendered(l))}
<1> DEFINE e == Entry(name, s, l)
           new == Entry(name, s, Rendered(l))
           js == Append(t.jobs, new)
           S == Entries(t) \cup {new}
<1>1. Appended(t, e) = [t EXCEPT !.jobs = js]
  <2>1. [e EXCEPT !.layer = Rendered(@)] = new
    BY DEF Entry
  <2> QED
    BY <2>1 DEF Appended
<1>2. t.jobs \in Seq(S) /\ Len(t.jobs) \in Nat /\ DOMAIN t.jobs = 1 .. Len(t.jobs)
  BY SeqMonotonic DEF Distinct, IsText, Entries
<1>3. DOMAIN js = 1 .. Len(t.jobs) + 1 /\ js[Len(t.jobs) + 1] = new
  BY <1>2
<1>4. \A i \in DOMAIN t.jobs : js[i] = t.jobs[i]
  BY <1>2
<1> HIDE DEF js, new, S, e
<1>5. {js[i] : i \in DOMAIN js} = {t.jobs[i] : i \in DOMAIN t.jobs} \cup {new}
  <2>1. \A i \in DOMAIN js : i \in DOMAIN t.jobs \/ i = Len(t.jobs) + 1
    BY <1>2, <1>3
  <2>2. \A i \in DOMAIN t.jobs : i \in DOMAIN js
    BY <1>2, <1>3
  <2>3. Len(t.jobs) + 1 \in DOMAIN js
    BY <1>2, <1>3
  <2> QED
    BY <1>3, <1>4, <2>1, <2>2, <2>3
<1>6. Preamble(Appended(t, e)) = Preamble(t) /\ Appended(t, e).jobs = js
  BY <1>1, PreambleKept DEF Distinct
<1> QED
  BY <1>5, <1>6 DEF Entries, e, new

\* remove and edit leave the entries with other names.
Others(t, name) == {e \in Entries(t) : e.name # name}

LEMMA WithoutEntries ==
    ASSUME NEW t, Distinct(t), NEW name \in NamesIn(t)
    PROVE  Preamble(Without(t, name)) = Preamble(t) /\ Entries(Without(t, name)) = Others(t, name)
<1> DEFINE k == First(t, name)
           S == {t.jobs[i] : i \in DOMAIN t.jobs}
           n == Len(t.jobs)
<1>1. t.jobs \in Seq(S) /\ n \in Nat /\ DOMAIN t.jobs = 1 .. n /\ k \in 1 .. n
  BY FirstIsPlace DEF Distinct, IsText
<1>2. PICK js \in Seq(S) :
         /\ Without(t, name) = [t EXCEPT !.jobs = js]
         /\ DOMAIN js = 1 .. n - 1
         /\ \A i \in DOMAIN js : js[i] = t.jobs[IF i < k THEN i ELSE i + 1]
  BY WithoutJobs
<1> HIDE DEF S, k, n
<1>3. ASSUME NEW i \in 1 .. n - 1
      PROVE  \E m \in 1 .. n :
                m # k /\ m = (IF i < k THEN i ELSE i + 1) /\ js[i] = t.jobs[m]
  <2>1. (IF i < k THEN i ELSE i + 1) \in (1 .. n) \ {k}
    BY <1>1
  <2> QED
    BY <1>2, <2>1
<1>4. ASSUME NEW i \in 1 .. n - 1 PROVE js[i] \in Others(t, name)
  <2>1. PICK m \in 1 .. n : m # k /\ js[i] = t.jobs[m]
    BY <1>3
  <2>2. t.jobs[k].name = name /\ t.jobs[m].name # t.jobs[k].name
    BY <1>1, <2>1, FirstIsPlace DEF Distinct, UniqueNames, k
  <2> QED
    BY <1>1, <2>1, <2>2 DEF Others, Entries
<1>5. ASSUME NEW e \in Others(t, name) PROVE \E i \in 1 .. n - 1 : js[i] = e
  <2>1. PICK m \in 1 .. n : e = t.jobs[m] /\ m # k
    BY <1>1, FirstIsPlace DEF Others, Entries, k
  <2> DEFINE i == IF m < k THEN m ELSE m - 1
  <2>2. i \in 1 .. n - 1 /\ (IF i < k THEN i ELSE i + 1) = m
    BY <1>1, <2>1
  <2> QED
    BY <1>2, <2>1, <2>2
<1>6. Preamble(Without(t, name)) = Preamble(t) /\ Without(t, name).jobs = js
  <2>1. IsText(t) /\ Without(t, name) = [t EXCEPT !.jobs = js]
    BY <1>2 DEF Distinct
  <2> QED
    BY <2>1, PreambleKept
<1>7. {js[i] : i \in DOMAIN js} = Others(t, name)
  BY <1>2, <1>4, <1>5
<1> QED
  BY <1>6, <1>7 DEF Entries

Edited(e, s, l) ==
    Entry(e.name, IF s = {} THEN e.schedule ELSE CHOOSE x \in s : TRUE,
          Layer(Overlay(e.layer.policy, l.policy), Overlay(e.layer.notify, l.notify)))

LEMMA UpdatedEntries ==
    ASSUME NEW t, Distinct(t), NEW name \in NamesIn(t), NEW s, NEW l
    PROVE  /\ Preamble(Updated(t, name, s, l)) = Preamble(t)
           /\ \E e \in Entries(t) :
                 /\ e.name = name
                 /\ Entries(Updated(t, name, s, l)) = Others(t, name) \cup {Edited(e, s, l)}
<1> DEFINE k == First(t, name)
           old == t.jobs[k]
           new == Entry(name, IF s = {} THEN old.schedule ELSE CHOOSE x \in s : TRUE,
                        Layer(Overlay(old.layer.policy, l.policy),
                              Overlay(old.layer.notify, l.notify)))
           js == [t.jobs EXCEPT ![k] = new]
<1>1. k \in DOMAIN t.jobs /\ old.name = name
  BY FirstIsPlace
<1>2. Updated(t, name, s, l) = [t EXCEPT !.jobs = js]
  BY DEF Updated
<1>3. Preamble(Updated(t, name, s, l)) = Preamble(t) /\ Updated(t, name, s, l).jobs = js
  BY <1>2, PreambleKept DEF Distinct
<1>4. new = Edited(old, s, l)
  BY <1>1 DEF Edited
<1>5. \A i \in DOMAIN t.jobs : i # k => t.jobs[i].name # name
  BY <1>1 DEF Distinct, UniqueNames
<1> HIDE DEF k, new, old
<1>6. DOMAIN js = DOMAIN t.jobs /\ \A i \in DOMAIN js : js[i] = IF i = k THEN new ELSE t.jobs[i]
  <2>1. t.jobs \in Seq(Entries(t))
    BY DEF Distinct, IsText, Entries
  <2> QED
    BY <2>1
<1> HIDE DEF js
<1>7. {js[i] : i \in DOMAIN js} = {e \in Entries(t) : e.name # name} \cup {new}
  BY <1>1, <1>5, <1>6 DEF Entries, old
<1> QED
  BY <1>1, <1>3, <1>4, <1>7 DEF Entries, Others, old

\* What a command that rewrites makes of every entry, the list of its notifiers
\* dropped when it is empty.
RenderedEntry(e) == Entry(e.name, e.schedule, Rendered(e.layer))

LEMMA WrittenEntries ==
    ASSUME NEW t, Distinct(t), t.form = "toml"
    PROVE  /\ Preamble(Written(t)) = <<"toml", t.version, Rendered(t.defaults), t.declared>>
           /\ Entries(Written(t)) = {RenderedEntry(e) : e \in Entries(t)}
<1> DEFINE js == [i \in DOMAIN t.jobs |-> [t.jobs[i] EXCEPT !.layer = Rendered(@)]]
<1>1. \A i \in DOMAIN t.jobs : js[i] = RenderedEntry(t.jobs[i])
  BY DEF Distinct, IsText, IsEntry, Entry, RenderedEntry
<1>2. DOMAIN js = DOMAIN t.jobs
  OBVIOUS
<1>3. Written(t) = [form |-> "toml", version |-> t.version, defaults |-> Rendered(t.defaults),
                    declared |-> t.declared, jobs |-> js, comments |-> FALSE]
  BY DEF Written, Text
<1> HIDE DEF js
<1>4. {js[i] : i \in DOMAIN js} = {RenderedEntry(t.jobs[i]) : i \in DOMAIN t.jobs}
  BY <1>1, <1>2
<1> QED
  BY <1>3, <1>4 DEF Preamble, Entries
-----------------------------------------------------------------------------
LEMMA UsableLoads ==
    ASSUME NEW t, Distinct(t), Usable(t)
    PROVE  Loads(t) \/ (t.version /\ t.jobs = <<>>)
<1>1. t.jobs \in Seq(Entries(t)) /\ \A i \in DOMAIN t.jobs : t.jobs[i] \in Entries(t)
  BY DEF Distinct, IsText, Entries
<1>2. CASE Len(t.jobs) = 0
  <2>1. t.jobs = <<>>
    BY <1>1, <1>2, EmptySeq
  <2> QED
    BY <2>1 DEF Usable
<1>3. CASE Len(t.jobs) # 0
  <2>1. Len(t.jobs) > 0
    BY <1>1, <1>3
  <2>2. ASSUME NEW i \in DOMAIN t.jobs
        PROVE  Resolve(t, i).notify \subseteq t.declared \cup {Log}
    <3> DEFINE own == t.jobs[i].layer.notify
    <3>1. /\ (UNION own) \subseteq t.declared \cup {Log}
          /\ (UNION t.defaults.notify) \subseteq t.declared \cup {Log}
      BY <1>1 DEF Usable, Fits
    <3>2. Resolve(t, i).notify = UNION Overlay(Overlay({{Log}}, t.defaults.notify), own)
      BY DEF Resolve
    <3> HIDE DEF own
    <3>3. (UNION {{Log}}) \subseteq t.declared \cup {Log}
      OBVIOUS
    <3> QED
      BY <3>1, <3>2, <3>3 DEF Overlay
  <2>3. \A i \in DOMAIN t.jobs :
           t.jobs[i].schedule # NoSchedule /\ t.jobs[i].layer.policy \subseteq GoodPolicies
    BY <1>1 DEF Usable, Fits
  <2> QED
    BY <2>1, <2>2, <2>3 DEF Loads, Usable, Fits, Distinct
<1> QED
  BY <1>2, <1>3

LEMMA RenderedLayer ==
    ASSUME NEW p, NEW n
    PROVE  Rendered(Layer(p, n)) = Layer(p, n \ {{}})
BY DEF Rendered, Layer

LEMMA RenderedFits ==
    ASSUME NEW l, NEW declared, Fits(l, declared)
    PROVE  Fits(Rendered(l), declared)
<1>1. Rendered(l) = Layer(l.policy, l.notify \ {{}})
  BY RenderedLayer DEF Fits
<1> QED
  BY <1>1 DEF Fits, Layer

LEMMA OverlayFits ==
    ASSUME NEW l, NEW m, NEW declared, Fits(l, declared), Fits(m, declared)
    PROVE  Fits(Layer(Overlay(l.policy, m.policy), Overlay(l.notify, m.notify)), declared)
BY DEF Fits, Layer, Overlay

\* The commands make a usable text of a usable text.
LEMMA AppendedUsable ==
    ASSUME NEW t, Distinct(t), Usable(t), NEW name, NEW s, NEW l,
           s # NoSchedule, Fits(l, t.declared)
    PROVE  LET u == Appended(t, Entry(name, s, l))
           IN  Usable(u) /\ u.declared = t.declared
<1> DEFINE new == Entry(name, s, Rendered(l))
           u == Appended(t, Entry(name, s, l))
<1>1. new.schedule # NoSchedule /\ Fits(new.layer, t.declared)
  BY RenderedFits DEF Entry
<1>2. Preamble(u) = Preamble(t) /\ Entries(u) = Entries(t) \cup {new}
  BY AppendedEntries
<1> HIDE DEF new, u
<1> QED
  BY <1>1, <1>2 DEF Usable, Preamble, u

LEMMA ChangedUsable ==
    ASSUME NEW t, Distinct(t), Usable(t), NEW c, c.name \in NamesIn(t),
           c.schedule \subseteq GoodSchedules, Fits(c.layer, t.declared)
    PROVE  LET u == Written(Changed(t, c))
           IN  Usable(u) /\ u.declared = t.declared
<1> DEFINE v == Changed(t, c)
           u == Written(v)
<1>1. Preamble(v) = Preamble(t) /\ Distinct(v)
  BY WithoutEntries, UpdatedEntries, WithoutDistinct, UpdatedDistinct DEF Changed
<1>2. ASSUME NEW e \in Entries(v) PROVE e.schedule # NoSchedule /\ Fits(e.layer, t.declared)
  <2>1. CASE e \in Entries(t)
    BY <2>1 DEF Usable
  <2>2. CASE e \notin Entries(t)
    <3>1. PICK old \in Entries(t) : e = Edited(old, c.schedule, c.layer)
      BY <2>2, WithoutEntries, UpdatedEntries DEF Changed, Others
    <3>2. old.schedule # NoSchedule /\ Fits(old.layer, t.declared)
      BY DEF Usable
    <3>3. e.schedule = (IF c.schedule = {} THEN old.schedule ELSE CHOOSE x \in c.schedule : TRUE)
      BY <3>1 DEF Edited, Entry
    <3>4. e.schedule # NoSchedule
      BY <3>2, <3>3, TextsAssumption
    <3>5. e.layer = Layer(Overlay(old.layer.policy, c.layer.policy),
                          Overlay(old.layer.notify, c.layer.notify))
      BY <3>1 DEF Edited, Entry
    <3> QED
      BY <3>2, <3>4, <3>5, OverlayFits
  <2> QED
    BY <2>1, <2>2
<1> HIDE DEF v
<1>3. /\ v.form = "toml" /\ v.version /\ v.declared = t.declared
      /\ Log \notin v.declared /\ Fits(v.defaults, v.declared)
  BY <1>1 DEF Preamble, Usable
<1>4. /\ Preamble(u) = <<"toml", v.version, Rendered(v.defaults), v.declared>>
      /\ Entries(u) = {RenderedEntry(e) : e \in Entries(v)}
  BY <1>1, <1>3, WrittenEntries
<1> HIDE DEF u
<1>5. ASSUME NEW e \in Entries(u) PROVE e.schedule # NoSchedule /\ Fits(e.layer, t.declared)
  <2>1. PICK d \in Entries(v) : e = RenderedEntry(d)
    BY <1>4
  <2>2. e.schedule = d.schedule /\ e.layer = Rendered(d.layer)
    BY <2>1 DEF RenderedEntry, Entry
  <2> QED
    BY <1>2, <2>2, RenderedFits
<1>6. /\ u.form = "toml" /\ u.version /\ u.declared = t.declared
      /\ Log \notin u.declared /\ Fits(u.defaults, u.declared)
  BY <1>3, <1>4, RenderedFits DEF Preamble
<1>7. Usable(u)
  BY <1>5, <1>6 DEF Usable
<1> QED
  BY <1>6, <1>7 DEF u, v

-----------------------------------------------------------------------------
\* What a command alone with the file holds in its hand: from the text it has
\* found to the one it is about to write, which may be in the file in part.
HandInv ==
    \A p \in Editor : Alone(p) =>
        /\ pc[p] = "write" => file \in Cuts(buf[p])
        /\ pc[p] # "idle" =>
              cmd[p] \in Scenes[crew].commands /\ cmd[p].schedule \subseteq GoodSchedules
        /\ pc[p] \in {"stat", "truncate", "write"} /\ cmd[p].kind \in {"create", "force"}
              => buf[p] \in Bodies
        /\ torn = {} /\ cmd[p].kind = "add" =>
              /\ pc[p] \in {"read", "truncate", "write"} => intact.form = "toml"
              /\ pc[p] \in {"truncate", "write"} => \E s \in cmd[p].schedule :
                    buf[p] = Appended(intact, Entry(cmd[p].name, s, cmd[p].layer))
        /\ torn = {} /\ cmd[p].kind \in Rewrites
              /\ pc[p] \in {"copy", "clearBak", "writeBak", "truncate", "write"} =>
              /\ intact.form = "toml" /\ cmd[p].name \in NamesIn(intact)
              /\ buf[p] = Written(Changed(intact, cmd[p]))

LEMMA NextHand ==
    ASSUME EditInv, AloneInv, HandInv, NEW p \in crew \cap Editor, Alone(p), EditorStep(p)
    PROVE  HandInv'
<1> DEFINE Inv ==
        /\ pc[p] = "write" => file \in Cuts(buf[p])
        /\ pc[p] # "idle" =>
              cmd[p] \in Scenes[crew].commands /\ cmd[p].schedule \subseteq GoodSchedules
        /\ pc[p] \in {"stat", "truncate", "write"} /\ cmd[p].kind \in {"create", "force"}
              => buf[p] \in Bodies
        /\ torn = {} /\ cmd[p].kind = "add" =>
              /\ pc[p] \in {"read", "truncate", "write"} => intact.form = "toml"
              /\ pc[p] \in {"truncate", "write"} => \E s \in cmd[p].schedule :
                    buf[p] = Appended(intact, Entry(cmd[p].name, s, cmd[p].layer))
        /\ torn = {} /\ cmd[p].kind \in Rewrites
              /\ pc[p] \in {"copy", "clearBak", "writeBak", "truncate", "write"} =>
              /\ intact.form = "toml" /\ cmd[p].name \in NamesIn(intact)
              /\ buf[p] = Written(Changed(intact, cmd[p]))
<1>0. crew' = crew
  BY CrewFixed
<1> SUFFICES Inv'
  BY <1>0 DEF HandInv, Alone
<1>1. Inv
  BY DEF HandInv
<1>2. IsFun(pc) /\ IsFun(cmd) /\ IsFun(buf) /\ IsFun(copy) /\ crew \in DOMAIN Scenes
  BY DEF EditInv, ShapeInv
<1>3. /\ pc[p] \in {"exists", "read"} => cmd[p].kind = "add"
      /\ pc[p] = "stat" => cmd[p].kind = "create"
      /\ pc[p] \in {"decode", "copy", "clearBak", "writeBak"} => cmd[p].kind \in Rewrites
  BY DEF EditInv, CommandInv, Rewrites
<1>4. torn = {} /\ pc[p] # "write" => file = intact
  BY DEF AloneInv
<1> USE DEF IsFun, Goto, Finish, history, Rewrites
<1>5. ASSUME NEW c \in Scenes[crew].commands, Start(p, c) PROVE Inv'
  BY <1>1, <1>2, <1>5, ScenesAssumption DEF Start, Kinds
<1>6. CASE StatFree(p)
  BY <1>1, <1>2, <1>3, <1>6 DEF StatFree
<1>7. CASE AddExists(p)
  BY <1>1, <1>2, <1>3, <1>4, <1>7 DEF AddExists, Refuses
<1>8. CASE AddRead(p)
  BY <1>1, <1>2, <1>3, <1>4, <1>8 DEF AddRead
<1>9. CASE Decode(p)
  BY <1>1, <1>2, <1>3, <1>4, <1>9 DEF Decode, Refuses
<1>10. CASE Refused(p)
  BY <1>1, <1>2, <1>10 DEF Refused
<1>11. CASE BackupRead(p)
  BY <1>1, <1>2, <1>3, <1>11 DEF BackupRead
<1>12. CASE BackupTruncate(p)
  BY <1>1, <1>2, <1>3, <1>12 DEF BackupTruncate
<1>13. CASE BackupWrite(p)
  BY <1>1, <1>2, <1>3, <1>13 DEF BackupWrite
<1>14. CASE Truncate(p)
  BY <1>1, <1>2, <1>14 DEF Truncate, Cuts
<1>15. CASE WritePart(p)
  BY <1>1, <1>2, <1>15 DEF WritePart
<1>16. CASE Write(p)
  BY <1>1, <1>2, <1>16 DEF Write
<1>17. CASE Kill(p)
  BY <1>1, <1>2, <1>17 DEF Kill
<1> QED
  BY <1>5, <1>6, <1>7, <1>8, <1>9, <1>10, <1>11, <1>12, <1>13, <1>14,
     <1>15, <1>16, <1>17 DEF EditorStep

LEMMA NextHandInv == EditInv /\ AloneInv /\ HandInv /\ [SyncNext]_syncVars => HandInv'
<1> SUFFICES ASSUME EditInv, AloneInv, HandInv, [SyncNext]_syncVars PROVE HandInv'
  OBVIOUS
<1>1. CASE Next
  <2>1. ASSUME NEW p \in Editor, Alone(p)' PROVE HandInv'
    BY <1>1, <2>1, NextIsAlone, NextHand
  <2> QED
    BY <2>1 DEF HandInv
<1>2. CASE EditConfig
  BY <1>2 DEF EditConfig, HandInv, Alone
<1>3. CASE UNCHANGED vars
  BY <1>3 DEF vars, history, HandInv, Alone
<1> QED
  BY <1>1, <1>2, <1>3
     DEF SyncNext, syncVars, StartDaemon, SavedAll, LoadJobs, GoDown, SaveJob

\* A command alone with the file writes what it holds, whatever part of it is
\* there already.
LEMMA WriteIsBuf ==
    ASSUME HandInv, NEW p \in Editor, Alone(p), Write(p)
    PROVE  file' = buf[p] /\ intact' = buf[p]
<1>1. pc[p] = "write" /\ file' \in Over(buf[p], file) /\ intact' = file'
  BY DEF Write
<1>2. file \in Cuts(buf[p])
  BY <1>1 DEF HandInv
<1> QED
  BY <1>1, <1>2 DEF Over

-----------------------------------------------------------------------------
\* The text last written is one LoadConfig accepts, its number of jobs apart,
\* and stays one with the fields of any command of the scene.
Serves(t) ==
    Usable(t) /\ \A c \in Scenes[crew].commands : Fits(c.layer, t.declared)

UsableInv == \A p \in Editor : Alone(p) /\ torn = {} => intact = Missing \/ Serves(intact)

LEMMA SoundServes ==
    ASSUME SoundAlone, NEW p \in Editor, crew = {p}, crew \in DOMAIN Scenes
    PROVE  \A t \in Scenes[crew].texts \cup Bodies : t = Missing \/ Serves(t)
BY DEF SoundAlone, Serves

LEMMA MissingText == Missing.form = "missing"
<1>1. EmptyText = [form |-> "toml", version |-> FALSE, defaults |-> NoLayer, declared |-> {},
                   jobs |-> <<>>, comments |-> FALSE]
  BY DEF EmptyText, Text
<1> QED
  BY <1>1 DEF Missing

LEMMA NextUsable ==
    ASSUME SoundAlone, EditInv, AloneInv, HandInv, UsableInv,
           NEW p \in crew \cap Editor, Alone(p), EditorStep(p)
    PROVE  UsableInv'
<1>1. crew' = crew /\ crew \in DOMAIN Scenes /\ crew = {p}
  BY CrewFixed DEF EditInv, ShapeInv, Alone
<1> SUFFICES ASSUME torn' = {} PROVE (intact = Missing \/ Serves(intact))'
  BY <1>1 DEF UsableInv, Alone
<1>2. \A t \in Bodies : t = Missing \/ Serves(t)
  BY <1>1, SoundServes
<1>3. CASE ~ Write(p)
  <2>1. torn = {} /\ intact' = intact
    BY <1>3 DEF EditorStep, Start, StatFree, AddExists, AddRead, Decode, Refused, BackupRead,
                BackupTruncate, BackupWrite, Truncate, WritePart, Kill, history
  <2> QED
    BY <1>1, <2>1 DEF UsableInv, Serves
<1>4. CASE Write(p)
  <2>1. intact' = buf[p] /\ pc[p] = "write" /\ (torn = {} \/ cmd[p].kind = "force")
    BY <1>4, WriteIsBuf DEF Write
  <2>2. /\ cmd[p] \in Scenes[crew].commands /\ cmd[p].schedule \subseteq GoodSchedules
        /\ cmd[p].kind \in Kinds
    BY <1>1, <2>1, ScenesAssumption DEF HandInv
  <2>3. ASSUME intact # Missing, torn = {}
        PROVE  Distinct(intact) /\ Serves(intact) /\ Fits(cmd[p].layer, intact.declared)
    BY <2>2, <2>3 DEF AloneInv, UsableInv, Serves
  <2>4. CASE cmd[p].kind \in {"create", "force"}
    <3>1. buf[p] \in Bodies
      BY <2>1, <2>4 DEF HandInv
    <3> QED
      BY <1>1, <1>2, <2>1, <3>1 DEF Serves
  <2>5. CASE cmd[p].kind = "add"
    <3>1. PICK s \in cmd[p].schedule :
             buf[p] = Appended(intact, Entry(cmd[p].name, s, cmd[p].layer))
      BY <2>1, <2>5 DEF HandInv
    <3>2. intact # Missing /\ s # NoSchedule
      BY <2>1, <2>2, <2>5, <3>1, MissingText, TextsAssumption DEF HandInv
    <3>3. Usable(buf[p]) /\ buf[p].declared = intact.declared
      BY <2>1, <2>3, <2>5, <3>1, <3>2, AppendedUsable DEF Serves
    <3> QED
      BY <1>1, <2>1, <2>3, <2>5, <3>2, <3>3 DEF Serves
  <2>6. CASE cmd[p].kind \in Rewrites
    <3>1. /\ intact.form = "toml" /\ cmd[p].name \in NamesIn(intact) /\ torn = {}
          /\ buf[p] = Written(Changed(intact, cmd[p]))
      BY <2>1, <2>6 DEF HandInv, Rewrites
    <3>2. intact # Missing
      BY <3>1, MissingText
    <3>3. Usable(buf[p]) /\ buf[p].declared = intact.declared
      BY <2>2, <2>3, <3>1, <3>2, ChangedUsable DEF Serves
    <3> QED
      BY <1>1, <2>1, <2>3, <3>1, <3>2, <3>3 DEF Serves
  <2> QED
    BY <2>2, <2>4, <2>5, <2>6 DEF Kinds, Rewrites
<1> QED
  BY <1>3, <1>4

LEMMA NextUsableInv ==
    ASSUME SoundAlone
    PROVE  EditInv /\ AloneInv /\ HandInv /\ UsableInv /\ [SyncNext]_syncVars => UsableInv'
<1> SUFFICES ASSUME EditInv, AloneInv, HandInv, UsableInv, [SyncNext]_syncVars
             PROVE UsableInv'
  OBVIOUS
<1>1. CASE Next
  <2>1. ASSUME NEW p \in Editor, Alone(p)' PROVE UsableInv'
    BY <1>1, <2>1, NextIsAlone, NextUsable
  <2> QED
    BY <2>1 DEF UsableInv
<1>2. CASE EditConfig
  <2> SUFFICES ASSUME NEW p \in Editor, crew = {p}
               PROVE  (intact = Missing \/ Serves(intact))'
    BY <1>2 DEF EditConfig, UsableInv, Alone
  <2>1. crew' = crew /\ intact' \in Scenes[crew].texts
    BY <1>2 DEF EditConfig
  <2> QED
    BY <2>1, SoundServes DEF EditInv, ShapeInv, Serves
<1>3. CASE UNCHANGED vars
  BY <1>3 DEF vars, history, UsableInv, Alone, Serves
<1> QED
  BY <1>1, <1>2, <1>3
     DEF SyncNext, syncVars, StartDaemon, SavedAll, LoadJobs, GoDown, SaveJob

\* However many commands are carried out one at a time, from texts the daemon
\* starts from and with fields it accepts, the file is again such a text when
\* none is under way, or the last job has been removed: remove and edit lose no
\* notifier a job needs, and an add nothing it has not been given.
THEOREM SpecQuiescentLoads == SoundAlone => (SyncSpec => []QuiescentLoads)
<1> SUFFICES ASSUME SoundAlone PROVE SyncSpec => []QuiescentLoads
  OBVIOUS
<1>1. SyncInit => EditInv /\ AloneInv /\ HandInv /\ UsableInv
  <2> SUFFICES ASSUME Init PROVE HandInv /\ UsableInv
    BY InitEditInv, InitAloneInv DEF SyncInit
  <2>1. \A p \in Editor : pc[p] = "idle"
    BY DEF Init
  <2>2. ASSUME NEW p \in Editor, Alone(p) PROVE intact = Missing \/ Serves(intact)
    <3>1. intact \in Scenes[crew].texts /\ crew = {p} /\ crew \in DOMAIN Scenes
      BY <2>2 DEF Init, Alone
    <3> QED
      BY <3>1, SoundServes
  <2> QED
    BY <2>1, <2>2 DEF HandInv, UsableInv
<1>2. AloneInv /\ UsableInv => QuiescentLoads
  <2> SUFFICES ASSUME AloneInv, UsableInv, torn = {}, \A q \in Editor : pc[q] = "idle",
                      NEW p \in Editor, Alone(p), file # Missing
               PROVE  Loads(file) \/ (file.version /\ file.jobs = <<>>)
    BY DEF QuiescentLoads
  <2>1. file = intact /\ Distinct(intact) /\ Serves(intact)
    BY DEF AloneInv, UsableInv
  <2> QED
    BY <2>1, UsableLoads DEF Serves
<1> QED
  BY <1>1, <1>2, NextEditInv, NextAloneInv, NextHandInv, NextUsableInv, PTL DEF SyncSpec
-----------------------------------------------------------------------------
LEMMA RenderedSame ==
    ASSUME NEW l, NoEmptyList(l)
    PROVE  Rendered(l) = l
<1>1. l.notify \ {{}} = l.notify
  BY DEF NoEmptyList
<1> QED
  BY <1>1, RenderedLayer DEF NoEmptyList

LEMMA RenderedFull ==
    ASSUME NEW l, l = Layer(l.policy, l.notify)
    PROVE  NoEmptyList(Rendered(l))
<1>1. Rendered(l) = Layer(l.policy, l.notify \ {{}})
  BY RenderedLayer
<1> QED
  BY <1>1 DEF NoEmptyList, Layer

\* Resolve on an entry.
ResolveEntry(d, e) ==
    [name     |-> e.name,
     schedule |-> e.schedule,
     policy   |-> Overlay(Overlay({DefaultPolicy}, d.policy), e.layer.policy),
     notify   |-> UNION Overlay(Overlay({{Log}}, d.notify), e.layer.notify)]

LEMMA ResolvedEntries ==
    ASSUME NEW t
    PROVE  Resolved(t) = {ResolveEntry(t.defaults, e) : e \in Entries(t)}
<1>1. \A i \in DOMAIN t.jobs : Resolve(t, i) = ResolveEntry(t.defaults, t.jobs[i])
  BY DEF Resolve, ResolveEntry
<1> QED
  BY <1>1 DEF Resolved, Entries

LEMMA OneOfAName ==
    ASSUME NEW t, Distinct(t), NEW d \in Entries(t), NEW e \in Entries(t), d.name = e.name
    PROVE  d = e
BY DEF Distinct, UniqueNames, Entries

\* remove and edit: what the text resolves to, of the other jobs, and of the
\* fields not given.
LEMMA ChangedKeeps ==
    ASSUME NEW t, Distinct(t), t.form = "toml", Full(t), NEW c, c.name \in NamesIn(t),
           c.kind \in Rewrites
    PROVE  Kept(c, t, Written(Changed(t, c)))
<1> DEFINE v == Changed(t, c)
           u == Written(v)
<1>1. Preamble(v) = Preamble(t) /\ Distinct(v) /\ Others(t, c.name) \subseteq Entries(v)
  BY WithoutEntries, UpdatedEntries, WithoutDistinct, UpdatedDistinct DEF Changed
<1>2. ASSUME c.kind # "remove", NEW e \in Entries(t), e.name = c.name
      PROVE  Edited(e, c.schedule, c.layer) \in Entries(v)
  BY <1>2, UpdatedEntries, OneOfAName DEF Changed
<1> HIDE DEF v
<1>3. v.form = "toml" /\ v.defaults = t.defaults
  BY <1>1 DEF Preamble
<1>4. Rendered(v.defaults) = t.defaults
  BY <1>3, RenderedSame DEF Full
<1>5. u.defaults = t.defaults /\ Entries(u) = {RenderedEntry(e) : e \in Entries(v)}
  BY <1>1, <1>3, <1>4, WrittenEntries DEF Preamble
<1> HIDE DEF u
<1>6. ASSUME NEW e \in Entries(v)
      PROVE  ResolveEntry(t.defaults, RenderedEntry(e)) \in Resolved(u)
  BY <1>5, ResolvedEntries
<1>7. ASSUME NEW r \in Resolved(t)
      PROVE  \/ r \in Resolved(u)
             \/ r.name = c.name /\ c.kind = "remove"
             \/ /\ r.name = c.name
                /\ \E n \in Resolved(u) :
                      /\ n.name = r.name
                      /\ c.schedule = {} => n.schedule = r.schedule
                      /\ c.layer.policy = {} => n.policy = r.policy
                      /\ c.layer.notify = {} => n.notify = r.notify
  <2>1. PICK e \in Entries(t) : r = ResolveEntry(t.defaults, e)
    BY ResolvedEntries
  <2>2. IsEntry(e) /\ NoEmptyList(e.layer)
    BY DEF Distinct, IsText, Entries, Full
  <2>3. CASE e.name # c.name
    <3>1. RenderedEntry(e) = e
      BY <2>2, RenderedSame DEF RenderedEntry, IsEntry
    <3> QED
      BY <1>1, <1>6, <2>1, <2>3, <3>1 DEF Others
  <2>4. CASE e.name = c.name /\ c.kind # "remove"
    <3> DEFINE d == Edited(e, c.schedule, c.layer)
               n == ResolveEntry(t.defaults, RenderedEntry(d))
    <3>1. n \in Resolved(u)
      BY <1>2, <1>6, <2>4
    <3>2. /\ d.name = e.name
          /\ c.schedule = {} => d.schedule = e.schedule
          /\ d.layer = Layer(Overlay(e.layer.policy, c.layer.policy),
                             Overlay(e.layer.notify, c.layer.notify))
      BY DEF Edited, Entry
    <3>3. Rendered(d.layer) = Layer(Overlay(e.layer.policy, c.layer.policy),
                                    Overlay(e.layer.notify, c.layer.notify) \ {{}})
      BY <3>2, RenderedLayer
    <3> HIDE DEF d
    <3>4. RenderedEntry(d) = Entry(d.name, d.schedule,
                                   Layer(Overlay(e.layer.policy, c.layer.policy),
                                         Overlay(e.layer.notify, c.layer.notify) \ {{}}))
      BY <3>3 DEF RenderedEntry
    <3>5. /\ RenderedEntry(d).name = e.name
          /\ c.schedule = {} => RenderedEntry(d).schedule = e.schedule
          /\ c.layer.policy = {} => RenderedEntry(d).layer.policy = e.layer.policy
      BY <3>2, <3>4 DEF Entry, Layer, Overlay
    <3>6. c.layer.notify = {} => RenderedEntry(d).layer.notify = e.layer.notify
      <4>1. e.layer.notify \ {{}} = e.layer.notify
        BY <2>2 DEF NoEmptyList
      <4>2. RenderedEntry(d).layer.notify = Overlay(e.layer.notify, c.layer.notify) \ {{}}
        BY <3>4 DEF Entry, Layer
      <4> QED
        BY <4>1, <4>2 DEF Overlay
    <3>7. /\ n.name = r.name
          /\ c.schedule = {} => n.schedule = r.schedule
          /\ c.layer.policy = {} => n.policy = r.policy
          /\ c.layer.notify = {} => n.notify = r.notify
      BY <2>1, <3>5, <3>6 DEF ResolveEntry
    <3>8. r.name = c.name
      BY <2>1, <2>4 DEF ResolveEntry
    <3> HIDE DEF n
    <3> QED
      BY <3>1, <3>7, <3>8
  <2>5. CASE e.name = c.name /\ c.kind = "remove"
    BY <2>1, <2>5 DEF ResolveEntry
  <2> QED
    BY <2>3, <2>4, <2>5
<1> QED
  BY <1>7 DEF Kept, u, v

\* Neither has the text last written an empty list.
FullInv == \A p \in Editor : Alone(p) /\ torn = {} => Full(intact)

LEMMA WrittenFull ==
    ASSUME NEW t, Distinct(t), t.form = "toml",
           t.defaults = Layer(t.defaults.policy, t.defaults.notify),
           \A e \in Entries(t) : e.layer = Layer(e.layer.policy, e.layer.notify)
    PROVE  Full(Written(t))
<1>1. /\ Written(t).defaults = Rendered(t.defaults)
      /\ Entries(Written(t)) = {RenderedEntry(e) : e \in Entries(t)}
  BY WrittenEntries DEF Preamble
<1>2. \A e \in Entries(t) : RenderedEntry(e).layer = Rendered(e.layer)
  BY DEF RenderedEntry, Entry
<1> QED
  BY <1>1, <1>2, RenderedFull DEF Full

LEMMA ChangedFull ==
    ASSUME NEW t, Distinct(t), t.form = "toml", Full(t), NEW c, c.name \in NamesIn(t)
    PROVE  Full(Written(Changed(t, c)))
<1> DEFINE v == Changed(t, c)
<1>1. Preamble(v) = Preamble(t) /\ Distinct(v)
  BY WithoutEntries, UpdatedEntries, WithoutDistinct, UpdatedDistinct DEF Changed
<1>2. ASSUME NEW e \in Entries(v) PROVE e.layer = Layer(e.layer.policy, e.layer.notify)
  <2>1. CASE e \in Entries(t)
    BY <2>1 DEF Full, NoEmptyList
  <2>2. CASE e \notin Entries(t)
    <3>1. PICK old \in Entries(t) : e = Edited(old, c.schedule, c.layer)
      BY <2>2, WithoutEntries, UpdatedEntries DEF Changed, Others
    <3> QED
      BY <3>1 DEF Edited, Entry, Layer
  <2> QED
    BY <2>1, <2>2
<1> HIDE DEF v
<1>3. v.form = "toml" /\ v.defaults = Layer(v.defaults.policy, v.defaults.notify)
  BY <1>1 DEF Preamble, Full, NoEmptyList
<1>4. Full(Written(v))
  BY <1>1, <1>2, <1>3, WrittenFull
<1> QED
  BY <1>4 DEF v

LEMMA AppendedFull ==
    ASSUME NEW t, Distinct(t), Full(t), NEW name, NEW s, NEW l, l = Layer(l.policy, l.notify)
    PROVE  Full(Appended(t, Entry(name, s, l)))
<1> DEFINE new == Entry(name, s, Rendered(l))
           u == Appended(t, Entry(name, s, l))
<1>1. NoEmptyList(new.layer)
  BY RenderedFull DEF Entry
<1>2. u.defaults = t.defaults /\ Entries(u) = Entries(t) \cup {new}
  BY AppendedEntries DEF Preamble
<1> HIDE DEF new, u
<1> QED
  BY <1>1, <1>2 DEF Full, u

LEMMA NextFull ==
    ASSUME FullAlone, EditInv, AloneInv, HandInv, FullInv,
           NEW p \in crew \cap Editor, Alone(p), EditorStep(p)
    PROVE  FullInv'
<1>1. crew' = crew /\ crew \in DOMAIN Scenes /\ crew = {p}
  BY CrewFixed DEF EditInv, ShapeInv, Alone
<1> SUFFICES ASSUME torn' = {} PROVE Full(intact')
  BY <1>1 DEF FullInv, Alone
<1>2. CASE ~ Write(p)
  <2>1. torn = {} /\ intact' = intact
    BY <1>2 DEF EditorStep, Start, StatFree, AddExists, AddRead, Decode, Refused, BackupRead,
                BackupTruncate, BackupWrite, Truncate, WritePart, Kill, history
  <2> QED
    BY <1>1, <2>1 DEF FullInv
<1>3. CASE Write(p)
  <2>1. intact' = buf[p] /\ pc[p] = "write" /\ (torn = {} \/ cmd[p].kind = "force")
    BY <1>3, WriteIsBuf DEF Write
  <2>2. cmd[p] \in Scenes[crew].commands /\ cmd[p].kind \in Kinds
    BY <1>1, <2>1, ScenesAssumption DEF HandInv
  <2>3. CASE cmd[p].kind \in {"create", "force"}
    <3>1. buf[p] \in Bodies
      BY <2>1, <2>3 DEF HandInv
    <3> QED
      BY <1>1, <2>1, <3>1 DEF FullAlone
  <2>4. CASE cmd[p].kind = "add"
    <3>1. PICK s \in cmd[p].schedule :
             buf[p] = Appended(intact, Entry(cmd[p].name, s, cmd[p].layer))
      BY <2>1, <2>4 DEF HandInv
    <3>2. cmd[p].layer = Layer(cmd[p].layer.policy, cmd[p].layer.notify)
      BY <1>1, <2>2 DEF FullAlone
    <3>3. Distinct(intact) /\ Full(intact)
      BY <2>1, <2>4 DEF AloneInv, FullInv
    <3> QED
      BY <2>1, <3>1, <3>2, <3>3, AppendedFull
  <2>5. CASE cmd[p].kind \in Rewrites
    <3>1. /\ intact.form = "toml" /\ cmd[p].name \in NamesIn(intact) /\ torn = {}
          /\ buf[p] = Written(Changed(intact, cmd[p]))
      BY <2>1, <2>5 DEF HandInv, Rewrites
    <3>2. Distinct(intact) /\ Full(intact)
      BY <3>1 DEF AloneInv, FullInv
    <3> QED
      BY <2>1, <3>1, <3>2, ChangedFull
  <2> QED
    BY <2>2, <2>3, <2>4, <2>5 DEF Kinds, Rewrites
<1> QED
  BY <1>2, <1>3

LEMMA NextFullInv ==
    ASSUME FullAlone
    PROVE  EditInv /\ AloneInv /\ HandInv /\ FullInv /\ [SyncNext]_syncVars => FullInv'
<1> SUFFICES ASSUME EditInv, AloneInv, HandInv, FullInv, [SyncNext]_syncVars
             PROVE FullInv'
  OBVIOUS
<1>1. CASE Next
  <2>1. ASSUME NEW p \in Editor, Alone(p)' PROVE FullInv'
    BY <1>1, <2>1, NextIsAlone, NextFull
  <2> QED
    BY <2>1 DEF FullInv
<1>2. CASE EditConfig
  BY <1>2 DEF EditConfig, EditInv, ShapeInv, FullInv, FullAlone, Alone
<1>3. CASE UNCHANGED vars
  BY <1>3 DEF vars, history, FullInv, Alone
<1> QED
  BY <1>1, <1>2, <1>3
     DEF SyncNext, syncVars, StartDaemon, SavedAll, LoadJobs, GoDown, SaveJob

\* README:152: what the daemon makes of every job the command does not name, and
\* of every field edit is not given, is what it made of it before, whatever
\* commands have been carried out between, provided that the texts at first and
\* those of init set no list to be empty: writeFile drops such a list.
THEOREM SpecOthersKept == FullAlone => (SyncSpec => OthersKept)
<1> SUFFICES ASSUME FullAlone PROVE SyncSpec => OthersKept
  OBVIOUS
<1> DEFINE Keeps(p) ==
       Write(p) /\ cmd[p].kind \in {"remove", "edit"} /\ torn = {} /\ Alone(p) =>
           Kept(cmd[p], intact, file')
<1>1. SyncInit => EditInv /\ AloneInv /\ HandInv /\ FullInv
  <2> SUFFICES ASSUME Init PROVE HandInv /\ FullInv
    BY InitEditInv, InitAloneInv DEF SyncInit
  <2>1. \A p \in Editor : pc[p] = "idle"
    BY DEF Init
  <2>2. FullInv
    BY DEF Init, FullAlone, FullInv, Alone
  <2> QED
    BY <2>1, <2>2 DEF HandInv
<1>2. AloneInv /\ HandInv /\ FullInv => \A p \in Editor : Keeps(p)
  <2> SUFFICES ASSUME AloneInv, HandInv, FullInv, NEW p \in Editor, Write(p),
                      cmd[p].kind \in {"remove", "edit"}, torn = {}, Alone(p)
               PROVE  Kept(cmd[p], intact, file')
    OBVIOUS
  <2>1. file' = buf[p] /\ pc[p] = "write"
    BY WriteIsBuf DEF Write
  <2>2. /\ intact.form = "toml" /\ cmd[p].name \in NamesIn(intact)
        /\ buf[p] = Written(Changed(intact, cmd[p]))
    BY <2>1 DEF HandInv, Rewrites
  <2>3. Distinct(intact) /\ Full(intact)
    BY DEF AloneInv, FullInv
  <2> QED
    BY <2>1, <2>2, <2>3, ChangedKeeps DEF Rewrites
<1>3. AloneInv /\ HandInv /\ FullInv => [\A p \in Editor : Keeps(p)]_vars
  BY <1>2
<1> QED
  BY <1>1, <1>3, NextEditInv, NextAloneInv, NextHandInv, NextFullInv, PTL
     DEF SyncSpec, OthersKept
=============================================================================
