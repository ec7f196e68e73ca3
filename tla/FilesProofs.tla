---------------------------- MODULE FilesProofs ------------------------------
(***************************************************************************)
(* Proofs about files and pipes, for every number of processes and         *)
(* descriptors and every size of a buffer.                                 *)
(***************************************************************************)
EXTENDS Files, FiniteSetTheorems, TLAPS

-----------------------------------------------------------------------------
(* The names of a file, over all processes.                                *)

Places == Procs \X Fd
Names(f) == {n \in Places : objects[n[1]][n[2]] = f}

(***************************************************************************)
(* The inductive invariant: the counter of a file that open() made is at   *)
(* least the number of its names; a process that does not exist has no     *)
(* names, so that clone() overwrites none; and a file that was not made    *)
(* has none either, so that open() starts from one.                        *)
(***************************************************************************)
Counted == \A f \in Regular : Cardinality(Names(f)) <= fd_counter[f]
Unborn == \A p \in Procs \ running : \A fd \in Fd : objects[p][fd] = None
Unmade == \A f \in Regular \ made : f \notin closed /\ Names(f) = {}

FdInv == FdTypeOK /\ Counted /\ Unborn /\ Unmade /\ NamedIsOpen

LEMMA NamesFinite ==
    ASSUME NEW f
    PROVE  IsFiniteSet(Names(f)) /\ Cardinality(Names(f)) \in Nat
<1>1. IsFiniteSet(Fd)
  BY FdAssumption, FS_Interval DEF Fd
<1>2. IsFiniteSet(Places)
  BY <1>1, FdAssumption, FS_Product DEF Places
<1>3. Names(f) \in SUBSET Places
  BY DEF Names
<1> QED BY <1>2, <1>3, FS_Subset, FS_CardinalityType

(* What a call does to the names of a file.                                *)
LEMMA PointNames ==
    ASSUME FdTypeOK, NEW p \in Procs, NEW fd \in Fd, NEW g, Point(p, fd, g), NEW f
    PROVE  /\ objects' \in [Procs -> [Fd -> Files \cup {None, g}]]
           /\ \A q \in Procs : \A i \in Fd :
                objects'[q][i] = IF q = p /\ i = fd THEN g ELSE objects[q][i]
           /\ Names(f)' = IF f = g THEN Names(f) \cup {<<p, fd>>} ELSE Names(f) \ {<<p, fd>>}
<1>1. \A q \in Procs : \A i \in Fd :
        objects'[q][i] = IF q = p /\ i = fd THEN g ELSE objects[q][i]
  BY DEF Point, FdTypeOK
<1>2. \A n \in Places :
        objects'[n[1]][n[2]] = IF n = <<p, fd>> THEN g ELSE objects[n[1]][n[2]]
  BY <1>1 DEF Places
<1>3. <<p, fd>> \in Places
  BY DEF Places
<1>4. Names(f)' = IF f = g THEN Names(f) \cup {<<p, fd>>} ELSE Names(f) \ {<<p, fd>>}
  BY <1>2, <1>3 DEF Names
<1>5. objects' \in [Procs -> [Fd -> Files \cup {None, g}]]
  BY DEF Point, FdTypeOK
<1> QED BY <1>1, <1>4, <1>5

(* A place that holds nothing else is gained or lost.                      *)
LEMMA GainName ==
    ASSUME NEW f, NEW x, x \notin Names(f), Names(f)' = Names(f) \cup {x}
    PROVE  Cardinality(Names(f))' = Cardinality(Names(f)) + 1
BY NamesFinite, FS_AddElement

LEMMA LoseName ==
    ASSUME NEW f, NEW x, Names(f)' = Names(f) \ {x}
    PROVE  Cardinality(Names(f))' = IF x \in Names(f) THEN Cardinality(Names(f)) - 1
                                    ELSE Cardinality(Names(f))
BY NamesFinite, FS_RemoveElement

LEMMA NamesOf ==
    ASSUME NEW f, NEW p \in Procs, NEW fd \in Fd
    PROVE  <<p, fd>> \in Names(f) <=> objects[p][fd] = f
BY DEF Names, Places

LEMMA SameCount ==
    ASSUME FdInv, NEW g \in Regular, Names(g)' = Names(g), fd_counter'[g] = fd_counter[g]
    PROVE  Cardinality(Names(g))' <= fd_counter'[g]
BY DEF FdInv, Counted

LEMMA RegularIsFile == \A f \in Regular : f \in Files /\ f \notin {None, Stdio, ReadEnd, WriteEnd}
BY FdAssumption DEF Files

LEMMA OpenStep ==
    ASSUME FdInv, NEW p \in running, NEW f \in Regular, do_read_file_from_disk(p, f)
    PROVE  FdInv'
<1>1. /\ FdTypeOK /\ p \in Procs /\ f \in Files /\ f \notin made /\ f # None
      /\ Names(f) = {} /\ f \notin closed
  BY RegularIsFile DEF FdInv, Unmade, FdTypeOK, do_read_file_from_disk
<1>2. PICK fd \in Fd : objects[p][fd] = None /\ Point(p, fd, f)
  BY DEF do_read_file_from_disk, FirstFree
<1>3. /\ fd_counter' = [fd_counter EXCEPT ![f] = 1] /\ made' = made \cup {f}
      /\ UNCHANGED <<running, closed>>
  BY DEF do_read_file_from_disk
<1>4. ASSUME NEW g, g # None PROVE Names(g)' = IF g = f THEN {<<p, fd>>} ELSE Names(g)
  <2>1. <<p, fd>> \notin Names(g)
    BY <1>1, <1>2, <1>4, NamesOf
  <2>2. Names(g)' = IF g = f THEN Names(g) \cup {<<p, fd>>} ELSE Names(g) \ {<<p, fd>>}
    BY <1>1, <1>2, PointNames
  <2> QED BY <1>1, <2>1, <2>2
<1>5. /\ objects' \in [Procs -> [Fd -> Files \cup {None}]]
      /\ \A q \in Procs : \A i \in Fd :
           objects'[q][i] = IF q = p /\ i = fd THEN f ELSE objects[q][i]
  BY <1>1, <1>2, PointNames
<1>6. FdTypeOK'
  <2>1. fd_counter' \in [Files -> Int] /\ made' \subseteq Files
    BY <1>1, <1>3 DEF FdTypeOK
  <2>2. running' \subseteq Procs /\ closed' \subseteq Files
    BY <1>1, <1>3 DEF FdTypeOK
  <2> QED BY <1>5, <2>1, <2>2 DEF FdTypeOK
<1>7. Counted'
  <2> SUFFICES ASSUME NEW g \in Regular PROVE Cardinality(Names(g))' <= fd_counter'[g]
    BY DEF Counted
  <2>1. g # None /\ g \in Files
    BY RegularIsFile
  <2>2. CASE g = f
    <3>1. Names(g)' = {<<p, fd>>} /\ fd_counter'[g] = 1
      BY <1>1, <1>3, <1>4, <2>1, <2>2 DEF FdTypeOK
    <3>2. Cardinality({<<p, fd>>}) = 1
      BY FS_Singleton
    <3> QED BY <3>1, <3>2
  <2>3. CASE g # f
    BY <1>1, <1>3, <1>4, <2>1, <2>3, SameCount DEF FdTypeOK
  <2> QED BY <2>2, <2>3
<1>8. Unborn'
  BY <1>3, <1>5 DEF FdInv, Unborn
<1>9. Unmade'
  <2> SUFFICES ASSUME NEW g \in Regular \ made' PROVE g \notin closed' /\ Names(g)' = {}
    BY DEF Unmade
  <2>1. g # f /\ g # None
    BY <1>3, RegularIsFile
  <2> QED BY <1>3, <1>4, <2>1 DEF FdInv, Unmade
<1>10. NamedIsOpen'
  BY <1>1, <1>3, <1>5 DEF FdInv, NamedIsOpen
<1> QED BY <1>6, <1>7, <1>8, <1>9, <1>10 DEF FdInv

LEMMA SameNames ==
    ASSUME NEW f, \A q \in Procs : \A i \in Fd : objects'[q][i] = f <=> objects[q][i] = f
    PROVE  Names(f)' = Names(f)
<1>1. \A n \in Places : objects'[n[1]][n[2]] = f <=> objects[n[1]][n[2]] = f
  BY DEF Places
<1> QED BY <1>1 DEF Names

(* A call that gives and takes no name of a regular file.                  *)
LEMMA OtherFilesStep ==
    ASSUME FdInv, FdTypeOK', UNCHANGED <<running, closed>>, made \subseteq made',
           \A q \in Procs \ running : objects'[q] = objects[q],
           \A f \in Regular : /\ fd_counter'[f] = fd_counter[f]
                              /\ f \in made' => f \in made
                              /\ \A q \in Procs : \A i \in Fd :
                                   objects'[q][i] = f <=> objects[q][i] = f
    PROVE  FdInv'
<1>1. ASSUME NEW f \in Regular PROVE Names(f)' = Names(f)
  BY SameNames
<1>2. Counted'
  BY <1>1, SameCount DEF Counted
<1>3. Unborn' /\ NamedIsOpen'
  BY DEF FdInv, Unborn, NamedIsOpen
<1>4. Unmade'
  <2> SUFFICES ASSUME NEW g \in Regular \ made' PROVE g \notin closed' /\ Names(g)' = {}
    BY DEF Unmade
  <2> QED BY <1>1 DEF FdInv, Unmade
<1> QED BY <1>2, <1>3, <1>4 DEF FdInv

LEMMA PipeStep ==
    ASSUME FdInv, NEW p \in running, sys_pipe(p)
    PROVE  FdInv'
<1>1. FdTypeOK /\ p \in Procs
  BY DEF FdInv, FdTypeOK
<1>2. PICK a \in Fd, b \in Fd :
        /\ objects[p][a] = None /\ objects[p][b] = None
        /\ objects' = [objects EXCEPT ![p][a] = ReadEnd, ![p][b] = WriteEnd]
  BY DEF sys_pipe, FirstFree
<1>3. PICK x \in Int, y \in Int :
        fd_counter' = [fd_counter EXCEPT ![ReadEnd] = x, ![WriteEnd] = y]
  BY FdAssumption DEF sys_pipe
<1>4. made' = made \cup {ReadEnd, WriteEnd} /\ UNCHANGED <<running, closed>>
  BY DEF sys_pipe
<1>5. ReadEnd \in Files /\ WriteEnd \in Files
  BY DEF Files
<1>6. /\ objects' \in [Procs -> [Fd -> Files \cup {None}]]
      /\ \A q \in Procs : q # p => objects'[q] = objects[q]
      /\ \A q \in Procs : \A i \in Fd :
           \/ objects'[q][i] = objects[q][i]
           \/ objects[q][i] = None /\ objects'[q][i] \in {ReadEnd, WriteEnd}
  BY <1>1, <1>2, <1>5 DEF FdTypeOK
<1>7. fd_counter' \in [Files -> Int] /\ made' \subseteq Files
  BY <1>1, <1>3, <1>4, <1>5 DEF FdTypeOK
<1>8. FdTypeOK'
  <2>1. running' \subseteq Procs /\ closed' \subseteq Files
    BY <1>1, <1>4 DEF FdTypeOK
  <2> QED BY <1>6, <1>7, <2>1 DEF FdTypeOK
<1>9. \A f \in Regular : /\ fd_counter'[f] = fd_counter[f]
                         /\ f \in made' => f \in made
                         /\ \A q \in Procs : \A i \in Fd :
                              objects'[q][i] = f <=> objects[q][i] = f
  BY <1>1, <1>3, <1>4, <1>6, RegularIsFile DEF FdTypeOK
<1> QED BY <1>4, <1>6, <1>8, <1>9, OtherFilesStep

LEMMA DupStep ==
    ASSUME FdInv, NEW p \in running, NEW old \in Fd, sys_dup(p, old)
    PROVE  FdInv'
<1> DEFINE f == objects[p][old]
<1>1. FdTypeOK /\ p \in Procs /\ f \in Files
  BY DEF FdInv, FdTypeOK, sys_dup
<1>2. PICK fd \in Fd : objects[p][fd] = None /\ Point(p, fd, f)
  BY DEF sys_dup, FirstFree
<1>3. fd_counter' = [fd_counter EXCEPT ![f] = @ + 1] /\ UNCHANGED <<running, made, closed>>
  BY DEF sys_dup
<1>4. ASSUME NEW g, g # None
      PROVE  /\ Names(g)' = IF g = f THEN Names(g) \cup {<<p, fd>>} ELSE Names(g)
             /\ <<p, fd>> \notin Names(g)
  <2>1. <<p, fd>> \notin Names(g)
    BY <1>1, <1>2, <1>4, NamesOf
  <2>2. Names(g)' = IF g = f THEN Names(g) \cup {<<p, fd>>} ELSE Names(g) \ {<<p, fd>>}
    BY <1>1, <1>2, PointNames
  <2> QED BY <2>1, <2>2
<1>5. /\ objects' \in [Procs -> [Fd -> Files \cup {None}]]
      /\ \A q \in Procs : \A i \in Fd :
           objects'[q][i] = IF q = p /\ i = fd THEN f ELSE objects[q][i]
  <2> HIDE DEF f
  <2>1. objects' \in [Procs -> [Fd -> Files \cup {None, f}]]
    BY <1>1, <1>2, PointNames
  <2>2. Files \cup {None, f} = Files \cup {None}
    BY <1>1
  <2>3. \A q \in Procs : \A i \in Fd :
           objects'[q][i] = IF q = p /\ i = fd THEN f ELSE objects[q][i]
    BY <1>1, <1>2, PointNames
  <2> QED BY <2>1, <2>2, <2>3
<1>6. FdTypeOK'
  <2> HIDE DEF f
  <2>1. fd_counter' \in [Files -> Int]
    BY <1>1, <1>3 DEF FdTypeOK
  <2>2. running' \subseteq Procs /\ closed' \subseteq Files /\ made' \subseteq Files
    BY <1>1, <1>3 DEF FdTypeOK
  <2> QED BY <1>5, <2>1, <2>2 DEF FdTypeOK
<1>7. f \in Regular => f \notin closed /\ f \in made
  BY <1>1, NamesOf DEF FdInv, NamedIsOpen, Unmade
<1> HIDE DEF f
<1>8. Counted'
  <2> SUFFICES ASSUME NEW g \in Regular PROVE Cardinality(Names(g))' <= fd_counter'[g]
    BY DEF Counted
  <2>1. g # None /\ g \in Files
    BY RegularIsFile
  <2>2. CASE g = f
    <3>1. Names(g)' = Names(g) \cup {<<p, fd>>} /\ <<p, fd>> \notin Names(g)
      BY <1>4, <2>1, <2>2
    <3>2. Cardinality(Names(g))' = Cardinality(Names(g)) + 1
      BY <3>1, GainName
    <3>3. fd_counter'[g] = fd_counter[g] + 1 /\ fd_counter[g] \in Int
      BY <1>1, <1>3, <2>1, <2>2 DEF FdTypeOK
    <3>4. Cardinality(Names(g)) <= fd_counter[g] /\ Cardinality(Names(g)) \in Nat
      BY NamesFinite DEF FdInv, Counted
    <3> QED BY <3>2, <3>3, <3>4
  <2>3. CASE g # f
    BY <1>1, <1>3, <1>4, <2>1, <2>3, SameCount DEF FdTypeOK
  <2> QED BY <2>2, <2>3
<1>9. Unborn'
  BY <1>3, <1>5 DEF FdInv, Unborn
<1>10. Unmade'
  <2> SUFFICES ASSUME NEW g \in Regular \ made' PROVE g \notin closed' /\ Names(g)' = {}
    BY DEF Unmade
  <2>1. g # f /\ g # None
    BY <1>3, <1>7, RegularIsFile
  <2> QED BY <1>3, <1>4, <2>1 DEF FdInv, Unmade
<1>11. NamedIsOpen'
  BY <1>3, <1>5, <1>7 DEF FdInv, NamedIsOpen
<1> QED BY <1>6, <1>8, <1>9, <1>10, <1>11 DEF FdInv

(* dup2 closes a regular file only when it takes the last name away.       *)
LEMMA ClosesLastName ==
    ASSUME FdInv, NEW p \in running, NEW old \in Fd, NEW new \in Fd, old # new,
           NEW g \in Regular, objects[p][new] = g, fd_counter[g] - 1 <= 0
    PROVE  Names(g) = {<<p, new>>} /\ objects[p][old] # g
<1>1. p \in Procs /\ fd_counter[g] \in Int
  BY RegularIsFile DEF FdInv, FdTypeOK
<1>2. <<p, new>> \in Names(g) /\ (<<p, old>> \in Names(g) <=> objects[p][old] = g)
  BY <1>1, NamesOf
<1>3. Cardinality(Names(g)) \in Nat /\ IsFiniteSet(Names(g)) /\ Cardinality(Names(g)) <= 1
  BY <1>1, NamesFinite DEF FdInv, Counted
<1>4. Cardinality(Names(g)) = 1
  <2>1. Cardinality(Names(g)) # 0
    BY <1>2, <1>3, FS_EmptySet
  <2> QED BY <1>3, <2>1
<1>5. PICK x : Names(g) = {x}
  BY <1>3, <1>4, FS_Singleton
<1> QED BY <1>2, <1>5

LEMMA Dup2Step ==
    ASSUME FdInv, NEW p \in running, NEW old \in Fd, NEW new \in Fd, sys_dup2(p, old, new)
    PROVE  FdInv'
<1> DEFINE x == <<p, new>>
<1>a. PICK f, g : f = objects[p][old] /\ g = objects[p][new]
  OBVIOUS
<1>1. FdTypeOK /\ p \in Procs /\ f \in Files /\ g \in Files \cup {None} /\ old # new
  BY <1>a DEF FdInv, FdTypeOK, sys_dup2
<1>2. Point(p, new, f) /\ UNCHANGED <<running, made>>
  BY <1>a DEF sys_dup2
<1>3. /\ fd_counter' \in [Files -> Int]
      /\ \A h \in Files : fd_counter'[h] = IF h = f /\ h # g THEN fd_counter[h] + 1
                                           ELSE IF h = g /\ h # f THEN fd_counter[h] - 1
                                           ELSE fd_counter[h]
  <2>1. fd_counter' = [Released(g) EXCEPT ![f] = @ + 1]
    BY <1>a DEF sys_dup2
  <2>2. CASE g = None
    BY <1>1, <2>1, <2>2, FdAssumption DEF FdTypeOK, Released
  <2>3. CASE g # None
    <3>1. Released(g) = [fd_counter EXCEPT ![g] = @ - 1]
      BY <2>3 DEF Released
    <3> QED BY <1>1, <2>1, <2>3, <3>1 DEF FdTypeOK
  <2> QED BY <2>2, <2>3
<1>4. closed' = IF g # None /\ fd_counter[g] - 1 <= 0 THEN closed \cup {g} ELSE closed
  <2>1. closed' = IF Unused(g) THEN closed \cup {g} ELSE closed
    BY <1>a DEF sys_dup2
  <2>2. Unused(g) <=> g # None /\ fd_counter[g] - 1 <= 0
    BY <1>1 DEF Unused, Released, FdTypeOK
  <2> QED BY <2>1, <2>2
<1>5. /\ f \in Regular => f \in made /\ f \notin closed
      /\ g \in Regular => g \in made
  BY <1>a, <1>1, NamesOf DEF FdInv, NamedIsOpen, Unmade
<1>6. g \in Regular /\ g \in closed' => g # f /\ Names(g) = {x}
  BY <1>a, <1>1, <1>4, ClosesLastName DEF FdInv, NamedIsOpen
<1>7. ASSUME NEW h
      PROVE  /\ Names(h)' = IF h = f THEN Names(h) \cup {x} ELSE Names(h) \ {x}
             /\ x \in Names(h) <=> h = g
  BY <1>a, <1>1, <1>2, PointNames, NamesOf
<1>8. /\ objects' \in [Procs -> [Fd -> Files \cup {None}]]
      /\ \A q \in Procs : \A i \in Fd :
           objects'[q][i] = IF q = p /\ i = new THEN f ELSE objects[q][i]
  <2>1. objects' \in [Procs -> [Fd -> Files \cup {None, f}]]
    BY <1>1, <1>2, PointNames
  <2>2. Files \cup {None, f} = Files \cup {None}
    BY <1>1
  <2>3. \A q \in Procs : \A i \in Fd :
           objects'[q][i] = IF q = p /\ i = new THEN f ELSE objects[q][i]
    BY <1>1, <1>2, PointNames
  <2> QED BY <2>1, <2>2, <2>3
<1>9. FdTypeOK'
  <2>1. running' \subseteq Procs /\ closed' \subseteq Files /\ made' \subseteq Files
    BY <1>1, <1>2, <1>4 DEF FdTypeOK
  <2> QED BY <1>3, <1>8, <2>1 DEF FdTypeOK
<1>10. Counted'
  <2> SUFFICES ASSUME NEW h \in Regular PROVE Cardinality(Names(h))' <= fd_counter'[h]
    BY DEF Counted
  <2>1. /\ h \in Files /\ fd_counter[h] \in Int /\ Cardinality(Names(h)) \in Nat
        /\ Cardinality(Names(h)) <= fd_counter[h]
    BY <1>1, RegularIsFile, NamesFinite DEF FdInv, FdTypeOK, Counted
  <2>2. CASE h = f /\ h # g
    BY <1>3, <1>7, <2>1, <2>2, GainName
  <2>3. CASE h = g /\ h # f
    BY <1>3, <1>7, <2>1, <2>3, LoseName
  <2>4. CASE (h = f) <=> (h = g)
    <3>1. Names(h)' = Names(h)
      BY <1>7, <2>4
    <3>2. fd_counter'[h] = fd_counter[h]
      BY <1>3, <2>1, <2>4
    <3> QED BY <3>1, <3>2, SameCount
  <2> QED BY <2>2, <2>3, <2>4
<1>11. Unborn'
  BY <1>2, <1>8 DEF FdInv, Unborn
<1>12. Unmade'
  <2> SUFFICES ASSUME NEW h \in Regular \ made' PROVE h \notin closed' /\ Names(h)' = {}
    BY DEF Unmade
  <2>1. h # f /\ h # g /\ Names(h) = {} /\ h \notin closed
    BY <1>2, <1>5 DEF FdInv, Unmade
  <2> QED BY <1>4, <1>7, <2>1
<1>13. NamedIsOpen'
  <2> SUFFICES ASSUME NEW q \in Procs, NEW i \in Fd, objects'[q][i] \in Regular,
                      objects'[q][i] \in closed'
               PROVE  FALSE
    BY DEF NamedIsOpen
  <2>1. CASE objects'[q][i] = g
    <3>1. Names(g)' = {}
      BY <1>6, <1>7, <2>1
    <3>2. <<q, i>> \in Names(g)'
      BY <2>1 DEF Names, Places
    <3> QED BY <3>1, <3>2
  <2>2. CASE objects'[q][i] # g
    BY <1>4, <1>5, <1>8, <2>2 DEF FdInv, NamedIsOpen
  <2> QED BY <2>1, <2>2
<1> QED BY <1>9, <1>10, <1>11, <1>12, <1>13 DEF FdInv

LEMMA CloseStep ==
    ASSUME FdInv, NEW p \in running, NEW fd \in Fd, sys_close_file(p, fd)
    PROVE  FdInv'
<1>1. /\ FdTypeOK /\ p \in Procs /\ Point(p, fd, None)
      /\ UNCHANGED <<running, made, fd_counter, closed>>
  BY DEF FdInv, FdTypeOK, sys_close_file
<1>2. /\ objects' \in [Procs -> [Fd -> Files \cup {None}]]
      /\ \A q \in Procs : \A i \in Fd :
           objects'[q][i] = IF q = p /\ i = fd THEN None ELSE objects[q][i]
  BY <1>1, PointNames
<1>3. FdTypeOK'
  BY <1>1, <1>2 DEF FdTypeOK
<1>4. ASSUME NEW h \in Regular PROVE Names(h)' = Names(h) \ {<<p, fd>>}
  BY <1>1, PointNames, RegularIsFile
<1>5. Counted'
  <2> SUFFICES ASSUME NEW h \in Regular PROVE Cardinality(Names(h))' <= fd_counter'[h]
    BY DEF Counted
  <2>1. /\ fd_counter[h] \in Int /\ Cardinality(Names(h)) \in Nat
        /\ Cardinality(Names(h)) <= fd_counter[h]
    BY <1>1, RegularIsFile, NamesFinite DEF FdInv, FdTypeOK, Counted
  <2>2. Cardinality(Names(h))' = IF <<p, fd>> \in Names(h) THEN Cardinality(Names(h)) - 1
                                 ELSE Cardinality(Names(h))
    BY <1>4, LoseName
  <2> QED BY <1>1, <2>1, <2>2
<1>6. Unborn' /\ NamedIsOpen'
  BY <1>1, <1>2, RegularIsFile DEF FdInv, Unborn, NamedIsOpen
<1>7. Unmade'
  <2> SUFFICES ASSUME NEW h \in Regular \ made' PROVE h \notin closed' /\ Names(h)' = {}
    BY DEF Unmade
  <2> QED BY <1>1, <1>4 DEF FdInv, Unmade
<1> QED BY <1>3, <1>5, <1>6, <1>7 DEF FdInv

(* clone gives as many names as it counts.                                 *)
LEMMA CloneStep ==
    ASSUME FdInv, NEW p \in running, NEW q \in Procs, copy_process_struct(p, q)
    PROVE  FdInv'
<1>1. /\ FdTypeOK /\ p \in Procs /\ q \notin running /\ p # q
      /\ objects' = [objects EXCEPT ![q] = objects[p]]
      /\ fd_counter' = [f \in Files |-> fd_counter[f] + NamesIn(p, f)]
      /\ running' = running \cup {q} /\ UNCHANGED <<made, closed>>
  BY DEF FdInv, FdTypeOK, copy_process_struct
<1>2. ASSUME NEW f
      PROVE  /\ NamesIn(p, f) \in Nat
             /\ f # None => /\ IsFiniteSet({q} \X {fd \in Fd : objects[p][fd] = f})
                            /\ Cardinality({q} \X {fd \in Fd : objects[p][fd] = f})
                                 = NamesIn(p, f)
  <2> DEFINE S == {fd \in Fd : objects[p][fd] = f}
  <2>1. IsFiniteSet(Fd) /\ S \in SUBSET Fd
    BY FdAssumption, FS_Interval DEF Fd
  <2>2. IsFiniteSet(S) /\ Cardinality(S) \in Nat
    BY <2>1, FS_Subset, FS_CardinalityType
  <2>3. IsFiniteSet({q}) /\ Cardinality({q}) = 1
    BY FS_Singleton
  <2> HIDE DEF S
  <2>4. IsFiniteSet({q} \X S) /\ Cardinality({q} \X S) = 1 * Cardinality(S)
    BY <2>2, <2>3, FS_Product
  <2> QED BY <2>2, <2>4 DEF S, NamesIn
<1>3. ASSUME NEW f, f # None
      PROVE  /\ Names(f)' = Names(f) \cup ({q} \X {fd \in Fd : objects[p][fd] = f})
             /\ Names(f) \cap ({q} \X {fd \in Fd : objects[p][fd] = f}) = {}
  <2>1. \A n \in Places :
          objects'[n[1]][n[2]] = IF n[1] = q THEN objects[p][n[2]] ELSE objects[n[1]][n[2]]
    BY <1>1 DEF FdTypeOK, Places
  <2>2. \A i \in Fd : objects[q][i] # f
    BY <1>1, <1>3 DEF FdInv, Unborn
  <2>3. \A n \in Places : n[1] = q => n \notin Names(f)
    BY <2>2 DEF Names, Places
  <2> QED BY <1>1, <2>1, <2>3 DEF Names, Places
<1>4. FdTypeOK'
  <2>1. objects' \in [Procs -> [Fd -> Files \cup {None}]]
    BY <1>1 DEF FdTypeOK
  <2>2. fd_counter' \in [Files -> Int]
    <3>1. ASSUME NEW f \in Files PROVE fd_counter[f] + NamesIn(p, f) \in Int
      <4>1. fd_counter[f] \in Int
        BY <1>1 DEF FdTypeOK
      <4>2. NamesIn(p, f) \in Nat
        BY <1>2
      <4> QED BY <4>1, <4>2
    <3>2. fd_counter' = [f \in Files |-> fd_counter[f] + NamesIn(p, f)]
      BY <1>1
    <3> QED BY <3>1, <3>2
  <2> QED BY <1>1, <2>1, <2>2 DEF FdTypeOK
<1>5. Counted'
  <2> SUFFICES ASSUME NEW f \in Regular PROVE Cardinality(Names(f))' <= fd_counter'[f]
    BY DEF Counted
  <2> DEFINE N == {q} \X {fd \in Fd : objects[p][fd] = f}
  <2>1. f # None /\ f \in Files
    BY RegularIsFile
  <2>2. Names(f)' = Names(f) \cup N /\ Names(f) \cap N = {}
    BY <1>3, <2>1
  <2>3. IsFiniteSet(N) /\ Cardinality(N) = NamesIn(p, f) /\ NamesIn(p, f) \in Nat
    BY <1>2, <2>1
  <2> HIDE DEF N
  <2>4. Cardinality(Names(f) \cup N) = Cardinality(Names(f)) + Cardinality(N) - Cardinality({})
    BY <2>2, <2>3, NamesFinite, FS_Union
  <2>5. Cardinality({}) = 0
    BY FS_EmptySet
  <2>6. Cardinality(Names(f))' = Cardinality(Names(f)) + NamesIn(p, f)
    BY <2>2, <2>3, <2>4, <2>5, NamesFinite
  <2>7. fd_counter'[f] = fd_counter[f] + NamesIn(p, f) /\ fd_counter[f] \in Int
    BY <1>1, <2>1 DEF FdTypeOK
  <2>8. Cardinality(Names(f)) <= fd_counter[f] /\ Cardinality(Names(f)) \in Nat
    BY NamesFinite DEF FdInv, Counted
  <2> QED BY <2>3, <2>6, <2>7, <2>8
<1>6. Unborn'
  BY <1>1 DEF FdInv, FdTypeOK, Unborn
<1>7. Unmade'
  <2> SUFFICES ASSUME NEW f \in Regular \ made' PROVE f \notin closed' /\ Names(f)' = {}
    BY DEF Unmade
  <2>1. f # None /\ Names(f) = {} /\ f \notin closed
    BY <1>1, RegularIsFile DEF FdInv, Unmade
  <2>2. \A fd \in Fd : objects[p][fd] # f
    BY <1>1, <2>1, NamesOf
  <2> QED BY <1>1, <1>3, <2>1, <2>2
<1>8. NamedIsOpen'
  BY <1>1 DEF FdInv, FdTypeOK, NamedIsOpen
<1> QED BY <1>4, <1>5, <1>6, <1>7, <1>8 DEF FdInv

LEMMA FdStep ==
    ASSUME FdInv, NEW p \in running, FdCall(p)
    PROVE  FdInv'
<1>1. CASE \E fd \in Fd : sys_dup2_same(p, fd)
  BY <1>1 DEF sys_dup2_same, fdVars, FdInv, FdTypeOK, Counted, Unborn, Unmade, NamedIsOpen, Names
<1>2. CASE ~\E fd \in Fd : sys_dup2_same(p, fd)
  BY <1>2, OpenStep, PipeStep, DupStep, Dup2Step, CloseStep, CloneStep DEF FdCall, sys_dup2
<1> QED BY <1>1, <1>2

LEMMA FirstFdInv == FdInit => FdInv
<1> SUFFICES ASSUME FdInit PROVE FdInv
  OBVIOUS
<1>1. \A q \in Procs : \A i \in Fd : objects[q][i] \in {Stdio, None}
  BY DEF FdInit
<1>2. FdTypeOK
  BY FdAssumption DEF FdInit, FdTypeOK, Files
<1>3. \A f \in Regular : Names(f) = {} /\ fd_counter[f] = 1
  BY <1>1, RegularIsFile DEF Names, Places, FdInit
<1>4. Counted
  BY <1>3, FS_EmptySet DEF Counted
<1>5. Unborn /\ Unmade /\ NamedIsOpen
  BY <1>1, <1>3, RegularIsFile DEF FdInit, Unborn, Unmade, NamedIsOpen
<1> QED BY <1>2, <1>4, <1>5 DEF FdInv

(***************************************************************************)
(* For any number of processes and descriptors: dup2() and dup3() never    *)
(* close a file that open() made while some process still names it.        *)
(***************************************************************************)
THEOREM NamedIsOpenCorrect == FilesSpec => []NamedIsOpen
<1>1. FilesInit => FdInv
  BY FirstFdInv DEF FilesInit
<1>2. FdInv /\ [FilesNext]_filesVars => FdInv'
  <2> SUFFICES ASSUME FdInv, [FilesNext]_filesVars PROVE FdInv'
    OBVIOUS
  <2>1. CASE UNCHANGED fdVars
    BY <2>1 DEF fdVars, FdInv, FdTypeOK, Counted, Unborn, Unmade, NamedIsOpen, Names
  <2> QED BY <2>1, FdStep DEF FilesNext, filesVars
<1>3. FdInv => NamedIsOpen
  BY DEF FdInv
<1> QED BY <1>1, <1>2, <1>3, PTL DEF FilesSpec

-----------------------------------------------------------------------------
(* Loops.  A loop of n turns is a recursive function on 0 .. n; that it    *)
(* exists is proved by induction on a set.                                 *)

(* Set induction, which needs no predicate as a parameter.                 *)
LEMMA SetInduction ==
    ASSUME NEW S \in SUBSET Nat, 0 \in S, \A n \in S : n + 1 \in S
    PROVE  S = Nat
<1> SUFFICES ASSUME S # Nat PROVE FALSE
  OBVIOUS
<1> DEFINE T == Nat \ S
<1>1. T # {} /\ T \subseteq Nat
  OBVIOUS
<1>2. \E x \in T : \A y \in T : ~(<<y, x>> \in OpToRel(<, Nat))
  <2> HIDE DEF T
  <2> QED BY <1>1, NatLessThanWellFounded, WFMin
<1>3. PICK x \in T : \A y \in T : ~(y < x)
  BY <1>2 DEF OpToRel
<1>4. x # 0 /\ x - 1 \in Nat
  OBVIOUS
<1>5. x - 1 \in S
  BY <1>3, <1>4
<1> QED BY <1>5

LEMMA LoopExists ==
    ASSUME NEW X, NEW a \in X, NEW n \in Nat, NEW G \in [X \X (1 .. n) -> X]
    PROVE  \E q \in [0 .. n -> X] :
             q = [i \in 0 .. n |-> IF i = 0 THEN a ELSE G[<<q[i - 1], i>>]]
<1> DEFINE Loop(m, q) == /\ q \in [0 .. m -> X] /\ q[0] = a
                         /\ \A i \in 1 .. m : q[i] = G[<<q[i - 1], i>>]
           S == {m \in Nat : m <= n => \E q : Loop(m, q)}
<1>1. 0 \in S
  <2>1. Loop(0, [i \in 0 .. 0 |-> a])
    OBVIOUS
  <2> QED BY <2>1
<1>2. ASSUME NEW m \in S PROVE m + 1 \in S
  <2> SUFFICES ASSUME m + 1 <= n PROVE \E q : Loop(m + 1, q)
    OBVIOUS
  <2>1. PICK q : Loop(m, q)
    OBVIOUS
  <2> DEFINE r == [i \in 0 .. (m + 1) |-> IF i <= m THEN q[i] ELSE G[<<q[m], m + 1>>]]
  <2>2. G[<<q[m], m + 1>>] \in X
    BY <2>1
  <2>3. r \in [0 .. (m + 1) -> X]
    BY <2>1, <2>2
  <2>4. ASSUME NEW i \in 1 .. (m + 1) PROVE r[i] = G[<<r[i - 1], i>>]
    <3>1. CASE i <= m
      <4>1. i - 1 \in 0 .. m /\ i \in 1 .. m /\ r[i - 1] = q[i - 1] /\ r[i] = q[i]
        BY <3>1
      <4> QED BY <2>1, <4>1
    <3>2. CASE i = m + 1
      <4>1. i - 1 = m /\ r[m] = q[m] /\ r[i] = G[<<q[m], m + 1>>]
        BY <3>2
      <4> QED BY <3>2, <4>1
    <3> QED BY <3>1, <3>2
  <2>5. r[0] = a
    BY <2>1
  <2> QED BY <2>3, <2>4, <2>5
<1>3. n \in S
  <2> HIDE DEF S
  <2>1. S \in SUBSET Nat
    BY DEF S
  <2> QED BY <1>1, <1>2, <2>1, SetInduction
<1>4. PICK q : Loop(n, q)
  BY <1>3
<1>5. q = [i \in 0 .. n |-> IF i = 0 THEN a ELSE G[<<q[i - 1], i>>]]
  BY <1>4
<1> QED BY <1>4, <1>5

(* The place of a position that has wrapped at most once.                  *)
Place(a, size) == IF a < size THEN a ELSE a - size

LEMMA ModIsPlace ==
    ASSUME NEW size \in Nat \ {0}, NEW a \in 0 .. (2 * size - 1)
    PROVE  a % size = Place(a, size)
<1>1. CASE a < size
  BY <1>1 DEF Place
<1>2. CASE a >= size
  BY <1>2 DEF Place
<1> QED BY <1>1, <1>2

-----------------------------------------------------------------------------
(* The pipe.                                                               *)

Ring == [base : [0 .. (BUFSIZ - 1) -> Bytes], counter : 0 .. BUFSIZ,
         read_pos : 0 .. BUFSIZ, write_pos : 0 .. BUFSIZ]

Byte(q, i) == q.base[Place(Wrapped(q.read_pos) + i - 1, BUFSIZ)]

(***************************************************************************)
(* What the two positions and the counter have to agree on, before they    *)
(* wrap or after: the next byte goes behind the last one.                  *)
(***************************************************************************)
RingInv(q) ==
    q \in Ring /\ Wrapped(q.write_pos) = Place(Wrapped(q.read_pos) + q.counter, BUFSIZ)

LEMMA RingRecord ==
    ASSUME NEW q \in Ring
    PROVE  /\ q = [base |-> q.base, counter |-> q.counter, read_pos |-> q.read_pos,
                   write_pos |-> q.write_pos]
           /\ q.base \in [0 .. (BUFSIZ - 1) -> Bytes] /\ q.counter \in 0 .. BUFSIZ
           /\ q.read_pos \in 0 .. BUFSIZ /\ q.write_pos \in 0 .. BUFSIZ
BY DEF Ring

LEMMA TakeByteMoves ==
    ASSUME NEW q, RingInv(q), ~Empty(q)
    PROVE  /\ RingInv(TakeByte(q)) /\ TakeByte(q).counter = q.counter - 1
           /\ q.base[Wrapped(q.read_pos)] = Byte(q, 1) /\ Byte(q, 1) \in Bytes
           /\ \A j \in 1 .. (q.counter - 1) : Byte(TakeByte(q), j) = Byte(q, j + 1)
<1>1. PICK r \in 0 .. BUFSIZ, w \in 0 .. BUFSIZ, c \in 1 .. BUFSIZ,
           b \in [0 .. (BUFSIZ - 1) -> Bytes] :
        /\ q = [base |-> b, counter |-> c, read_pos |-> r, write_pos |-> w]
        /\ q.base = b /\ q.counter = c /\ q.read_pos = r /\ q.write_pos = w
  <2>1. q.counter \in 1 .. BUFSIZ
    BY RingRecord, PipeAssumption DEF RingInv, Empty
  <2> QED BY <2>1, RingRecord DEF RingInv
<1>2. TakeByte(q) = [base |-> b, counter |-> c - 1, read_pos |-> Wrapped(r) + 1,
                     write_pos |-> w]
  <2> DEFINE d == [q EXCEPT !.read_pos = Wrapped(@) + 1]
  <2>1. TakeByte(q) = [d EXCEPT !.counter = c - 1]
    BY <1>1 DEF TakeByte
  <2>2. d = [base |-> b, counter |-> c, read_pos |-> Wrapped(r) + 1, write_pos |-> w]
    BY <1>1
  <2> HIDE DEF d
  <2> QED BY <2>1, <2>2
<1>3. Wrapped(r) \in 0 .. (BUFSIZ - 1) /\ Wrapped(w) = Place(Wrapped(r) + c, BUFSIZ)
  BY <1>1, PipeAssumption DEF RingInv, Wrapped
<1>4. TakeByte(q) \in Ring
  BY <1>2, <1>3, PipeAssumption DEF Ring
<1>5. Wrapped(w) = Place(Wrapped(Wrapped(r) + 1) + c - 1, BUFSIZ)
  BY <1>3, PipeAssumption DEF Wrapped, Place
<1>6. \A j \in 1 .. (c - 1) : Place(Wrapped(Wrapped(r) + 1) + j - 1, BUFSIZ)
                              = Place(Wrapped(r) + (j + 1) - 1, BUFSIZ)
  BY <1>3, PipeAssumption DEF Wrapped, Place
<1>7. Place(Wrapped(r) + 1 - 1, BUFSIZ) = Wrapped(r)
  BY <1>3, PipeAssumption DEF Place
<1>8. RingInv(TakeByte(q))
  BY <1>2, <1>4, <1>5 DEF RingInv
<1>9. ASSUME NEW j \in 1 .. (c - 1) PROVE Byte(TakeByte(q), j) = Byte(q, j + 1)
  <2>1. Byte(TakeByte(q), j) = b[Place(Wrapped(Wrapped(r) + 1) + j - 1, BUFSIZ)]
    BY <1>2 DEF Byte
  <2>2. Byte(q, j + 1) = b[Place(Wrapped(r) + (j + 1) - 1, BUFSIZ)]
    BY <1>1 DEF Byte
  <2> QED BY <1>6, <2>1, <2>2
<1>10. Byte(q, 1) = b[Wrapped(r)]
  BY <1>1, <1>7 DEF Byte
<1>11. b[Wrapped(r)] \in Bytes
  BY <1>3
<1> QED BY <1>1, <1>2, <1>8, <1>9, <1>10, <1>11

LEMMA PutByteMoves ==
    ASSUME NEW q, RingInv(q), ~Full(q), NEW x \in Bytes
    PROVE  /\ RingInv(PutByte(q, x)) /\ PutByte(q, x).counter = q.counter + 1
           /\ Byte(PutByte(q, x), q.counter + 1) = x
           /\ \A j \in 1 .. q.counter : Byte(PutByte(q, x), j) = Byte(q, j)
<1>1. PICK r \in 0 .. BUFSIZ, w \in 0 .. BUFSIZ, c \in 0 .. (BUFSIZ - 1),
           b \in [0 .. (BUFSIZ - 1) -> Bytes] :
        /\ q = [base |-> b, counter |-> c, read_pos |-> r, write_pos |-> w]
        /\ q.base = b /\ q.counter = c /\ q.read_pos = r /\ q.write_pos = w
  <2>1. q.counter \in 0 .. (BUFSIZ - 1)
    BY RingRecord, PipeAssumption DEF RingInv, Full
  <2> QED BY <2>1, RingRecord DEF RingInv
<1>2. PutByte(q, x) = [base |-> [b EXCEPT ![Wrapped(w)] = x], counter |-> c + 1,
                       read_pos |-> r, write_pos |-> Wrapped(w) + 1]
  <2> DEFINE d == [q EXCEPT !.base[Wrapped(q.write_pos)] = x]
             e == [d EXCEPT !.write_pos = Wrapped(w) + 1]
  <2>1. PutByte(q, x) = [e EXCEPT !.counter = c + 1]
    BY <1>1 DEF PutByte
  <2>2. d = [base |-> [b EXCEPT ![Wrapped(w)] = x], counter |-> c, read_pos |-> r,
             write_pos |-> w]
    BY <1>1
  <2> HIDE DEF d
  <2>3. e = [base |-> [b EXCEPT ![Wrapped(w)] = x], counter |-> c, read_pos |-> r,
             write_pos |-> Wrapped(w) + 1]
    BY <2>2
  <2> HIDE DEF e
  <2> QED BY <2>1, <2>3
<1>3. /\ Wrapped(r) \in 0 .. (BUFSIZ - 1) /\ Wrapped(w) \in 0 .. (BUFSIZ - 1)
      /\ Wrapped(w) = Place(Wrapped(r) + c, BUFSIZ)
  BY <1>1, PipeAssumption DEF RingInv, Wrapped
<1>4. PutByte(q, x) \in Ring
  BY <1>2, <1>3, PipeAssumption DEF Ring
<1>5. Wrapped(Wrapped(w) + 1) = Place(Wrapped(r) + c + 1, BUFSIZ)
  BY <1>3, PipeAssumption DEF Wrapped, Place
<1>6. \A j \in 1 .. c : /\ Place(Wrapped(r) + j - 1, BUFSIZ) # Wrapped(w)
                        /\ Place(Wrapped(r) + j - 1, BUFSIZ) \in 0 .. (BUFSIZ - 1)
  BY <1>3, PipeAssumption DEF Place
<1>7. Place(Wrapped(r) + (c + 1) - 1, BUFSIZ) = Wrapped(w)
  BY <1>3, PipeAssumption DEF Place
<1>8. RingInv(PutByte(q, x))
  <2>1. Wrapped(Wrapped(w) + 1) = Place(Wrapped(r) + (c + 1), BUFSIZ)
    BY <1>3, <1>5
  <2> QED BY <1>2, <1>4, <2>1 DEF RingInv
<1>9. ASSUME NEW j \in 1 .. c PROVE Byte(PutByte(q, x), j) = Byte(q, j)
  <2>1. Byte(PutByte(q, x), j) = [b EXCEPT ![Wrapped(w)] = x][Place(Wrapped(r) + j - 1, BUFSIZ)]
    BY <1>2 DEF Byte
  <2>2. Byte(q, j) = b[Place(Wrapped(r) + j - 1, BUFSIZ)]
    BY <1>1 DEF Byte
  <2> QED BY <1>6, <2>1, <2>2
<1>10. Byte(PutByte(q, x), c + 1) = x
  <2>1. Byte(PutByte(q, x), c + 1)
          = [b EXCEPT ![Wrapped(w)] = x][Place(Wrapped(r) + (c + 1) - 1, BUFSIZ)]
    BY <1>2 DEF Byte
  <2> QED BY <1>3, <1>7, <2>1
<1> QED BY <1>1, <1>2, <1>8, <1>9, <1>10

ContentOf(q) == [i \in 1 .. q.counter |-> Byte(q, i)]

LEMMA ContentIsBytes ==
    ASSUME NEW q, RingInv(q)
    PROVE  [i \in 1 .. q.counter |-> q.base[(q.read_pos + i - 1) % BUFSIZ]] = ContentOf(q)
<1>1. q.read_pos \in 0 .. BUFSIZ /\ q.counter \in 0 .. BUFSIZ
  BY RingRecord DEF RingInv
<1>2. ASSUME NEW r \in 0 .. BUFSIZ, NEW i \in 1 .. BUFSIZ
      PROVE  (r + i - 1) % BUFSIZ = Place(Wrapped(r) + i - 1, BUFSIZ)
  <2>1. (r + i - 1) % BUFSIZ = Place(r + i - 1, BUFSIZ)
    BY ModIsPlace, PipeAssumption
  <2> QED BY <2>1, PipeAssumption DEF Wrapped, Place
<1>3. ASSUME NEW i \in 1 .. q.counter
      PROVE  (q.read_pos + i - 1) % BUFSIZ = Place(Wrapped(q.read_pos) + i - 1, BUFSIZ)
  <2>1. i \in 1 .. BUFSIZ
    BY <1>1, PipeAssumption
  <2> QED BY <1>1, <1>2, <2>1
<1> QED BY <1>3 DEF ContentOf, Byte

(***************************************************************************)
(* The loop of a read exists, and is the function that it is written as.   *)
(***************************************************************************)
ReadState == [pi : Ring, out : Seq(Bytes)]

ReadLoop(n, q) ==
    q = [i \in 0 .. n |-> IF i = 0 THEN [pi |-> pipe_info, out |-> <<>>]
                          ELSE IF Empty(q[i - 1].pi) THEN q[i - 1]
                          ELSE [pi |-> TakeByte(q[i - 1].pi),
                                out |-> Append(q[i - 1].out,
                                          q[i - 1].pi.base[Wrapped(q[i - 1].pi.read_pos)])]]

LEMMA TakeByteType ==
    ASSUME NEW q \in Ring, ~Empty(q)
    PROVE  TakeByte(q) \in Ring /\ q.base[Wrapped(q.read_pos)] \in Bytes
<1> DEFINE d == [q EXCEPT !.read_pos = Wrapped(@) + 1]
<1>1. Wrapped(q.read_pos) \in 0 .. (BUFSIZ - 1)
  BY RingRecord, PipeAssumption DEF Wrapped
<1>2. d \in Ring /\ d.counter = q.counter
  BY <1>1, PipeAssumption DEF Ring
<1>3. q.counter - 1 \in 0 .. BUFSIZ
  BY RingRecord, PipeAssumption DEF Empty
<1>4. TakeByte(q) = [d EXCEPT !.counter = q.counter - 1]
  BY RingRecord DEF TakeByte
<1> HIDE DEF d
<1>5. TakeByte(q) \in Ring
  BY <1>2, <1>3, <1>4 DEF Ring
<1> QED BY <1>1, <1>5, RingRecord

LEMMA ReadLoopExists ==
    ASSUME pipe_info \in Ring, NEW n \in Nat
    PROVE  \E q \in [0 .. n -> ReadState] : ReadLoop(n, q)
<1> DEFINE G == [z \in ReadState \X (1 .. n) |->
                  IF Empty(z[1].pi) THEN z[1]
                  ELSE [pi |-> TakeByte(z[1].pi),
                        out |-> Append(z[1].out, z[1].pi.base[Wrapped(z[1].pi.read_pos)])]]
           a == [pi |-> pipe_info, out |-> <<>>]
<1>1. a \in ReadState
  BY DEF ReadState
<1>2. G \in [ReadState \X (1 .. n) -> ReadState]
  <2> SUFFICES ASSUME NEW x \in ReadState, ~Empty(x.pi)
               PROVE  [pi |-> TakeByte(x.pi),
                       out |-> Append(x.out, x.pi.base[Wrapped(x.pi.read_pos)])] \in ReadState
    OBVIOUS
  <2>1. x.pi \in Ring /\ x.out \in Seq(Bytes)
    BY DEF ReadState
  <2>2. TakeByte(x.pi) \in Ring /\ x.pi.base[Wrapped(x.pi.read_pos)] \in Bytes
    BY <2>1, TakeByteType
  <2> QED BY <2>1, <2>2 DEF ReadState
<1>3. PICK q \in [0 .. n -> ReadState] :
        q = [i \in 0 .. n |-> IF i = 0 THEN a ELSE G[<<q[i - 1], i>>]]
  <2> HIDE DEF G, a
  <2> QED BY <1>1, <1>2, LoopExists
<1>4. ASSUME NEW i \in 0 .. n, i # 0
      PROVE  G[<<q[i - 1], i>>] = IF Empty(q[i - 1].pi) THEN q[i - 1]
                                  ELSE [pi |-> TakeByte(q[i - 1].pi),
                                        out |-> Append(q[i - 1].out,
                                           q[i - 1].pi.base[Wrapped(q[i - 1].pi.read_pos)])]
  <2>1. i - 1 \in 0 .. n /\ i \in 1 .. n
    BY <1>4
  <2>2. <<q[i - 1], i>> \in ReadState \X (1 .. n)
    BY <2>1
  <2> QED BY <2>2
<1>5. ReadLoop(n, q)
  <2> HIDE DEF G
  <2> QED BY <1>3, <1>4 DEF ReadLoop
<1> QED BY <1>5

LEMMA ReadIsLoop ==
    ASSUME pipe_info \in Ring, NEW n \in Nat, file_read_pipe_buffer(n)
    PROVE  \E q : /\ ReadLoop(n, q) /\ pipe_info' = q[n].pi
                  /\ copied' = [op |-> "read", data |-> q[n].out]
<1>1. \E q : ReadLoop(n, q)
  BY ReadLoopExists
<1> QED BY <1>1 DEF file_read_pipe_buffer, ReadLoop

Lesser(a, b) == IF a <= b THEN a ELSE b

(* After k bytes of a read.                                                *)
Taken(z, k) ==
    /\ RingInv(z.pi) /\ z.pi.counter = pipe_info.counter - k
    /\ z.out \in Seq(Bytes) /\ Len(z.out) = k
    /\ \A j \in 1 .. k : z.out[j] = Byte(pipe_info, j)
    /\ \A j \in 1 .. (pipe_info.counter - k) : Byte(z.pi, j) = Byte(pipe_info, k + j)

LEMMA TakenStep ==
    ASSUME RingInv(pipe_info), NEW z, NEW k \in 0 .. (pipe_info.counter - 1), Taken(z, k)
    PROVE  Taken([pi |-> TakeByte(z.pi),
                  out |-> Append(z.out, z.pi.base[Wrapped(z.pi.read_pos)])], k + 1)
<1> DEFINE c == pipe_info.counter
           x == z.pi.base[Wrapped(z.pi.read_pos)]
           p == TakeByte(z.pi)
           o == Append(z.out, x)
<1>1. c \in Nat /\ k \in Nat /\ k < c
  BY RingRecord, PipeAssumption DEF RingInv
<1>2. ~Empty(z.pi) /\ RingInv(z.pi) /\ z.pi.counter = c - k
  BY <1>1 DEF Taken, Empty
<1>3. /\ RingInv(p) /\ p.counter = c - k - 1 /\ x = Byte(z.pi, 1) /\ x \in Bytes
      /\ \A j \in 1 .. (c - k - 1) : Byte(p, j) = Byte(z.pi, j + 1)
  BY <1>2, TakeByteMoves
<1>4. x = Byte(pipe_info, k + 1)
  BY <1>1, <1>3 DEF Taken
<1>5. ASSUME NEW j \in 1 .. (c - (k + 1)) PROVE Byte(p, j) = Byte(pipe_info, (k + 1) + j)
  <2>1. j + 1 \in 1 .. (c - k) /\ j \in 1 .. (c - k - 1) /\ k + (j + 1) = (k + 1) + j
    BY <1>1
  <2>2. Byte(z.pi, j + 1) = Byte(pipe_info, k + (j + 1))
    BY <2>1 DEF Taken
  <2> QED BY <1>3, <2>1, <2>2
<1> HIDE DEF x, p
<1>6. /\ o \in Seq(Bytes) /\ Len(o) = k + 1 /\ o[k + 1] = x
      /\ \A j \in 1 .. k : o[j] = z.out[j]
  BY <1>1, <1>3 DEF Taken
<1>7. ASSUME NEW j \in 1 .. (k + 1) PROVE o[j] = Byte(pipe_info, j)
  BY <1>1, <1>4, <1>6 DEF Taken
<1>8. p.counter = c - (k + 1)
  BY <1>1, <1>3
<1> QED BY <1>3, <1>5, <1>6, <1>7, <1>8 DEF Taken, p, x

LEMMA ReadTakes ==
    ASSUME RingInv(pipe_info), NEW n \in Nat, NEW q, ReadLoop(n, q)
    PROVE  Taken(q[n], Lesser(n, pipe_info.counter))
<1> DEFINE c == pipe_info.counter
           S == {i \in Nat : i <= n => Taken(q[i], Lesser(i, c))}
<1>1. c \in Nat
  BY RingRecord, PipeAssumption DEF RingInv
<1>2. 0 \in S
  <2>1. q[0] = [pi |-> pipe_info, out |-> <<>>]
    BY DEF ReadLoop
  <2>2. Taken([pi |-> pipe_info, out |-> <<>>], 0)
    BY <1>1 DEF Taken
  <2>3. Lesser(0, c) = 0
    BY <1>1 DEF Lesser
  <2> QED BY <2>1, <2>2, <2>3
<1>3. ASSUME NEW i \in S PROVE i + 1 \in S
  <2> SUFFICES ASSUME i + 1 <= n PROVE Taken(q[i + 1], Lesser(i + 1, c))
    OBVIOUS
  <2> DEFINE k == Lesser(i, c)
  <2>1. i \in Nat /\ Taken(q[i], k) /\ k \in 0 .. c
    BY <1>1 DEF Lesser
  <2>2. q[i + 1] = IF Empty(q[i].pi) THEN q[i]
                   ELSE [pi |-> TakeByte(q[i].pi),
                         out |-> Append(q[i].out, q[i].pi.base[Wrapped(q[i].pi.read_pos)])]
    <3>1. i + 1 \in 0 .. n /\ i + 1 # 0 /\ (i + 1) - 1 = i
      BY <2>1
    <3> QED BY <3>1 DEF ReadLoop
  <2>3. Empty(q[i].pi) <=> c - k <= 0
    BY <2>1 DEF Taken, Empty
  <2>4. CASE k = c
    <3>1. Lesser(i + 1, c) = k
      BY <1>1, <2>1, <2>4 DEF Lesser
    <3> QED BY <1>1, <2>1, <2>2, <2>3, <2>4, <3>1
  <2>5. CASE k < c
    <3>1. Lesser(i + 1, c) = k + 1
      BY <1>1, <2>1, <2>5 DEF Lesser
    <3>2. k \in 0 .. (c - 1) /\ ~Empty(q[i].pi)
      BY <1>1, <2>1, <2>3, <2>5
    <3> HIDE DEF k
    <3> QED BY <2>1, <2>2, <3>1, <3>2, TakenStep
  <2> QED BY <1>1, <2>1, <2>4, <2>5
<1>4. n \in S
  <2> HIDE DEF S
  <2>1. S \in SUBSET Nat
    BY DEF S
  <2> QED BY <1>2, <1>3, <2>1, SetInduction
<1> QED BY <1>4

(* A write.                                                                *)
WriteLoop(s, q) ==
    q = [i \in 0 .. Len(s) |-> IF i = 0 THEN pipe_info
                               ELSE IF Full(q[i - 1]) THEN q[i - 1]
                               ELSE PutByte(q[i - 1], s[i])]

LEMMA PutByteType ==
    ASSUME NEW q \in Ring, ~Full(q), NEW x \in Bytes
    PROVE  PutByte(q, x) \in Ring
<1> DEFINE d == [q EXCEPT !.base[Wrapped(q.write_pos)] = x]
           e == [d EXCEPT !.write_pos = Wrapped(@) + 1]
<1>1. Wrapped(q.write_pos) \in 0 .. (BUFSIZ - 1) /\ q.counter + 1 \in 0 .. BUFSIZ
  BY RingRecord, PipeAssumption DEF Wrapped, Full
<1>2. PutByte(q, x) = [e EXCEPT !.counter = q.counter + 1]
  BY RingRecord DEF PutByte
<1>3. d \in Ring /\ d.write_pos = q.write_pos
  BY <1>1 DEF Ring
<1> HIDE DEF d
<1>4. Wrapped(q.write_pos) + 1 \in 0 .. BUFSIZ
  BY <1>1, PipeAssumption
<1>5. e \in Ring
  BY <1>3, <1>4 DEF Ring
<1> HIDE DEF e
<1> QED BY <1>1, <1>2, <1>5 DEF Ring

LEMMA RingLoopExists ==
    ASSUME NEW a \in Ring, NEW n \in Nat, NEW G \in [Ring \X (1 .. n) -> Ring]
    PROVE  \E q \in [0 .. n -> Ring] :
             q = [i \in 0 .. n |-> IF i = 0 THEN a ELSE G[<<q[i - 1], i>>]]
BY LoopExists

LEMMA WriteLoopExists ==
    ASSUME pipe_info \in Ring, NEW s \in Seq(Bytes)
    PROVE  \E q : WriteLoop(s, q)
<1>1. PICK n \in Nat : n = Len(s)
  OBVIOUS
<1> DEFINE a == pipe_info
           G == [z \in Ring \X (1 .. n) |-> IF Full(z[1]) THEN z[1] ELSE PutByte(z[1], s[z[2]])]
<1>2. G \in [Ring \X (1 .. n) -> Ring]
  <2> SUFFICES ASSUME NEW x \in Ring, ~Full(x), NEW i \in 1 .. n PROVE PutByte(x, s[i]) \in Ring
    OBVIOUS
  <2>1. s[i] \in Bytes
    BY <1>1
  <2> QED BY <2>1, PutByteType
<1>3. PICK q \in [0 .. n -> Ring] :
        q = [i \in 0 .. n |-> IF i = 0 THEN a ELSE G[<<q[i - 1], i>>]]
  <2>1. a \in Ring
    OBVIOUS
  <2>2. \E q \in [0 .. n -> Ring] :
          q = [i \in 0 .. n |-> IF i = 0 THEN a ELSE G[<<q[i - 1], i>>]]
    <3> HIDE DEF G, a
    <3> QED BY <1>2, <2>1, RingLoopExists
  <2> QED BY <2>2
<1>4. ASSUME NEW i \in 0 .. n, i # 0
      PROVE  G[<<q[i - 1], i>>] = IF Full(q[i - 1]) THEN q[i - 1] ELSE PutByte(q[i - 1], s[i])
  <2>1. i - 1 \in 0 .. n /\ i \in 1 .. n
    BY <1>4
  <2>2. <<q[i - 1], i>> \in Ring \X (1 .. n)
    BY <2>1
  <2> QED BY <2>2
<1>5. WriteLoop(s, q)
  <2> HIDE DEF G
  <2> QED BY <1>1, <1>3, <1>4 DEF WriteLoop
<1> QED BY <1>5

LEMMA WriteIsLoop ==
    ASSUME pipe_info \in Ring, NEW s \in Seq(Bytes), file_write_pipe_buffer(s)
    PROVE  \E q : /\ WriteLoop(s, q) /\ pipe_info' = q[Len(s)]
                  /\ copied' = [op |-> "write", data |-> s]
<1>1. \E q : WriteLoop(s, q)
  BY WriteLoopExists
<1> QED BY <1>1 DEF file_write_pipe_buffer, WriteLoop

(* After k bytes of a write.                                               *)
Stored(z, s, k) ==
    /\ RingInv(z) /\ z.counter = pipe_info.counter + k
    /\ \A j \in 1 .. pipe_info.counter : Byte(z, j) = Byte(pipe_info, j)
    /\ \A j \in 1 .. k : Byte(z, pipe_info.counter + j) = s[j]

LEMMA StoredStep ==
    ASSUME RingInv(pipe_info), NEW s \in Seq(Bytes), NEW z,
           NEW k \in 0 .. (BUFSIZ - pipe_info.counter - 1), Stored(z, s, k), k + 1 \in 1 .. Len(s)
    PROVE  Stored(PutByte(z, s[k + 1]), s, k + 1)
<1> DEFINE c == pipe_info.counter
           p == PutByte(z, s[k + 1])
<1>1. c \in Nat /\ k \in Nat /\ c + k < BUFSIZ /\ BUFSIZ \in Nat /\ s[k + 1] \in Bytes
  BY RingRecord, PipeAssumption DEF RingInv
<1>2. ~Full(z) /\ RingInv(z) /\ z.counter = c + k
  BY <1>1 DEF Stored, Full
<1>3. /\ RingInv(p) /\ p.counter = c + k + 1 /\ Byte(p, c + k + 1) = s[k + 1]
      /\ \A j \in 1 .. (c + k) : Byte(p, j) = Byte(z, j)
  BY <1>1, <1>2, PutByteMoves
<1> HIDE DEF p
<1>4. ASSUME NEW j \in 1 .. c PROVE Byte(p, j) = Byte(pipe_info, j)
  BY <1>1, <1>3 DEF Stored
<1>5. ASSUME NEW j \in 1 .. (k + 1) PROVE Byte(p, c + j) = s[j]
  <2>1. CASE j = k + 1
    <3>1. c + j = c + k + 1
      BY <1>1, <2>1
    <3> QED BY <1>3, <2>1, <3>1
  <2>2. CASE j <= k
    <3>1. c + j \in 1 .. (c + k) /\ j \in 1 .. k
      BY <1>1, <2>2
    <3> QED BY <1>3, <3>1 DEF Stored
  <2> QED BY <1>1, <2>1, <2>2
<1>6. p.counter = c + (k + 1)
  BY <1>1, <1>3
<1> QED BY <1>3, <1>4, <1>5, <1>6 DEF Stored, p

LEMMA WriteStores ==
    ASSUME RingInv(pipe_info), NEW s \in Seq(Bytes), NEW q, WriteLoop(s, q)
    PROVE  Stored(q[Len(s)], s, Lesser(Len(s), BUFSIZ - pipe_info.counter))
<1> DEFINE c == pipe_info.counter
           n == Len(s)
           r == BUFSIZ - c
           S == {i \in Nat : i <= n => Stored(q[i], s, Lesser(i, r))}
<1>1. c \in Nat /\ r \in Nat /\ n \in Nat /\ BUFSIZ \in Nat
  BY RingRecord, PipeAssumption DEF RingInv
<1>2. 0 \in S
  <2>1. q[0] = pipe_info
    BY DEF WriteLoop
  <2>2. Stored(pipe_info, s, 0)
    BY <1>1 DEF Stored
  <2>3. Lesser(0, r) = 0
    BY <1>1 DEF Lesser
  <2> QED BY <2>1, <2>2, <2>3
<1>3. ASSUME NEW i \in S PROVE i + 1 \in S
  <2> SUFFICES ASSUME i + 1 <= n PROVE Stored(q[i + 1], s, Lesser(i + 1, r))
    OBVIOUS
  <2> DEFINE k == Lesser(i, r)
  <2>1. i \in Nat /\ Stored(q[i], s, k) /\ k \in 0 .. r
    BY <1>1 DEF Lesser
  <2>2. q[i + 1] = IF Full(q[i]) THEN q[i] ELSE PutByte(q[i], s[i + 1])
    <3>1. i + 1 \in 0 .. n /\ i + 1 # 0 /\ (i + 1) - 1 = i
      BY <1>1, <2>1
    <3> QED BY <3>1 DEF WriteLoop
  <2>3. Full(q[i]) <=> c + k >= BUFSIZ
    BY <2>1 DEF Stored, Full
  <2>4. CASE k = r
    <3>1. Lesser(i + 1, r) = k
      BY <1>1, <2>1, <2>4 DEF Lesser
    <3>2. Full(q[i])
      BY <1>1, <2>3, <2>4
    <3> QED BY <2>1, <2>2, <3>1, <3>2
  <2>5. CASE k < r
    <3>1. Lesser(i + 1, r) = k + 1 /\ k = i
      BY <1>1, <2>1, <2>5 DEF Lesser
    <3>2. k \in 0 .. (r - 1) /\ ~Full(q[i]) /\ k + 1 \in 1 .. n
      BY <1>1, <2>1, <2>3, <2>5, <3>1
    <3>3. q[i + 1] = PutByte(q[i], s[k + 1])
      BY <2>2, <3>1, <3>2
    <3> HIDE DEF k
    <3> QED BY <2>1, <3>1, <3>2, <3>3, StoredStep
  <2> QED BY <1>1, <2>1, <2>4, <2>5
<1>4. n \in S
  <2> HIDE DEF S
  <2>1. S \in SUBSET Nat
    BY DEF S
  <2> QED BY <1>1, <1>2, <1>3, <2>1, SetInduction
<1> QED BY <1>4

-----------------------------------------------------------------------------
(* Sequences that are given byte by byte.                                  *)

LEMMA IsFront ==
    ASSUME NEW V, NEW C \in Seq(V), NEW k \in 0 .. Len(C), NEW o \in Seq(V), Len(o) = k,
           \A j \in 1 .. k : o[j] = C[j]
    PROVE  o = SubSeq(C, 1, k)
OBVIOUS

LEMMA IsRest ==
    ASSUME NEW V, NEW C \in Seq(V), NEW k \in 0 .. Len(C), NEW d \in Seq(V),
           Len(d) = Len(C) - k, \A j \in 1 .. (Len(C) - k) : d[j] = C[k + j]
    PROVE  d = SubSeq(C, k + 1, Len(C))
OBVIOUS

LEMMA IsGrown ==
    ASSUME NEW V, NEW C \in Seq(V), NEW t \in Seq(V), NEW d \in Seq(V),
           Len(d) = Len(C) + Len(t), \A j \in 1 .. Len(C) : d[j] = C[j],
           \A j \in 1 .. Len(t) : d[Len(C) + j] = t[j]
    PROVE  d = C \o t
OBVIOUS

-----------------------------------------------------------------------------
(* The pipe is a stream.                                                   *)

PipeInv == RingInv(pipe_info) /\ PipeTypeOK

LEMMA ContentSeq ==
    ASSUME NEW q, RingInv(q)
    PROVE  /\ ContentOf(q) \in Seq(Bytes) /\ Len(ContentOf(q)) = q.counter
           /\ \A j \in 1 .. q.counter : ContentOf(q)[j] = Byte(q, j)
<1>1. q.counter \in 0 .. BUFSIZ /\ q.read_pos \in 0 .. BUFSIZ /\ BUFSIZ \in Nat \ {0}
      /\ q.base \in [0 .. (BUFSIZ - 1) -> Bytes]
  BY RingRecord, PipeAssumption DEF RingInv
<1>2. ASSUME NEW j \in 1 .. q.counter PROVE Byte(q, j) \in Bytes
  <2>1. Place(Wrapped(q.read_pos) + j - 1, BUFSIZ) \in 0 .. (BUFSIZ - 1)
    BY <1>1 DEF Place, Wrapped
  <2> QED BY <1>1, <2>1 DEF Byte
<1> QED BY <1>1, <1>2 DEF ContentOf

LEMMA PipeReadStep ==
    ASSUME PipeInv, NEW n \in 1 .. BUFSIZ, file_read_pipe_buffer(n)
    PROVE  PipeInv' /\ PipeStream!Read
<1>1. n \in Nat /\ RingInv(pipe_info) /\ pipe_info \in Ring
  BY PipeAssumption DEF PipeInv, RingInv
<1>2. PICK q : /\ ReadLoop(n, q) /\ pipe_info' = q[n].pi
               /\ copied' = [op |-> "read", data |-> q[n].out]
  BY <1>1, ReadIsLoop
<1> DEFINE C == ContentOf(pipe_info)
           c == pipe_info.counter
<1>3. PICK k : k = Lesser(n, c)
  OBVIOUS
<1>4. PICK p, o : p = q[n].pi /\ o = q[n].out
  OBVIOUS
<1>5. c \in 0 .. BUFSIZ /\ k \in 0 .. c /\ (k = 0 => c = 0)
  BY <1>1, <1>3, RingRecord, PipeAssumption DEF Lesser
<1>6. /\ RingInv(p) /\ p.counter = c - k /\ o \in Seq(Bytes) /\ Len(o) = k
      /\ \A j \in 1 .. k : o[j] = Byte(pipe_info, j)
      /\ \A j \in 1 .. (c - k) : Byte(p, j) = Byte(pipe_info, k + j)
  BY <1>1, <1>2, <1>3, <1>4, ReadTakes DEF Taken
<1>7. /\ PipeContent = C /\ C \in Seq(Bytes) /\ Len(C) = c
      /\ \A j \in 1 .. c : C[j] = Byte(pipe_info, j)
  BY <1>1, ContentIsBytes, ContentSeq DEF PipeContent
<1>8. PipeContent' = ContentOf(p)
  <2>1. pipe_info' = p
    BY <1>2, <1>4
  <2> QED BY <1>6, <2>1, ContentIsBytes DEF PipeContent
<1>9. /\ ContentOf(p) \in Seq(Bytes) /\ Len(ContentOf(p)) = c - k
      /\ \A j \in 1 .. (c - k) : ContentOf(p)[j] = Byte(p, j)
  BY <1>6, ContentSeq
<1> HIDE DEF C, c
<1>10. o = SubSeq(C, 1, k)
  <2>1. \A j \in 1 .. k : o[j] = C[j]
    BY <1>5, <1>6, <1>7
  <2> QED BY <1>5, <1>6, <1>7, <2>1, IsFront
<1>11. ContentOf(p) = SubSeq(C, k + 1, Len(C))
  <2>1. ASSUME NEW j \in 1 .. (c - k) PROVE ContentOf(p)[j] = C[k + j]
    <3>1. k + j \in 1 .. c
      BY <1>5
    <3> QED BY <1>6, <1>7, <1>9, <3>1
  <2> QED BY <1>5, <1>7, <1>9, <2>1, IsRest
<1>12. k = 0 => C = <<>>
  BY <1>5, <1>7
<1>13. PipeStream!Read
  <2>1. k \in 0 .. Len(PipeContent) /\ (k = 0 => PipeContent = <<>>)
    BY <1>5, <1>7, <1>12
  <2>2. copied' = [op |-> "read", data |-> SubSeq(PipeContent, 1, k)]
    BY <1>2, <1>4, <1>7, <1>10
  <2>3. PipeContent' = SubSeq(PipeContent, k + 1, Len(PipeContent))
    BY <1>7, <1>8, <1>11
  <2> QED BY <2>1, <2>2, <2>3 DEF PipeStream!Read
<1>14. PipeInv'
  <2>1. pipe_info' = p /\ copied' = [op |-> "read", data |-> o]
    BY <1>2, <1>4
  <2>2. RingInv(pipe_info') /\ pipe_info' \in Ring
    BY <1>6, <2>1 DEF RingInv
  <2>3. copied' \in [op : {"none", "read", "write"}, data : Seq(Bytes)]
    BY <1>6, <2>1
  <2> QED BY <2>2, <2>3 DEF PipeInv, PipeTypeOK, Ring
<1> QED BY <1>13, <1>14

LEMMA PipeWriteStep ==
    ASSUME PipeInv, NEW s \in Seq(Bytes), file_write_pipe_buffer(s)
    PROVE  PipeInv' /\ PipeStream!Write
<1>1. RingInv(pipe_info) /\ pipe_info \in Ring /\ Len(s) \in Nat /\ BUFSIZ \in Nat
  BY PipeAssumption DEF PipeInv, RingInv
<1>2. PICK q : /\ WriteLoop(s, q) /\ pipe_info' = q[Len(s)]
               /\ copied' = [op |-> "write", data |-> s]
  BY <1>1, WriteIsLoop
<1> DEFINE C == ContentOf(pipe_info)
           c == pipe_info.counter
<1>3. PICK k : k = Lesser(Len(s), BUFSIZ - c)
  OBVIOUS
<1>4. PICK p : p = q[Len(s)]
  OBVIOUS
<1>5. c \in 0 .. BUFSIZ /\ k \in 0 .. Len(s)
  BY <1>1, <1>3, RingRecord DEF Lesser
<1>6. /\ RingInv(p) /\ p.counter = c + k
      /\ \A j \in 1 .. c : Byte(p, j) = Byte(pipe_info, j)
      /\ \A j \in 1 .. k : Byte(p, c + j) = s[j]
  BY <1>1, <1>2, <1>3, <1>4, WriteStores DEF Stored
<1>7. /\ PipeContent = C /\ C \in Seq(Bytes) /\ Len(C) = c
      /\ \A j \in 1 .. c : C[j] = Byte(pipe_info, j)
  BY <1>1, ContentIsBytes, ContentSeq DEF PipeContent
<1>8. PipeContent' = ContentOf(p)
  <2>1. pipe_info' = p
    BY <1>2, <1>4
  <2> QED BY <1>6, <2>1, ContentIsBytes DEF PipeContent
<1>9. /\ ContentOf(p) \in Seq(Bytes) /\ Len(ContentOf(p)) = c + k
      /\ \A j \in 1 .. (c + k) : ContentOf(p)[j] = Byte(p, j)
  BY <1>6, ContentSeq
<1> HIDE DEF C, c
<1>10. PICK t : t = SubSeq(s, 1, k)
  OBVIOUS
<1>11. t \in Seq(Bytes) /\ Len(t) = k /\ \A j \in 1 .. k : t[j] = s[j]
  BY <1>5, <1>10
<1>12. ContentOf(p) = C \o t
  <2>1. \A j \in 1 .. Len(C) : ContentOf(p)[j] = C[j]
    BY <1>5, <1>6, <1>7, <1>9
  <2>2. ASSUME NEW j \in 1 .. Len(t) PROVE ContentOf(p)[Len(C) + j] = t[j]
    <3>1. c + j \in 1 .. (c + k) /\ j \in 1 .. k
      BY <1>5, <1>11
    <3> QED BY <1>6, <1>7, <1>9, <1>11, <3>1
  <2> QED BY <1>5, <1>7, <1>9, <1>11, <2>1, <2>2, IsGrown
<1>13. t = IF Len(s) <= BUFSIZ - c THEN s ELSE SubSeq(s, 1, BUFSIZ - c)
  <2>1. CASE Len(s) <= BUFSIZ - c
    <3>1. k = Len(s)
      BY <1>3, <2>1 DEF Lesser
    <3> QED BY <1>10, <2>1, <3>1
  <2>2. CASE ~(Len(s) <= BUFSIZ - c)
    BY <1>3, <1>10, <2>2 DEF Lesser
  <2> QED BY <2>1, <2>2
<1>14. PipeStream!Write
  <2>1. copied'.op = "write" /\ copied'.data = s
    BY <1>2
  <2>2. PipeStream!Fits(s) = t
    BY <1>7, <1>13 DEF PipeStream!Fits, PipeStream!Room
  <2> QED BY <1>7, <1>8, <1>12, <2>1, <2>2 DEF PipeStream!Write
<1>15. PipeInv'
  <2>1. RingInv(pipe_info') /\ pipe_info' \in Ring
    BY <1>2, <1>4, <1>6 DEF RingInv
  <2>2. copied' \in [op : {"none", "read", "write"}, data : Seq(Bytes)]
    BY <1>2
  <2> QED BY <2>1, <2>2 DEF PipeInv, PipeTypeOK, Ring
<1> QED BY <1>14, <1>15

-----------------------------------------------------------------------------
(* The queue of a terminal, in the same steps.  Its inductive invariant is *)
(* that cnt is the distance from tail to head.                             *)

TtyRing == [buf : [0 .. (TTY_BUF_SIZE - 1) -> TtyBytes], cnt : 0 .. (TTY_BUF_SIZE - 1),
            head : 0 .. (TTY_BUF_SIZE - 1), tail : 0 .. (TTY_BUF_SIZE - 1)]

Char(q, i) == q.buf[Place(q.tail + i - 1, TTY_BUF_SIZE)]

TtyRingInv(q) == q \in TtyRing /\ q.head = Place(q.tail + q.cnt, TTY_BUF_SIZE)

LEMMA TtyRecord ==
    ASSUME NEW q \in TtyRing
    PROVE  /\ q = [buf |-> q.buf, cnt |-> q.cnt, head |-> q.head, tail |-> q.tail]
           /\ q.buf \in [0 .. (TTY_BUF_SIZE - 1) -> TtyBytes]
           /\ q.cnt \in 0 .. (TTY_BUF_SIZE - 1)
           /\ q.head \in 0 .. (TTY_BUF_SIZE - 1) /\ q.tail \in 0 .. (TTY_BUF_SIZE - 1)
BY DEF TtyRing

LEMMA AdvanceIsPlace ==
    ASSUME NEW i \in 0 .. (TTY_BUF_SIZE - 1)
    PROVE  Advance(i) = Place(i + 1, TTY_BUF_SIZE) /\ Advance(i) \in 0 .. (TTY_BUF_SIZE - 1)
<1>1. TTY_BUF_SIZE \in Nat \ {0} /\ i + 1 \in 0 .. (2 * TTY_BUF_SIZE - 1)
  BY TtyAssumption
<1>2. Advance(i) = Place(i + 1, TTY_BUF_SIZE)
  BY <1>1, ModIsPlace DEF Advance
<1> QED BY <1>1, <1>2 DEF Place

LEMMA EmptyOrFull ==
    ASSUME NEW q, TtyRingInv(q)
    PROVE  (TtyEmpty(q) <=> q.cnt = 0) /\ (TtyFull(q) <=> q.cnt = TTY_BUF_SIZE - 1)
<1>1. PICK h \in 0 .. (TTY_BUF_SIZE - 1), t \in 0 .. (TTY_BUF_SIZE - 1),
           c \in 0 .. (TTY_BUF_SIZE - 1) : q.head = h /\ q.tail = t /\ q.cnt = c
  BY TtyRecord DEF TtyRingInv
<1>2. h = Place(t + c, TTY_BUF_SIZE) /\ TTY_BUF_SIZE \in Nat \ {0}
  BY <1>1, TtyAssumption DEF TtyRingInv
<1>3. h = t <=> c = 0
  BY <1>2 DEF Place
<1>4. Place(h + 1, TTY_BUF_SIZE) = t <=> c = TTY_BUF_SIZE - 1
  BY <1>2 DEF Place
<1> QED BY <1>1, <1>3, <1>4, AdvanceIsPlace DEF TtyEmpty, TtyFull

LEMMA GetcharMoves ==
    ASSUME NEW q, TtyRingInv(q), ~TtyEmpty(q)
    PROVE  /\ TtyRingInv(tty_queue_getchar(q)) /\ tty_queue_getchar(q).cnt = q.cnt - 1
           /\ q.buf[q.tail] = Char(q, 1) /\ Char(q, 1) \in TtyBytes
           /\ \A j \in 1 .. (q.cnt - 1) : Char(tty_queue_getchar(q), j) = Char(q, j + 1)
<1>1. PICK h \in 0 .. (TTY_BUF_SIZE - 1), t \in 0 .. (TTY_BUF_SIZE - 1),
           c \in 1 .. (TTY_BUF_SIZE - 1), b \in [0 .. (TTY_BUF_SIZE - 1) -> TtyBytes] :
        /\ q = [buf |-> b, cnt |-> c, head |-> h, tail |-> t]
        /\ q.buf = b /\ q.cnt = c /\ q.head = h /\ q.tail = t
  <2>1. q.cnt \in 1 .. (TTY_BUF_SIZE - 1)
    BY EmptyOrFull, TtyRecord, TtyAssumption DEF TtyRingInv
  <2> QED BY <2>1, TtyRecord DEF TtyRingInv
<1>2. tty_queue_getchar(q) = [buf |-> b, cnt |-> c - 1, head |-> h, tail |-> Advance(t)]
  <2> DEFINE d == [q EXCEPT !.tail = Advance(@)]
  <2>1. tty_queue_getchar(q) = [d EXCEPT !.cnt = c - 1]
    BY <1>1 DEF tty_queue_getchar
  <2>2. d = [buf |-> b, cnt |-> c, head |-> h, tail |-> Advance(t)]
    BY <1>1
  <2> HIDE DEF d
  <2> QED BY <2>1, <2>2
<1>3. PICK a \in 0 .. (TTY_BUF_SIZE - 1) : a = Advance(t) /\ a = Place(t + 1, TTY_BUF_SIZE)
  BY AdvanceIsPlace
<1>4. h = Place(t + c, TTY_BUF_SIZE) /\ TTY_BUF_SIZE \in Nat \ {0}
  BY <1>1, TtyAssumption DEF TtyRingInv
<1>5. TtyRingInv(tty_queue_getchar(q))
  <2>1. h = Place(a + (c - 1), TTY_BUF_SIZE)
    BY <1>3, <1>4 DEF Place
  <2>2. tty_queue_getchar(q) \in TtyRing
    BY <1>2, <1>3, <1>4 DEF TtyRing
  <2> QED BY <1>2, <1>3, <2>1, <2>2 DEF TtyRingInv
<1>6. ASSUME NEW j \in 1 .. (c - 1) PROVE Char(tty_queue_getchar(q), j) = Char(q, j + 1)
  <2>1. Char(tty_queue_getchar(q), j) = b[Place(a + j - 1, TTY_BUF_SIZE)]
    BY <1>2, <1>3 DEF Char
  <2>2. Char(q, j + 1) = b[Place(t + (j + 1) - 1, TTY_BUF_SIZE)]
    BY <1>1 DEF Char
  <2>3. Place(a + j - 1, TTY_BUF_SIZE) = Place(t + (j + 1) - 1, TTY_BUF_SIZE)
    BY <1>3, <1>4 DEF Place
  <2> QED BY <2>1, <2>2, <2>3
<1>7. Char(q, 1) = b[t]
  <2>1. Place(t + 1 - 1, TTY_BUF_SIZE) = t
    BY <1>4 DEF Place
  <2> QED BY <1>1, <2>1 DEF Char
<1> QED BY <1>1, <1>2, <1>5, <1>6, <1>7

LEMMA PutcharMoves ==
    ASSUME NEW q, TtyRingInv(q), ~TtyFull(q), NEW x \in TtyBytes
    PROVE  /\ TtyRingInv(tty_queue_putchar(q, x)) /\ tty_queue_putchar(q, x).cnt = q.cnt + 1
           /\ Char(tty_queue_putchar(q, x), q.cnt + 1) = x
           /\ \A j \in 1 .. q.cnt : Char(tty_queue_putchar(q, x), j) = Char(q, j)
<1>1. PICK h \in 0 .. (TTY_BUF_SIZE - 1), t \in 0 .. (TTY_BUF_SIZE - 1),
           c \in 0 .. (TTY_BUF_SIZE - 2), b \in [0 .. (TTY_BUF_SIZE - 1) -> TtyBytes] :
        /\ q = [buf |-> b, cnt |-> c, head |-> h, tail |-> t]
        /\ q.buf = b /\ q.cnt = c /\ q.head = h /\ q.tail = t
  <2>1. q.cnt \in 0 .. (TTY_BUF_SIZE - 2)
    BY EmptyOrFull, TtyRecord, TtyAssumption DEF TtyRingInv
  <2> QED BY <2>1, TtyRecord DEF TtyRingInv
<1>2. tty_queue_putchar(q, x)
        = [buf |-> [b EXCEPT ![h] = x], cnt |-> c + 1, head |-> Advance(h), tail |-> t]
  <2> DEFINE d == [q EXCEPT !.buf[h] = x]
             e == [d EXCEPT !.head = Advance(h)]
  <2>1. tty_queue_putchar(q, x) = [e EXCEPT !.cnt = c + 1]
    BY <1>1 DEF tty_queue_putchar
  <2>2. d = [buf |-> [b EXCEPT ![h] = x], cnt |-> c, head |-> h, tail |-> t]
    BY <1>1
  <2> HIDE DEF d
  <2>3. e = [buf |-> [b EXCEPT ![h] = x], cnt |-> c, head |-> Advance(h), tail |-> t]
    BY <2>2
  <2> HIDE DEF e
  <2> QED BY <2>1, <2>3
<1>3. PICK a \in 0 .. (TTY_BUF_SIZE - 1) : a = Advance(h) /\ a = Place(h + 1, TTY_BUF_SIZE)
  BY AdvanceIsPlace
<1>4. h = Place(t + c, TTY_BUF_SIZE) /\ TTY_BUF_SIZE \in Nat \ {0}
  BY <1>1, TtyAssumption DEF TtyRingInv
<1>5. TtyRingInv(tty_queue_putchar(q, x))
  <2>1. a = Place(t + (c + 1), TTY_BUF_SIZE)
    BY <1>3, <1>4 DEF Place
  <2>2. tty_queue_putchar(q, x) \in TtyRing
    BY <1>2, <1>3, <1>4 DEF TtyRing
  <2> QED BY <1>2, <1>3, <2>1, <2>2 DEF TtyRingInv
<1>6. ASSUME NEW j \in 1 .. c PROVE Char(tty_queue_putchar(q, x), j) = Char(q, j)
  <2>1. Char(tty_queue_putchar(q, x), j)
          = [b EXCEPT ![h] = x][Place(t + j - 1, TTY_BUF_SIZE)]
    BY <1>2 DEF Char
  <2>2. Char(q, j) = b[Place(t + j - 1, TTY_BUF_SIZE)]
    BY <1>1 DEF Char
  <2>3. /\ Place(t + j - 1, TTY_BUF_SIZE) # h
        /\ Place(t + j - 1, TTY_BUF_SIZE) \in 0 .. (TTY_BUF_SIZE - 1)
    BY <1>4 DEF Place
  <2> QED BY <2>1, <2>2, <2>3
<1>7. Char(tty_queue_putchar(q, x), c + 1) = x
  <2>1. Char(tty_queue_putchar(q, x), c + 1)
          = [b EXCEPT ![h] = x][Place(t + (c + 1) - 1, TTY_BUF_SIZE)]
    BY <1>2 DEF Char
  <2>2. Place(t + (c + 1) - 1, TTY_BUF_SIZE) = h
    BY <1>4 DEF Place
  <2> QED BY <2>1, <2>2
<1> QED BY <1>1, <1>2, <1>5, <1>6, <1>7

CharsOf(q) == [i \in 1 .. q.cnt |-> Char(q, i)]

LEMMA TtyContentIsChars ==
    ASSUME NEW q, TtyRingInv(q)
    PROVE  /\ [i \in 1 .. q.cnt |-> q.buf[(q.tail + i - 1) % TTY_BUF_SIZE]] = CharsOf(q)
           /\ CharsOf(q) \in Seq(TtyBytes) /\ Len(CharsOf(q)) = q.cnt
           /\ \A j \in 1 .. q.cnt : CharsOf(q)[j] = Char(q, j)
<1>1. /\ q.tail \in 0 .. (TTY_BUF_SIZE - 1) /\ q.cnt \in 0 .. (TTY_BUF_SIZE - 1)
      /\ TTY_BUF_SIZE \in Nat \ {0} /\ q.buf \in [0 .. (TTY_BUF_SIZE - 1) -> TtyBytes]
  BY TtyRecord, TtyAssumption DEF TtyRingInv
<1>2. ASSUME NEW i \in 1 .. q.cnt
      PROVE  /\ (q.tail + i - 1) % TTY_BUF_SIZE = Place(q.tail + i - 1, TTY_BUF_SIZE)
             /\ Char(q, i) \in TtyBytes
  <2>1. q.tail + i - 1 \in 0 .. (2 * TTY_BUF_SIZE - 1)
    BY <1>1
  <2>2. (q.tail + i - 1) % TTY_BUF_SIZE = Place(q.tail + i - 1, TTY_BUF_SIZE)
    BY <1>1, <2>1, ModIsPlace
  <2>3. Place(q.tail + i - 1, TTY_BUF_SIZE) \in 0 .. (TTY_BUF_SIZE - 1)
    BY <1>1 DEF Place
  <2> QED BY <1>1, <2>2, <2>3 DEF Char
<1>3. CharsOf(q) \in Seq(TtyBytes) /\ Len(CharsOf(q)) = q.cnt
      /\ \A j \in 1 .. q.cnt : CharsOf(q)[j] = Char(q, j)
  <2>1. q.cnt \in Nat /\ \A j \in 1 .. q.cnt : Char(q, j) \in TtyBytes
    BY <1>1, <1>2
  <2> QED BY <2>1 DEF CharsOf
<1>4. [i \in 1 .. q.cnt |-> q.buf[(q.tail + i - 1) % TTY_BUF_SIZE]] = CharsOf(q)
  BY <1>2 DEF CharsOf, Char
<1> QED BY <1>3, <1>4

(* A read of the queue.                                                    *)
TtyReadState == [at : TtyRing, out : Seq(TtyBytes)]

TtyReadLoop(n, q) ==
    q = [i \in 0 .. n |-> IF i = 0 THEN [at |-> queue, out |-> <<>>]
                          ELSE IF TtyEmpty(q[i - 1].at) THEN q[i - 1]
                          ELSE [at |-> tty_queue_getchar(q[i - 1].at),
                                out |-> Append(q[i - 1].out,
                                          q[i - 1].at.buf[q[i - 1].at.tail])]]

(***************************************************************************)
(* Unlike that of a pipe, a loop over the queue needs its invariant to     *)
(* stay in its buffer: without it, cnt could leave its range while head    *)
(* and tail differ.                                                        *)
(***************************************************************************)
SoundTty == {q \in TtyRing : TtyRingInv(q)}
SoundRead == [at : SoundTty, out : Seq(TtyBytes)]

LEMMA SoundReadLoopExists ==
    ASSUME NEW a \in SoundRead, NEW n \in Nat, NEW G \in [SoundRead \X (1 .. n) -> SoundRead]
    PROVE  \E q \in [0 .. n -> SoundRead] :
             q = [i \in 0 .. n |-> IF i = 0 THEN a ELSE G[<<q[i - 1], i>>]]
BY LoopExists

LEMMA TtyReadLoopExists ==
    ASSUME TtyRingInv(queue), NEW n \in Nat
    PROVE  \E q \in [0 .. n -> SoundRead] : TtyReadLoop(n, q)
<1> DEFINE G == [z \in SoundRead \X (1 .. n) |->
                  IF TtyEmpty(z[1].at) THEN z[1]
                  ELSE [at |-> tty_queue_getchar(z[1].at),
                        out |-> Append(z[1].out, z[1].at.buf[z[1].at.tail])]]
           a == [at |-> queue, out |-> <<>>]
<1>1. a \in SoundRead
  BY DEF SoundRead, SoundTty, TtyRingInv
<1>2. G \in [SoundRead \X (1 .. n) -> SoundRead]
  <2> SUFFICES ASSUME NEW x \in SoundRead, ~TtyEmpty(x.at)
               PROVE  [at |-> tty_queue_getchar(x.at),
                       out |-> Append(x.out, x.at.buf[x.at.tail])] \in SoundRead
    OBVIOUS
  <2>1. TtyRingInv(x.at) /\ x.out \in Seq(TtyBytes)
    BY DEF SoundRead, SoundTty
  <2>2. TtyRingInv(tty_queue_getchar(x.at)) /\ x.at.buf[x.at.tail] \in TtyBytes
    BY <2>1, GetcharMoves
  <2>3. tty_queue_getchar(x.at) \in SoundTty
    BY <2>2 DEF SoundTty, TtyRingInv
  <2> QED BY <2>1, <2>2, <2>3 DEF SoundRead
<1>3. PICK q \in [0 .. n -> SoundRead] :
        q = [i \in 0 .. n |-> IF i = 0 THEN a ELSE G[<<q[i - 1], i>>]]
  <2> HIDE DEF G, a
  <2> QED BY <1>1, <1>2, SoundReadLoopExists
<1>4. ASSUME NEW i \in 0 .. n, i # 0
      PROVE  G[<<q[i - 1], i>>] = IF TtyEmpty(q[i - 1].at) THEN q[i - 1]
                                  ELSE [at |-> tty_queue_getchar(q[i - 1].at),
                                        out |-> Append(q[i - 1].out,
                                           q[i - 1].at.buf[q[i - 1].at.tail])]
  <2>1. i - 1 \in 0 .. n /\ i \in 1 .. n
    BY <1>4
  <2>2. <<q[i - 1], i>> \in SoundRead \X (1 .. n)
    BY <2>1
  <2> QED BY <2>2
<1>5. TtyReadLoop(n, q)
  <2> HIDE DEF G
  <2> QED BY <1>3, <1>4 DEF TtyReadLoop
<1> QED BY <1>5

LEMMA TtyReadIsLoop ==
    ASSUME TtyRingInv(queue), NEW n \in Nat, tty_read(n)
    PROVE  \E q : /\ TtyReadLoop(n, q) /\ queue' = q[n].at
                  /\ typed' = [op |-> "read", data |-> q[n].out]
<1>1. \E q : TtyReadLoop(n, q)
  BY TtyReadLoopExists
<1> QED BY <1>1 DEF tty_read, TtyReadLoop

(* After k bytes of a read.                                                *)
TtyTaken(z, k) ==
    /\ TtyRingInv(z.at) /\ z.at.cnt = queue.cnt - k
    /\ z.out \in Seq(TtyBytes) /\ Len(z.out) = k
    /\ \A j \in 1 .. k : z.out[j] = Char(queue, j)
    /\ \A j \in 1 .. (queue.cnt - k) : Char(z.at, j) = Char(queue, k + j)

LEMMA TtyTakenStep ==
    ASSUME TtyRingInv(queue), NEW z, NEW k \in 0 .. (queue.cnt - 1), TtyTaken(z, k)
    PROVE  TtyTaken([at |-> tty_queue_getchar(z.at),
                     out |-> Append(z.out, z.at.buf[z.at.tail])], k + 1)
<1> DEFINE c == queue.cnt
           x == z.at.buf[z.at.tail]
           p == tty_queue_getchar(z.at)
           o == Append(z.out, x)
<1>1. c \in Nat /\ k \in Nat /\ k < c
  BY TtyRecord, TtyAssumption DEF TtyRingInv
<1>2. ~TtyEmpty(z.at) /\ TtyRingInv(z.at) /\ z.at.cnt = c - k
  BY <1>1, EmptyOrFull DEF TtyTaken
<1>3. /\ TtyRingInv(p) /\ p.cnt = c - k - 1 /\ x = Char(z.at, 1) /\ x \in TtyBytes
      /\ \A j \in 1 .. (c - k - 1) : Char(p, j) = Char(z.at, j + 1)
  BY <1>2, GetcharMoves
<1>4. x = Char(queue, k + 1)
  BY <1>1, <1>3 DEF TtyTaken
<1>5. ASSUME NEW j \in 1 .. (c - (k + 1)) PROVE Char(p, j) = Char(queue, (k + 1) + j)
  <2>1. j + 1 \in 1 .. (c - k) /\ j \in 1 .. (c - k - 1) /\ k + (j + 1) = (k + 1) + j
    BY <1>1
  <2>2. Char(z.at, j + 1) = Char(queue, k + (j + 1))
    BY <2>1 DEF TtyTaken
  <2> QED BY <1>3, <2>1, <2>2
<1> HIDE DEF x, p
<1>6. /\ o \in Seq(TtyBytes) /\ Len(o) = k + 1 /\ o[k + 1] = x
      /\ \A j \in 1 .. k : o[j] = z.out[j]
  BY <1>1, <1>3 DEF TtyTaken
<1>7. ASSUME NEW j \in 1 .. (k + 1) PROVE o[j] = Char(queue, j)
  BY <1>1, <1>4, <1>6 DEF TtyTaken
<1>8. p.cnt = c - (k + 1)
  BY <1>1, <1>3
<1> QED BY <1>3, <1>5, <1>6, <1>7, <1>8 DEF TtyTaken, p, x

LEMMA TtyReadTakes ==
    ASSUME TtyRingInv(queue), NEW n \in Nat, NEW q, TtyReadLoop(n, q)
    PROVE  TtyTaken(q[n], Lesser(n, queue.cnt))
<1> DEFINE c == queue.cnt
           S == {i \in Nat : i <= n => TtyTaken(q[i], Lesser(i, c))}
<1>1. c \in Nat
  BY TtyRecord, TtyAssumption DEF TtyRingInv
<1>2. 0 \in S
  <2>1. q[0] = [at |-> queue, out |-> <<>>]
    BY DEF TtyReadLoop
  <2>2. TtyTaken([at |-> queue, out |-> <<>>], 0)
    BY <1>1 DEF TtyTaken
  <2>3. Lesser(0, c) = 0
    BY <1>1 DEF Lesser
  <2> QED BY <2>1, <2>2, <2>3
<1>3. ASSUME NEW i \in S PROVE i + 1 \in S
  <2> SUFFICES ASSUME i + 1 <= n PROVE TtyTaken(q[i + 1], Lesser(i + 1, c))
    OBVIOUS
  <2> DEFINE k == Lesser(i, c)
  <2>1. i \in Nat /\ TtyTaken(q[i], k) /\ k \in 0 .. c
    BY <1>1 DEF Lesser
  <2>2. q[i + 1] = IF TtyEmpty(q[i].at) THEN q[i]
                   ELSE [at |-> tty_queue_getchar(q[i].at),
                         out |-> Append(q[i].out, q[i].at.buf[q[i].at.tail])]
    <3>1. i + 1 \in 0 .. n /\ i + 1 # 0 /\ (i + 1) - 1 = i
      BY <2>1
    <3> QED BY <3>1 DEF TtyReadLoop
  <2>3. TtyEmpty(q[i].at) <=> c - k = 0
    BY <2>1, EmptyOrFull DEF TtyTaken
  <2>4. CASE k = c
    <3>1. Lesser(i + 1, c) = k
      BY <1>1, <2>1, <2>4 DEF Lesser
    <3> QED BY <1>1, <2>1, <2>2, <2>3, <2>4, <3>1
  <2>5. CASE k < c
    <3>1. Lesser(i + 1, c) = k + 1
      BY <1>1, <2>1, <2>5 DEF Lesser
    <3>2. k \in 0 .. (c - 1) /\ ~TtyEmpty(q[i].at)
      BY <1>1, <2>1, <2>3, <2>5
    <3> HIDE DEF k
    <3> QED BY <2>1, <2>2, <3>1, <3>2, TtyTakenStep
  <2> QED BY <1>1, <2>1, <2>4, <2>5
<1>4. n \in S
  <2> HIDE DEF S
  <2>1. S \in SUBSET Nat
    BY DEF S
  <2> QED BY <1>2, <1>3, <2>1, SetInduction
<1> QED BY <1>4

(* A write to the queue.                                                   *)
TtyWriteLoop(s, q) ==
    q = [i \in 0 .. Len(s) |-> IF i = 0 THEN queue ELSE tty_queue_putchar(q[i - 1], s[i])]

LEMMA PutcharSound ==
    ASSUME NEW q \in SoundTty, NEW x \in TtyBytes
    PROVE  tty_queue_putchar(q, x) \in SoundTty
<1>1. CASE TtyFull(q)
  BY <1>1 DEF tty_queue_putchar
<1>2. CASE ~TtyFull(q)
  BY <1>2, PutcharMoves DEF SoundTty, TtyRingInv
<1> QED BY <1>1, <1>2

LEMMA TtyLoopExists ==
    ASSUME NEW a \in SoundTty, NEW n \in Nat, NEW G \in [SoundTty \X (1 .. n) -> SoundTty]
    PROVE  \E q \in [0 .. n -> SoundTty] :
             q = [i \in 0 .. n |-> IF i = 0 THEN a ELSE G[<<q[i - 1], i>>]]
BY LoopExists

LEMMA TtyWriteLoopExists ==
    ASSUME TtyRingInv(queue), NEW s \in Seq(TtyBytes)
    PROVE  \E q : TtyWriteLoop(s, q)
<1>1. PICK n \in Nat : n = Len(s)
  OBVIOUS
<1> DEFINE a == queue
           G == [z \in SoundTty \X (1 .. n) |-> tty_queue_putchar(z[1], s[z[2]])]
<1>2. G \in [SoundTty \X (1 .. n) -> SoundTty]
  <2> SUFFICES ASSUME NEW x \in SoundTty, NEW i \in 1 .. n
               PROVE  tty_queue_putchar(x, s[i]) \in SoundTty
    OBVIOUS
  <2>1. s[i] \in TtyBytes
    BY <1>1
  <2> QED BY <2>1, PutcharSound
<1>3. PICK q \in [0 .. n -> SoundTty] :
        q = [i \in 0 .. n |-> IF i = 0 THEN a ELSE G[<<q[i - 1], i>>]]
  <2>1. a \in SoundTty
    BY DEF SoundTty, TtyRingInv
  <2>2. \E q \in [0 .. n -> SoundTty] :
          q = [i \in 0 .. n |-> IF i = 0 THEN a ELSE G[<<q[i - 1], i>>]]
    <3> HIDE DEF G, a
    <3> QED BY <1>2, <2>1, TtyLoopExists
  <2> QED BY <2>2
<1>4. ASSUME NEW i \in 0 .. n, i # 0
      PROVE  G[<<q[i - 1], i>>] = tty_queue_putchar(q[i - 1], s[i])
  <2>1. i - 1 \in 0 .. n /\ i \in 1 .. n
    BY <1>4
  <2>2. <<q[i - 1], i>> \in SoundTty \X (1 .. n)
    BY <2>1
  <2> QED BY <2>2
<1>5. TtyWriteLoop(s, q)
  <2> HIDE DEF G
  <2> QED BY <1>1, <1>3, <1>4 DEF TtyWriteLoop
<1> QED BY <1>5

LEMMA TtyWriteIsLoop ==
    ASSUME TtyRingInv(queue), NEW s \in Seq(TtyBytes), tty_write(s)
    PROVE  \E q : /\ TtyWriteLoop(s, q) /\ queue' = q[Len(s)]
                  /\ typed' = [op |-> "write", data |-> s]
<1>1. \E q : TtyWriteLoop(s, q)
  BY TtyWriteLoopExists
<1> QED BY <1>1 DEF tty_write, TtyWriteLoop

(* After k bytes of a write.                                               *)
TtyStored(z, s, k) ==
    /\ TtyRingInv(z) /\ z.cnt = queue.cnt + k
    /\ \A j \in 1 .. queue.cnt : Char(z, j) = Char(queue, j)
    /\ \A j \in 1 .. k : Char(z, queue.cnt + j) = s[j]

LEMMA TtyStoredStep ==
    ASSUME TtyRingInv(queue), NEW s \in Seq(TtyBytes), NEW z,
           NEW k \in 0 .. (TTY_BUF_SIZE - 1 - queue.cnt - 1), TtyStored(z, s, k),
           k + 1 \in 1 .. Len(s)
    PROVE  TtyStored(tty_queue_putchar(z, s[k + 1]), s, k + 1)
<1> DEFINE c == queue.cnt
           p == tty_queue_putchar(z, s[k + 1])
<1>1. /\ c \in Nat /\ k \in Nat /\ c + k < TTY_BUF_SIZE - 1 /\ TTY_BUF_SIZE \in Nat
      /\ s[k + 1] \in TtyBytes
  BY TtyRecord, TtyAssumption DEF TtyRingInv
<1>2. ~TtyFull(z) /\ TtyRingInv(z) /\ z.cnt = c + k
  BY <1>1, EmptyOrFull DEF TtyStored
<1>3. /\ TtyRingInv(p) /\ p.cnt = c + k + 1 /\ Char(p, c + k + 1) = s[k + 1]
      /\ \A j \in 1 .. (c + k) : Char(p, j) = Char(z, j)
  BY <1>1, <1>2, PutcharMoves
<1> HIDE DEF p
<1>4. ASSUME NEW j \in 1 .. c PROVE Char(p, j) = Char(queue, j)
  BY <1>1, <1>3 DEF TtyStored
<1>5. ASSUME NEW j \in 1 .. (k + 1) PROVE Char(p, c + j) = s[j]
  <2>1. CASE j = k + 1
    <3>1. c + j = c + k + 1
      BY <1>1, <2>1
    <3> QED BY <1>3, <2>1, <3>1
  <2>2. CASE j <= k
    <3>1. c + j \in 1 .. (c + k) /\ j \in 1 .. k
      BY <1>1, <2>2
    <3> QED BY <1>3, <3>1 DEF TtyStored
  <2> QED BY <1>1, <2>1, <2>2
<1>6. p.cnt = c + (k + 1)
  BY <1>1, <1>3
<1> QED BY <1>3, <1>4, <1>5, <1>6 DEF TtyStored, p

LEMMA TtyWriteStores ==
    ASSUME TtyRingInv(queue), NEW s \in Seq(TtyBytes), NEW q, TtyWriteLoop(s, q)
    PROVE  TtyStored(q[Len(s)], s, Lesser(Len(s), TTY_BUF_SIZE - 1 - queue.cnt))
<1> DEFINE c == queue.cnt
           n == Len(s)
           r == TTY_BUF_SIZE - 1 - c
           S == {i \in Nat : i <= n => TtyStored(q[i], s, Lesser(i, r))}
<1>1. c \in Nat /\ r \in Nat /\ n \in Nat /\ TTY_BUF_SIZE \in Nat
  BY TtyRecord, TtyAssumption DEF TtyRingInv
<1>2. 0 \in S
  <2>1. q[0] = queue
    BY DEF TtyWriteLoop
  <2>2. TtyStored(queue, s, 0)
    BY <1>1 DEF TtyStored
  <2>3. Lesser(0, r) = 0
    BY <1>1 DEF Lesser
  <2> QED BY <2>1, <2>2, <2>3
<1>3. ASSUME NEW i \in S PROVE i + 1 \in S
  <2> SUFFICES ASSUME i + 1 <= n PROVE TtyStored(q[i + 1], s, Lesser(i + 1, r))
    OBVIOUS
  <2> DEFINE k == Lesser(i, r)
  <2>1. i \in Nat /\ TtyStored(q[i], s, k) /\ k \in 0 .. r
    BY <1>1 DEF Lesser
  <2>2. q[i + 1] = tty_queue_putchar(q[i], s[i + 1])
    <3>1. i + 1 \in 0 .. n /\ i + 1 # 0 /\ (i + 1) - 1 = i
      BY <1>1, <2>1
    <3> QED BY <3>1 DEF TtyWriteLoop
  <2>3. TtyFull(q[i]) <=> c + k = TTY_BUF_SIZE - 1
    BY <2>1, EmptyOrFull DEF TtyStored
  <2>4. CASE k = r
    <3>1. Lesser(i + 1, r) = k
      BY <1>1, <2>1, <2>4 DEF Lesser
    <3>2. TtyFull(q[i])
      BY <1>1, <2>3, <2>4
    <3>3. q[i + 1] = q[i]
      BY <2>2, <3>2 DEF tty_queue_putchar
    <3> QED BY <2>1, <3>1, <3>3
  <2>5. CASE k < r
    <3>1. Lesser(i + 1, r) = k + 1 /\ k = i
      BY <1>1, <2>1, <2>5 DEF Lesser
    <3>2. k \in 0 .. (r - 1) /\ k + 1 \in 1 .. n
      BY <1>1, <2>1, <2>5, <3>1
    <3>3. q[i + 1] = tty_queue_putchar(q[i], s[k + 1])
      BY <2>2, <3>1
    <3> HIDE DEF k
    <3> QED BY <2>1, <3>1, <3>2, <3>3, TtyStoredStep
  <2> QED BY <1>1, <2>1, <2>4, <2>5
<1>4. n \in S
  <2> HIDE DEF S
  <2>1. S \in SUBSET Nat
    BY DEF S
  <2> QED BY <1>1, <1>2, <1>3, <2>1, SetInduction
<1> QED BY <1>4

TtyInv == TtyRingInv(queue) /\ TtyTypeOK

LEMMA TtyReadStep ==
    ASSUME TtyInv, NEW n \in 1 .. TTY_BUF_SIZE, tty_read(n)
    PROVE  TtyInv' /\ TtyStream!Read
<1>1. n \in Nat /\ TtyRingInv(queue) /\ queue \in TtyRing
  BY TtyAssumption DEF TtyInv, TtyRingInv
<1>2. PICK q : /\ TtyReadLoop(n, q) /\ queue' = q[n].at
               /\ typed' = [op |-> "read", data |-> q[n].out]
  BY <1>1, TtyReadIsLoop
<1> DEFINE C == CharsOf(queue)
           c == queue.cnt
<1>3. PICK k : k = Lesser(n, c)
  OBVIOUS
<1>4. PICK p, o : p = q[n].at /\ o = q[n].out
  OBVIOUS
<1>5. c \in Nat /\ k \in 0 .. c /\ (k = 0 => c = 0)
  BY <1>1, <1>3, TtyRecord, TtyAssumption DEF Lesser
<1>6. /\ TtyRingInv(p) /\ p.cnt = c - k /\ o \in Seq(TtyBytes) /\ Len(o) = k
      /\ \A j \in 1 .. k : o[j] = Char(queue, j)
      /\ \A j \in 1 .. (c - k) : Char(p, j) = Char(queue, k + j)
  BY <1>1, <1>2, <1>3, <1>4, TtyReadTakes DEF TtyTaken
<1>7. /\ TtyContent = C /\ C \in Seq(TtyBytes) /\ Len(C) = c
      /\ \A j \in 1 .. c : C[j] = Char(queue, j)
  BY <1>1, TtyContentIsChars DEF TtyContent
<1>8. TtyContent' = CharsOf(p)
  <2>1. queue' = p
    BY <1>2, <1>4
  <2> QED BY <1>6, <2>1, TtyContentIsChars DEF TtyContent
<1>9. /\ CharsOf(p) \in Seq(TtyBytes) /\ Len(CharsOf(p)) = c - k
      /\ \A j \in 1 .. (c - k) : CharsOf(p)[j] = Char(p, j)
  BY <1>6, TtyContentIsChars
<1> HIDE DEF C, c
<1>10. o = SubSeq(C, 1, k)
  <2>1. \A j \in 1 .. k : o[j] = C[j]
    BY <1>5, <1>6, <1>7
  <2> QED BY <1>5, <1>6, <1>7, <2>1, IsFront
<1>11. CharsOf(p) = SubSeq(C, k + 1, Len(C))
  <2>1. ASSUME NEW j \in 1 .. (c - k) PROVE CharsOf(p)[j] = C[k + j]
    <3>1. k + j \in 1 .. c
      BY <1>5
    <3> QED BY <1>6, <1>7, <1>9, <3>1
  <2> QED BY <1>5, <1>7, <1>9, <2>1, IsRest
<1>12. k = 0 => C = <<>>
  BY <1>5, <1>7
<1>13. TtyStream!Read
  <2>1. k \in 0 .. Len(TtyContent) /\ (k = 0 => TtyContent = <<>>)
    BY <1>5, <1>7, <1>12
  <2>2. typed' = [op |-> "read", data |-> SubSeq(TtyContent, 1, k)]
    BY <1>2, <1>4, <1>7, <1>10
  <2>3. TtyContent' = SubSeq(TtyContent, k + 1, Len(TtyContent))
    BY <1>7, <1>8, <1>11
  <2> QED BY <2>1, <2>2, <2>3 DEF TtyStream!Read
<1>14. TtyInv'
  <2>1. queue' = p /\ typed' = [op |-> "read", data |-> o]
    BY <1>2, <1>4
  <2>2. TtyRingInv(queue') /\ queue' \in TtyRing
    BY <1>6, <2>1 DEF TtyRingInv
  <2>3. typed' \in [op : {"none", "read", "write"}, data : Seq(TtyBytes)]
    BY <1>6, <2>1
  <2> QED BY <2>2, <2>3 DEF TtyInv, TtyTypeOK, TtyRing
<1> QED BY <1>13, <1>14

LEMMA TtyWriteStep ==
    ASSUME TtyInv, NEW s \in Seq(TtyBytes), tty_write(s)
    PROVE  TtyInv' /\ TtyStream!Write
<1>1. TtyRingInv(queue) /\ queue \in TtyRing /\ Len(s) \in Nat /\ TTY_BUF_SIZE \in Nat
  BY TtyAssumption DEF TtyInv, TtyRingInv
<1>2. PICK q : /\ TtyWriteLoop(s, q) /\ queue' = q[Len(s)]
               /\ typed' = [op |-> "write", data |-> s]
  BY <1>1, TtyWriteIsLoop
<1> DEFINE C == CharsOf(queue)
           c == queue.cnt
<1>3. PICK k : k = Lesser(Len(s), TTY_BUF_SIZE - 1 - c)
  OBVIOUS
<1>4. PICK p : p = q[Len(s)]
  OBVIOUS
<1>5. c \in Nat /\ k \in 0 .. Len(s)
  BY <1>1, <1>3, TtyRecord DEF Lesser
<1>6. /\ TtyRingInv(p) /\ p.cnt = c + k
      /\ \A j \in 1 .. c : Char(p, j) = Char(queue, j)
      /\ \A j \in 1 .. k : Char(p, c + j) = s[j]
  BY <1>1, <1>2, <1>3, <1>4, TtyWriteStores DEF TtyStored
<1>7. /\ TtyContent = C /\ C \in Seq(TtyBytes) /\ Len(C) = c
      /\ \A j \in 1 .. c : C[j] = Char(queue, j)
  BY <1>1, TtyContentIsChars DEF TtyContent
<1>8. TtyContent' = CharsOf(p)
  <2>1. queue' = p
    BY <1>2, <1>4
  <2> QED BY <1>6, <2>1, TtyContentIsChars DEF TtyContent
<1>9. /\ CharsOf(p) \in Seq(TtyBytes) /\ Len(CharsOf(p)) = c + k
      /\ \A j \in 1 .. (c + k) : CharsOf(p)[j] = Char(p, j)
  BY <1>6, TtyContentIsChars
<1> HIDE DEF C, c
<1>10. PICK t : t = SubSeq(s, 1, k)
  OBVIOUS
<1>11. t \in Seq(TtyBytes) /\ Len(t) = k /\ \A j \in 1 .. k : t[j] = s[j]
  BY <1>5, <1>10
<1>12. CharsOf(p) = C \o t
  <2>1. \A j \in 1 .. Len(C) : CharsOf(p)[j] = C[j]
    BY <1>5, <1>6, <1>7, <1>9
  <2>2. ASSUME NEW j \in 1 .. Len(t) PROVE CharsOf(p)[Len(C) + j] = t[j]
    <3>1. c + j \in 1 .. (c + k) /\ j \in 1 .. k
      BY <1>5, <1>11
    <3> QED BY <1>6, <1>7, <1>9, <1>11, <3>1
  <2> QED BY <1>5, <1>7, <1>9, <1>11, <2>1, <2>2, IsGrown
<1>13. t = IF Len(s) <= TTY_BUF_SIZE - 1 - c THEN s ELSE SubSeq(s, 1, TTY_BUF_SIZE - 1 - c)
  <2>1. CASE Len(s) <= TTY_BUF_SIZE - 1 - c
    <3>1. k = Len(s)
      BY <1>3, <2>1 DEF Lesser
    <3> QED BY <1>10, <2>1, <3>1
  <2>2. CASE ~(Len(s) <= TTY_BUF_SIZE - 1 - c)
    BY <1>3, <1>10, <2>2 DEF Lesser
  <2> QED BY <2>1, <2>2
<1>14. TtyStream!Write
  <2>1. typed'.op = "write" /\ typed'.data = s
    BY <1>2
  <2>2. TtyStream!Fits(s) = t
    BY <1>7, <1>13 DEF TtyStream!Fits, TtyStream!Room
  <2> QED BY <1>7, <1>8, <1>12, <2>1, <2>2 DEF TtyStream!Write
<1>15. TtyInv'
  <2>1. TtyRingInv(queue') /\ queue' \in TtyRing
    BY <1>2, <1>4, <1>6 DEF TtyRingInv
  <2>2. typed' \in [op : {"none", "read", "write"}, data : Seq(TtyBytes)]
    BY <1>2
  <2> QED BY <2>1, <2>2 DEF TtyInv, TtyTypeOK, TtyRing
<1> QED BY <1>14, <1>15

-----------------------------------------------------------------------------
(* The files of a program: the two streams beside the descriptors.         *)

FilesInv == FdInv /\ PipeInv /\ TtyInv /\ calls \in Workloads

LEMMA FirstFilesInv == FilesInit => FilesInv /\ PipeStream!Init /\ TtyStream!Init
<1> SUFFICES ASSUME FilesInit PROVE FilesInv /\ PipeStream!Init /\ TtyStream!Init
  OBVIOUS
<1>1. FdInv /\ calls \in Workloads
  BY FirstFdInv DEF FilesInit
<1>2. PipeInv
  <2>1. NewPipe \in Ring
    BY PipeAssumption DEF NewPipe, Ring
  <2>2. Wrapped(0) = 0 /\ Place(0 + 0, BUFSIZ) = 0
    BY PipeAssumption DEF Wrapped, Place
  <2>3. RingInv(NewPipe)
    BY <2>1, <2>2 DEF NewPipe, RingInv
  <2>4. copied \in [op : {"none", "read", "write"}, data : Seq(Bytes)]
    BY DEF FilesInit, PipeInit, NoCall
  <2> QED BY <2>1, <2>3, <2>4 DEF FilesInit, PipeInit, PipeInv, PipeTypeOK, Ring
<1>3. TtyInv
  <2>1. queue \in TtyRing
    BY TtyAssumption DEF FilesInit, TtyInit, TtyRing
  <2>2. Place(0 + 0, TTY_BUF_SIZE) = 0
    BY TtyAssumption DEF Place
  <2>3. TtyRingInv(queue)
    BY <2>1, <2>2 DEF FilesInit, TtyInit, TtyRingInv
  <2>4. typed \in [op : {"none", "read", "write"}, data : Seq(TtyBytes)]
    BY DEF FilesInit, TtyInit
  <2> QED BY <2>1, <2>3, <2>4 DEF TtyInv, TtyTypeOK, TtyRing
<1>4. PipeStream!Init
  <2>1. PipeContent = <<>>
    BY DEF FilesInit, PipeInit, NewPipe, PipeContent
  <2> QED BY <2>1 DEF FilesInit, PipeInit, NoCall, PipeStream!Init
<1>5. TtyStream!Init
  <2>1. TtyContent = <<>>
    BY DEF FilesInit, TtyInit, TtyContent
  <2> QED BY <2>1 DEF FilesInit, TtyInit, TtyStream!Init
<1> QED BY <1>1, <1>2, <1>3, <1>4, <1>5 DEF FilesInv

LEMMA StringsAreSeqs ==
    ASSUME NEW V, NEW n \in Nat, NEW s \in UNION {[1 .. k -> V] : k \in 1 .. n}
    PROVE  s \in Seq(V)
OBVIOUS

LEMMA FilesStep ==
    ASSUME FilesInv, [FilesNext]_filesVars
    PROVE  /\ FilesInv'
           /\ [PipeStream!Next]_<<PipeContent, copied>>
           /\ [TtyStream!Next]_<<TtyContent, typed>>
<1>1. UNCHANGED fdVars => FdInv'
  BY DEF fdVars, FilesInv, FdInv, FdTypeOK, Counted, Unborn, Unmade, NamedIsOpen, Names
<1>2. UNCHANGED pipeVars => PipeInv' /\ UNCHANGED <<PipeContent, copied>>
  BY DEF pipeVars, FilesInv, PipeInv, PipeTypeOK, PipeContent
<1>3. UNCHANGED ttyVars => TtyInv' /\ UNCHANGED <<TtyContent, typed>>
  BY DEF ttyVars, FilesInv, TtyInv, TtyTypeOK, TtyContent
<1>4. ASSUME NEW p \in running, FdCall(p), UNCHANGED <<pipeVars, ttyVars, calls>>
      PROVE  FdInv'
  BY <1>4, FdStep DEF FilesInv
<1>5. ASSUME NEW p \in running, PipeCall(p)
      PROVE  PipeInv' /\ PipeStream!Next
  <2>1. CASE \E n \in 1 .. BUFSIZ : file_read_pipe_buffer(n)
    BY <2>1, PipeReadStep DEF FilesInv, PipeStream!Next
  <2>2. CASE \E s \in Strings(BUFSIZ - 1) : file_write_pipe_buffer(s)
    <3>1. PICK s \in Strings(BUFSIZ - 1) : file_write_pipe_buffer(s)
      BY <2>2
    <3>2. BUFSIZ - 1 \in Nat
      BY PipeAssumption
    <3>3. s \in Seq(Bytes)
      BY <3>2, StringsAreSeqs DEF Strings
    <3> QED BY <3>1, <3>3, PipeWriteStep DEF FilesInv, PipeStream!Next
  <2> QED BY <1>5, <2>1, <2>2 DEF PipeCall
<1>6. ASSUME TtyCall PROVE TtyInv' /\ TtyStream!Next
  <2>1. CASE \E n \in 1 .. TTY_BUF_SIZE : tty_read(n)
    BY <2>1, TtyReadStep DEF FilesInv, TtyStream!Next
  <2>2. CASE \E s \in TtyStrings(TTY_BUF_SIZE) : tty_write(s)
    <3>1. PICK s \in TtyStrings(TTY_BUF_SIZE) : tty_write(s)
      BY <2>2
    <3>2. TTY_BUF_SIZE \in Nat
      BY TtyAssumption
    <3>3. s \in Seq(TtyBytes)
      BY <3>2, StringsAreSeqs DEF TtyStrings
    <3> QED BY <3>1, <3>3, TtyWriteStep DEF FilesInv, TtyStream!Next
  <2> QED BY <1>6, <2>1, <2>2 DEF TtyCall
<1> QED BY <1>1, <1>2, <1>3, <1>4, <1>5, <1>6 DEF FilesNext, filesVars, FilesInv

(***************************************************************************)
(* Descriptors, counts of names, ring positions and counters stay in their *)
(* ranges, for buffers and tables of any size: the arithmetic of pipe.c    *)
(* and tty.c never indexes outside the buffer.                             *)
(***************************************************************************)
THEOREM FilesTypeCorrect == FilesSpec => []FilesTypeOK
<1>1. FilesInit => FilesInv
  BY FirstFilesInv
<1>2. FilesInv /\ [FilesNext]_filesVars => FilesInv'
  BY FilesStep
<1>3. FilesInv => FilesTypeOK
  BY DEF FilesInv, FdInv, PipeInv, TtyInv, FilesTypeOK
<1> QED BY <1>1, <1>2, <1>3, PTL DEF FilesSpec

(***************************************************************************)
(* Pipes and terminal queues of any size are streams of bytes: every read  *)
(* and write of any length, with wrap-around, short reads and writes that  *)
(* do not fit, is a step of ByteStream.                                    *)
(***************************************************************************)
THEOREM StreamsCorrect == FilesSpec => ImplementsStreams
<1>1. FilesInit => FilesInv /\ PipeStream!Init /\ TtyStream!Init
  BY FirstFilesInv
<1>2. FilesInv /\ [FilesNext]_filesVars =>
        /\ FilesInv'
        /\ [PipeStream!Next]_<<PipeContent, copied>>
        /\ [TtyStream!Next]_<<TtyContent, typed>>
  BY FilesStep
<1> QED BY <1>1, <1>2, PTL DEF FilesSpec, ImplementsStreams, PipeStream!Spec, TtyStream!Spec
=============================================================================
