---------------------- MODULE SharedMemoryRegionProofs ----------------------
(***************************************************************************)
(* Proofs about SharedMemoryRegion, for any processes, objects, names and  *)
(* sizes and any number of handles.  A step is of one process: it leaves   *)
(* the handles, the objects and the call of the others alone, so each      *)
(* invariant is stated process by process and its proof looks only at the  *)
(* process that moves; what is shared, the names and the segments, comes   *)
(* in the second half.                                                     *)
(***************************************************************************)
EXTENDS SharedMemoryRegion, WellFoundedInduction, TLAPS

Points == {"idle", "shm_open", "ftruncate", "fstat", "mmap",
           "unlink", "drop_local", "return"}

CallType == [kind : {"create", "create_exclusive", "open"},
             target : Object \cup {NoCall.target},
             fd : Handle \cup {Null}, region : Region]

\* A call c that process p can have at point s: a target of its own, a
\* descriptor from shm_open to mmap, a region without handles until mmap, and
\* at the end a region with a mapping or the empty one.
CallFits(p, s, c) ==
  /\ c \in CallType
  /\ s = "idle" => c = NoCall
  /\ s # "idle" => c.target \in Objects(p) /\ c.kind \in Calls[p]
  /\ s \notin {"idle", "return"} =>
       /\ c.region.name \in Name /\ c.region.is_creator = (c.kind # "open")
       /\ c.region.data = Null /\ c.region.fd = Null
  /\ c.fd # Null <=> s \in {"ftruncate", "fstat", "mmap"}
  /\ s \in {"ftruncate", "unlink"} => c.kind # "open"
  /\ s = "fstat" => c.kind = "open"
  /\ s = "return" => \/ c.region = Empty
                     \/ is_valid(c.region) /\ c.region.name \in Name

\* The tables and the objects have their types.
Tables ==
  /\ ns \in [Stem -> Inode \cup {NoInode}] /\ length \in [Inode -> Size \cup {0}]
  /\ fds \in [Proc -> [Handle -> Inode \cup {NoInode}]]
  /\ maps \in [Proc -> [Handle -> Inode \cup {NoInode}]]
  /\ obj \in [Object -> Region]
  /\ \A x \in Object : ~is_valid(obj[x]) => closed(obj[x]) = obj[x] /\ obj[x].size = 0

\* The types, with what a process at each point of a factory has in its call.
TypeInv ==
  /\ Tables
  /\ pc \in [Proc -> Points] /\ call \in [Proc -> CallType]
  /\ \A p \in Proc : CallFits(p, pc[p], call[p])

-----------------------------------------------------------------------------
\* A set of numbers that is not empty has a least element.
LEMMA Least ==
  ASSUME NEW S \in SUBSET Nat, S # {}
  PROVE  \E n \in S : \A m \in S : n <= m
<1> DEFINE R == OpToRel(<, Nat)
<1>1. IsWellFoundedOn(R, Nat)
  BY NatLessThanWellFounded
<1>2. \A x, y \in Nat : x < y => <<x, y>> \in R
  BY DEF OpToRel
<1> HIDE DEF R
<1>3. PICK n \in S : \A m \in S : <<m, n>> \notin R
  BY <1>1, WFMin
<1>4. \A m \in S : m \in Nat /\ n \in Nat /\ ~(m < n)
  BY <1>2, <1>3
<1>5. \A m \in S : n <= m
  BY <1>4
<1> QED
  BY <1>5

\* A handle is a number, and Null is none.
LEMMA HandleFacts == Handle \in SUBSET Nat /\ Null \notin Handle
BY ShmAssumption DEF Handle, Null

\* The operating system hands out a handle that is not open.
LEMMA LowestFree ==
  ASSUME NEW table, NEW p, Free(table, p) # {}
  PROVE  Lowest(Free(table, p)) \in Handle /\ table[p][Lowest(Free(table, p))] = NoInode
<1> DEFINE S == Free(table, p)
<1>1. S \in SUBSET Nat /\ S # {}
  BY HandleFacts DEF Free
<1>2. S \in SUBSET Handle /\ \A h \in S : table[p][h] = NoInode
  BY DEF Free
<1> HIDE DEF S
<1>3. \E h \in S : \A k \in S : h <= k
  BY <1>1, Least
<1>4. Lowest(S) \in S
  BY <1>3 DEF Lowest
<1> QED
  BY <1>2, <1>4 DEF S

\* Names are normalized to names.
LEMMA normalize_type == \A n \in Name : normalize_posix_shm_name(n) \in Stem
BY ShmAssumption DEF normalize_posix_shm_name

\* A closed region has no handles.
LEMMA EmptyType == Empty \in Region /\ Empty.fd = Null /\ Empty.data = Null
                     /\ ~Empty.is_creator /\ Empty.size = 0 /\ Empty.name = NoName
BY DEF Empty, Region

\* A process outside the factories holds nothing.
LEMMA NoCallType ==
  /\ NoCall \in CallType /\ NoCall.fd = Null /\ NoCall.region = Empty
  /\ \A p \in Proc : CallFits(p, "idle", NoCall)
<1>1. NoCall \in CallType /\ NoCall.fd = Null /\ NoCall.region = Empty
  BY EmptyType DEF NoCall, CallType
<1> QED
  BY <1>1 DEF CallFits

\* What closing a handle does to a table, handle by handle.
LEMMA ReleasedTable ==
  ASSUME NEW table \in [Proc -> [Handle -> Inode \cup {NoInode}]],
         NEW p \in Proc, NEW h \in Handle \cup {Null}
  PROVE  /\ released(table, p, h) \in [Proc -> [Handle -> Inode \cup {NoInode}]]
         /\ \A q \in Proc : q # p => released(table, p, h)[q] = table[q]
         /\ \A k \in Handle : released(table, p, h)[p][k]
                                = IF k = h THEN NoInode ELSE table[p][k]
<1>1. CASE h = Null
  BY <1>1, HandleFacts DEF released
<1>2. CASE h # Null
  <2>1. released(table, p, h) = [table EXCEPT ![p][h] = NoInode] /\ h \in Handle
    BY <1>2 DEF released
  <2> QED
    BY <2>1
<1> QED
  BY <1>1, <1>2

\* close() unlinks at most the name of a region that is a creator.
LEMMA UnlinkedNames ==
  ASSUME ns \in [Stem -> Inode \cup {NoInode}], NEW r \in Region
  PROVE  /\ unlinked(r) \in [Stem -> Inode \cup {NoInode}]
         /\ \A s \in Stem : unlinked(r)[s] # ns[s] =>
              r.is_creator /\ r.name \in Name /\ normalize_posix_shm_name(r.name) = s
         /\ ~r.is_creator => unlinked(r) = ns
BY normalize_type DEF unlinked, Region

\* A region is known by its five members.
LEMMA RegionFields ==
  ASSUME NEW n, NEW d, NEW z, NEW k, NEW f,
         NEW r \in [name : {n}, data : {d}, size : {z}, is_creator : {k}, fd : {f}]
  PROVE  r = [name |-> n, data |-> d, size |-> z, is_creator |-> k, fd |-> f]
OBVIOUS

\* The members after close() and after a move.
LEMMA ClosedMoved ==
  ASSUME NEW r \in Region
  PROVE  /\ closed(r) \in Region /\ moved(r) \in Region
         /\ ~is_valid(closed(r)) /\ ~is_valid(moved(r))
         /\ closed(closed(r)) = closed(r) /\ closed(moved(r)) = moved(r)
         /\ closed(r).fd = Null /\ closed(r).data = Null /\ closed(r).size = 0
         /\ moved(r).fd = Null /\ moved(r).data = Null /\ moved(r).size = 0
         /\ ~closed(r).is_creator /\ ~moved(r).is_creator
         /\ closed(Empty) = Empty
<1>1. closed(r) = [name |-> r.name, data |-> Null, size |-> 0,
                   is_creator |-> FALSE, fd |-> Null]
  <2>1. closed(r) \in [name : {r.name}, data : {Null}, size : {0},
                       is_creator : {FALSE}, fd : {Null}]
    BY DEF closed, Region
  <2> QED
    BY <2>1, RegionFields
<1>2. moved(r) = [name |-> NoName, data |-> Null, size |-> 0,
                  is_creator |-> FALSE, fd |-> Null]
  <2>1. moved(r) \in [name : {NoName}, data : {Null}, size : {0},
                      is_creator : {FALSE}, fd : {Null}]
    BY DEF moved, Region
  <2> QED
    BY <2>1, RegionFields
<1>3. r.name \in Name \cup {NoName}
  BY DEF Region
<1>4. closed(r) \in Region /\ moved(r) \in Region
  BY <1>1, <1>2, <1>3 DEF Region
<1>5. \A q : closed([name |-> q, data |-> Null, size |-> 0, is_creator |-> FALSE,
                     fd |-> Null])
              = [name |-> q, data |-> Null, size |-> 0, is_creator |-> FALSE,
                 fd |-> Null]
  <2> TAKE q
  <2> DEFINE e == [name |-> q, data |-> Null, size |-> 0, is_creator |-> FALSE,
                   fd |-> Null]
  <2>1. closed(e) \in [name : {q}, data : {Null}, size : {0},
                       is_creator : {FALSE}, fd : {Null}]
    BY DEF closed
  <2> QED
    BY <2>1, RegionFields
<1>6. closed(Empty) = Empty
  BY <1>5 DEF Empty
<1>7. closed(closed(r)) = closed(r) /\ closed(moved(r)) = moved(r)
  BY <1>1, <1>2, <1>5
<1> QED
  BY <1>1, <1>2, <1>4, <1>6, <1>7 DEF is_valid

\* The call after mmap: the region takes the mapping and the descriptor.
LEMMA MappedCall ==
  ASSUME NEW c \in CallType, NEW h \in Handle, c.fd \in Handle
  PROVE  LET d == [c EXCEPT !.region.data = h, !.region.fd = c.fd, !.fd = Null]
         IN  /\ d \in CallType /\ d.kind = c.kind /\ d.target = c.target /\ d.fd = Null
             /\ d.region.data = h /\ d.region.fd = c.fd
             /\ d.region.name = c.region.name /\ d.region.size = c.region.size
             /\ d.region.is_creator = c.region.is_creator
BY DEF CallType, Region

\* A step of process p that gives it a call that fits.
LEMMA CallStep ==
  ASSUME TypeInv, NEW p \in Proc, NEW s \in Points, NEW c, CallFits(p, s, c),
         call' = [call EXCEPT ![p] = c], pc' = [pc EXCEPT ![p] = s], Tables'
  PROVE  TypeInv'
<1>1. c \in CallType
  BY DEF CallFits
<1>2. pc' \in [Proc -> Points] /\ call' \in [Proc -> CallType]
  BY <1>1 DEF TypeInv
<1>3. \A q \in Proc : CallFits(q, pc'[q], call'[q])
  <2> TAKE q \in Proc
  <2>1. CASE q = p
    BY <2>1 DEF TypeInv
  <2>2. CASE q # p
    BY <2>2 DEF TypeInv
  <2> QED
    BY <2>1, <2>2
<1>4. (\A q \in Proc : CallFits(q, pc[q], call[q]))'
  BY <1>3 DEF CallFits
<1> QED
  BY <1>2, <1>4 DEF TypeInv

\* The types hold at first.
LEMMA TypesInit == Init => TypeInv
<1> SUFFICES ASSUME Init PROVE TypeInv
  OBVIOUS
<1>1. Tables
  <2>1. \A x \in Object : closed(obj[x]) = obj[x] /\ obj[x].size = 0
    BY EmptyType, ClosedMoved DEF Init
  <2> QED
    BY <2>1, EmptyType DEF Init, Tables
<1>2. pc \in [Proc -> Points] /\ call \in [Proc -> CallType]
  BY NoCallType DEF Init, Points
<1>3. \A p \in Proc : CallFits(p, pc[p], call[p])
  BY NoCallType DEF Init
<1> QED
  BY <1>1, <1>2, <1>3 DEF TypeInv

\* close() on a region keeps the types of the tables.
LEMMA close_types ==
  ASSUME TypeInv, NEW p \in Proc, NEW r \in Region, close_effects(p, r)
  PROVE  /\ ns' \in [Stem -> Inode \cup {NoInode}]
         /\ fds' \in [Proc -> [Handle -> Inode \cup {NoInode}]]
         /\ maps' \in [Proc -> [Handle -> Inode \cup {NoInode}]]
<1>1. r.fd \in Handle \cup {Null} /\ r.data \in Handle \cup {Null}
  BY DEF Region
<1> QED
  BY <1>1, ReleasedTable, UnlinkedNames DEF close_effects, TypeInv, Tables

\* Every step of every process keeps the types.
LEMMA TypesNext == TypeInv /\ [Next]_vars => TypeInv'
<1> SUFFICES ASSUME TypeInv, [Next]_vars PROVE TypeInv'
  OBVIOUS
<1> USE DEF Points
<1>0. /\ Tables /\ pc \in [Proc -> Points] /\ call \in [Proc -> CallType]
      /\ \A p \in Proc : CallFits(p, pc[p], call[p])
  BY DEF TypeInv
<1>1. ASSUME NEW p \in Proc, NEW x \in Object, NEW name \in Name, NEW size \in Size,
             NEW kind \in Calls[p], factory(p, kind, x, name, size)
      PROVE  TypeInv'
  <2> DEFINE r == local_region(kind, name, size)
             c == [kind |-> kind, target |-> x, fd |-> Null, region |-> r]
  <2>1. r = [name |-> name, data |-> Null, size |-> size,
             is_creator |-> (kind # "open"), fd |-> Null]
    <3>1. r \in [name : {name}, data : {Null}, size : {size},
                 is_creator : {kind # "open"}, fd : {Null}]
      BY Zenon DEF local_region, Empty
    <3> HIDE DEF r
    <3> QED
      BY <3>1, RegionFields
  <2>2. r \in Region
    BY <2>1 DEF Region
  <2>3. kind \in {"create", "create_exclusive", "open"}
    BY ShmAssumption
  <2>4. CallFits(p, "shm_open", c)
    BY <1>1, <2>1, <2>2, <2>3 DEF CallFits, CallType, factory, Objects
  <2>5. Tables'
    BY <1>0, <1>1 DEF factory, Tables, closed, is_valid
  <2> QED
    BY <1>1, <2>4, <2>5, CallStep DEF factory
<1>2. ASSUME NEW p \in Proc, shm_open(p)
      PROVE  TypeInv'
  <2> DEFINE h == Lowest(Free(fds, p))
             c == [call[p] EXCEPT !.fd = h]
             s == IF call[p].kind = "open" THEN "fstat" ELSE "ftruncate"
  <2>1. h \in Handle /\ h # Null
    BY <1>2, LowestFree, HandleFacts DEF shm_open
  <2>2. CallFits(p, "shm_open", call[p]) /\ call[p] \in CallType
    BY <1>0, <1>2 DEF shm_open
  <2>3. /\ call' = [call EXCEPT ![p] = c] /\ pc' = [pc EXCEPT ![p] = s]
        /\ UNCHANGED <<maps, obj>>
    BY <1>2 DEF shm_open
  <2>4. /\ c.kind = call[p].kind /\ c.target = call[p].target
        /\ c.fd = h /\ c.region = call[p].region /\ c \in CallType
    BY <2>1, <2>2 DEF CallType
  <2>5. CallFits(p, s, c)
    BY <2>1, <2>2, <2>4 DEF CallFits
  <2>6. Tables'
    <3>1. /\ ns' \in [Stem -> Inode \cup {NoInode}] /\ length' \in [Inode -> Size \cup {0}]
          /\ fds' \in [Proc -> [Handle -> Inode \cup {NoInode}]]
      <4> DEFINE n == normalize_posix_shm_name(call[p].region.name)
                 new == \E i \in Inode : /\ ns' = [ns EXCEPT ![n] = i]
                                         /\ length' = [length EXCEPT ![i] = 0]
                                         /\ fds' = [fds EXCEPT ![p][h] = i]
                 old == /\ \/ length' = length
                           \/ length' = [length EXCEPT ![ns[n]] = 0]
                        /\ fds' = [fds EXCEPT ![p][h] = ns[n]]
                        /\ UNCHANGED ns
      <4>1. new \/ old
        BY <1>2 DEF shm_open
      <4>2. n \in Stem
        BY <2>2, normalize_type DEF CallFits
      <4> HIDE DEF n, h
      <4>3. CASE new
        <5>1. PICK i \in Inode : /\ ns' = [ns EXCEPT ![n] = i]
                                /\ length' = [length EXCEPT ![i] = 0]
                                /\ fds' = [fds EXCEPT ![p][h] = i]
          BY <4>3
        <5>2. length' \in [Inode -> Size \cup {0}]
          BY <1>0, <5>1 DEF Tables
        <5>3. fds' \in [Proc -> [Handle -> Inode \cup {NoInode}]]
          BY <1>0, <2>1, <5>1 DEF Tables
        <5> QED
          BY <1>0, <5>1, <5>2, <5>3 DEF Tables
      <4>4. CASE old
        BY <1>0, <2>1, <4>2, <4>4 DEF Tables
      <4> HIDE DEF new, old
      <4> QED
        BY <4>1, <4>3, <4>4
    <3> QED
      BY <1>0, <2>3, <3>1 DEF Tables, closed, is_valid
  <2> QED
    BY <2>3, <2>5, <2>6, CallStep
<1>3. ASSUME NEW p \in Proc, shm_open_fails(p)
      PROVE  TypeInv'
  <2>1. CallFits(p, "shm_open", call[p])
    BY <1>0, <1>3 DEF shm_open_fails
  <2>2. CallFits(p, "drop_local", call[p])
    BY <2>1 DEF CallFits
  <2>3. call' = [call EXCEPT ![p] = call[p]] /\ pc' = [pc EXCEPT ![p] = "drop_local"]
    BY <1>0, <1>3 DEF shm_open_fails
  <2>4. Tables'
    BY <1>0, <1>3 DEF shm_open_fails, Tables, closed, is_valid
  <2> QED
    BY <2>2, <2>3, <2>4, CallStep
<1>4. ASSUME NEW p \in Proc, ftruncate(p)
      PROVE  TypeInv'
  <2>1. CallFits(p, "ftruncate", call[p]) /\ call[p].region.size \in Size \cup {0}
    BY <1>0, <1>4 DEF ftruncate, CallType, Region
  <2>2. CallFits(p, "mmap", call[p])
    BY <2>1 DEF CallFits
  <2>3. call' = [call EXCEPT ![p] = call[p]] /\ pc' = [pc EXCEPT ![p] = "mmap"]
    BY <1>0, <1>4 DEF ftruncate
  <2>4. Tables'
    BY <1>0, <1>4, <2>1 DEF ftruncate, Tables, closed, is_valid
  <2> QED
    BY <2>2, <2>3, <2>4, CallStep
<1>5. ASSUME NEW p \in Proc, fstat(p)
      PROVE  TypeInv'
  <2>1. CallFits(p, "fstat", call[p])
    BY <1>0, <1>5 DEF fstat
  <2>2. CallFits(p, "mmap", call[p])
    BY <2>1 DEF CallFits
  <2>3. call' = [call EXCEPT ![p] = call[p]] /\ pc' = [pc EXCEPT ![p] = "mmap"]
    BY <1>0, <1>5 DEF fstat
  <2>4. Tables'
    BY <1>0, <1>5 DEF fstat, Tables, closed, is_valid
  <2> QED
    BY <2>2, <2>3, <2>4, CallStep
<1>6. ASSUME NEW p \in Proc, mmap(p)
      PROVE  TypeInv'
  <2> DEFINE h == Lowest(Free(maps, p))
             c == [call[p] EXCEPT !.region.data = h, !.region.fd = call[p].fd, !.fd = Null]
             r == c.region
  <2>1. h \in Handle /\ h # Null
    BY <1>6, LowestFree, HandleFacts DEF mmap
  <2>2. CallFits(p, "mmap", call[p]) /\ call[p] \in CallType
    BY <1>0, <1>6 DEF mmap
  <2>3. call[p].fd \in Handle /\ call[p].region \in Region
    BY <2>2 DEF CallFits, CallType
  <2>4. /\ call' = [call EXCEPT ![p] = c] /\ pc' = [pc EXCEPT ![p] = "return"]
        /\ maps' = [maps EXCEPT ![p][h] = fds[p][call[p].fd]]
        /\ UNCHANGED <<ns, length, fds, obj>>
    BY <1>0, <1>6 DEF mmap
  <2>5. /\ c \in CallType /\ c.kind = call[p].kind /\ c.target = call[p].target
        /\ c.fd = Null /\ r.name = call[p].region.name /\ r.data = h
    BY <2>1, <2>2, <2>3, MappedCall
  <2> HIDE DEF c
  <2>7. CallFits(p, "return", c)
    BY <2>1, <2>2, <2>5 DEF CallFits, is_valid
  <2>8. Tables'
    <3>1. maps' \in [Proc -> [Handle -> Inode \cup {NoInode}]]
      BY <1>0, <2>1, <2>3, <2>4 DEF Tables
    <3> QED
      BY <1>0, <2>4, <3>1 DEF Tables, closed, is_valid
  <2> QED
    BY <2>4, <2>7, <2>8, CallStep
<1>7. ASSUME NEW p \in Proc, step_fails(p)
      PROVE  TypeInv'
  <2> DEFINE c == [call[p] EXCEPT !.fd = Null]
             s == IF call[p].kind = "open" THEN "drop_local" ELSE "unlink"
  <2>1. /\ pc[p] \in {"ftruncate", "fstat", "mmap"} /\ call[p] \in CallType
        /\ CallFits(p, pc[p], call[p])
    BY <1>0, <1>7 DEF step_fails
  <2>2. /\ call' = [call EXCEPT ![p] = c] /\ pc' = [pc EXCEPT ![p] = s]
        /\ fds' = released(fds, p, call[p].fd) /\ UNCHANGED <<ns, length, maps, obj>>
    BY <1>7 DEF step_fails
  <2>3. /\ c.kind = call[p].kind /\ c.target = call[p].target
        /\ c.fd = Null /\ c.region = call[p].region /\ c \in CallType
    BY <2>1 DEF CallType
  <2>4. CallFits(p, s, c)
    <3> HIDE DEF c
    <3> QED
      BY <2>1, <2>3 DEF CallFits
  <2>5. Tables'
    <3>1. call[p].fd \in Handle \cup {Null}
      BY <2>1 DEF CallType
    <3>2. fds' \in [Proc -> [Handle -> Inode \cup {NoInode}]]
      BY <1>0, <2>2, <3>1, ReleasedTable DEF Tables
    <3> QED
      BY <1>0, <2>2, <3>2 DEF Tables, closed, is_valid
  <2> QED
    BY <2>2, <2>4, <2>5, CallStep
<1>8. ASSUME NEW p \in Proc, unlink(p)
      PROVE  TypeInv'
  <2>1. CallFits(p, "unlink", call[p])
    BY <1>0, <1>8 DEF unlink
  <2>2. CallFits(p, "drop_local", call[p])
    BY <2>1 DEF CallFits
  <2>3. call' = [call EXCEPT ![p] = call[p]] /\ pc' = [pc EXCEPT ![p] = "drop_local"]
    BY <1>0, <1>8 DEF unlink
  <2>4. Tables'
    BY <1>0, <1>8 DEF unlink, Tables, closed, is_valid
  <2> QED
    BY <2>2, <2>3, <2>4, CallStep
<1>9. ASSUME NEW p \in Proc, drop_local(p)
      PROVE  TypeInv'
  <2> DEFINE c == [call[p] EXCEPT !.region = Empty]
  <2>1. CallFits(p, "drop_local", call[p]) /\ call[p] \in CallType
    BY <1>0, <1>9 DEF drop_local
  <2>2. /\ call' = [call EXCEPT ![p] = c] /\ pc' = [pc EXCEPT ![p] = "return"]
        /\ close_effects(p, call[p].region) /\ UNCHANGED <<length, obj>>
    BY <1>9 DEF drop_local
  <2>3. /\ c.kind = call[p].kind /\ c.target = call[p].target
        /\ c.fd = call[p].fd /\ c.region = Empty /\ c \in CallType
    BY <2>1, EmptyType DEF CallType
  <2>4. CallFits(p, "return", c)
    <3> HIDE DEF c
    <3> QED
      BY <2>1, <2>3 DEF CallFits
  <2>5. Tables'
    <3>1. call[p].region \in Region
      BY <2>1 DEF CallType
    <3> QED
      BY <1>0, <2>2, <3>1, close_types DEF Tables, closed, is_valid
  <2> QED
    BY <2>2, <2>4, <2>5, CallStep
<1>10. ASSUME NEW p \in Proc, assign_result(p)
       PROVE  TypeInv'
  <2> DEFINE x == call[p].target
  <2>1. CallFits(p, "return", call[p]) /\ call[p] \in CallType
    BY <1>0, <1>10 DEF assign_result
  <2>2. x \in Object /\ call[p].region \in Region /\ obj[x] \in Region
    BY <1>0, <2>1 DEF CallFits, CallType, Objects, Tables
  <2>3. /\ call' = [call EXCEPT ![p] = NoCall] /\ pc' = [pc EXCEPT ![p] = "idle"]
        /\ obj' = [obj EXCEPT ![x] = call[p].region]
        /\ close_effects(p, obj[x]) /\ UNCHANGED length
    BY <1>10 DEF assign_result
  <2>4. ~is_valid(call[p].region) =>
          closed(call[p].region) = call[p].region /\ call[p].region.size = 0
    BY <2>1, EmptyType, ClosedMoved DEF CallFits
  <2>5. \A y \in Object : ~is_valid(obj'[y]) => closed(obj'[y]) = obj'[y] /\ obj'[y].size = 0
    BY <1>0, <2>2, <2>3, <2>4 DEF Tables
  <2>6. (\A y \in Object : ~is_valid(obj[y]) => closed(obj[y]) = obj[y] /\ obj[y].size = 0)'
    BY <2>5 DEF is_valid, closed
  <2>7. Tables'
    BY <1>0, <2>2, <2>3, <2>6, close_types DEF Tables
  <2> QED
    BY <2>3, <2>7, NoCallType, CallStep
<1>11. ASSUME NEW p \in Proc, crash(p)
       PROVE  TypeInv'
  <2>1. /\ call' = [call EXCEPT ![p] = NoCall] /\ pc' = [pc EXCEPT ![p] = "idle"]
        /\ obj' = [y \in Object |-> IF Owner[y] = p THEN Empty ELSE obj[y]]
    BY <1>11 DEF crash
  <2>2. \A y \in Object : ~is_valid(obj'[y]) => closed(obj'[y]) = obj'[y] /\ obj'[y].size = 0
    BY <1>0, <2>1, EmptyType, ClosedMoved DEF Tables
  <2>3. (\A y \in Object : ~is_valid(obj[y]) => closed(obj[y]) = obj[y] /\ obj[y].size = 0)'
    BY <2>2 DEF is_valid, closed
  <2>4. Tables'
    BY <1>0, <1>11, <2>1, <2>3, EmptyType DEF Tables, crash
  <2> QED
    BY <2>1, <2>4, NoCallType, CallStep
<1>12. ASSUME NEW x \in Object, NEW y \in Object, move_assign(x, y)
       PROVE  TypeInv'
  <2>1. /\ obj[x] \in Region /\ obj[y] \in Region /\ Owner[x] \in Proc
    BY <1>0, ShmAssumption DEF Tables
  <2>2. /\ close_effects(Owner[x], obj[x]) /\ UNCHANGED <<length, pc, call>> /\ x # y
        /\ obj' = [obj EXCEPT ![x] = obj[y], ![y] = moved(obj[y])]
    BY <1>0, <1>12 DEF move_assign, Tables
  <2>3. obj' \in [Object -> Region]
    BY <1>0, <2>1, <2>2, ClosedMoved DEF Tables
  <2>4. \A z \in Object : ~is_valid(obj'[z]) => closed(obj'[z]) = obj'[z] /\ obj'[z].size = 0
    BY <1>0, <2>1, <2>2, ClosedMoved DEF Tables
  <2>5. (\A z \in Object : ~is_valid(obj[z]) => closed(obj[z]) = obj[z] /\ obj[z].size = 0)'
    BY <2>4 DEF is_valid, closed
  <2>6. Tables'
    BY <1>0, <2>1, <2>2, <2>3, <2>5, close_types DEF Tables
  <2> QED
    BY <1>0, <2>2, <2>6 DEF TypeInv, CallFits
<1>13. ASSUME NEW x \in Object, close(x)
       PROVE  TypeInv'
  <2>1. /\ obj[x] \in Region /\ Owner[x] \in Proc
    BY <1>0, ShmAssumption DEF Tables
  <2>2. /\ close_effects(Owner[x], obj[x]) /\ UNCHANGED <<length, pc, call>>
        /\ obj' = [obj EXCEPT ![x] = closed(obj[x])]
    BY <1>0, <1>13 DEF close, Tables
  <2>3. obj' \in [Object -> Region]
    BY <1>0, <2>1, <2>2, ClosedMoved DEF Tables
  <2>4. \A z \in Object : ~is_valid(obj'[z]) => closed(obj'[z]) = obj'[z] /\ obj'[z].size = 0
    BY <1>0, <2>1, <2>2, ClosedMoved DEF Tables
  <2>5. (\A z \in Object : ~is_valid(obj[z]) => closed(obj[z]) = obj[z] /\ obj[z].size = 0)'
    BY <2>4 DEF is_valid, closed
  <2>6. Tables'
    BY <1>0, <2>1, <2>2, <2>3, <2>5, close_types DEF Tables
  <2> QED
    BY <1>0, <2>2, <2>6 DEF TypeInv, CallFits
<1>14. ASSUME UNCHANGED vars
       PROVE  TypeInv'
  BY <1>14 DEF vars, TypeInv, Tables, CallFits, closed, is_valid
<1> QED
  BY <1>1, <1>2, <1>3, <1>4, <1>5, <1>6, <1>7, <1>8, <1>9, <1>10, <1>11, <1>12,
     <1>13, <1>14 DEF Next

\* Every variable keeps its type, through every failing path of the factories
\* and a crash at any point, and outside a call a region without a mapping is
\* one that close() left: no descriptor, no size, nothing to unlink.
THEOREM TypeCorrect == Spec => []TypeOK
<1>1. TypeInv => TypeOK
  BY DEF TypeInv, TypeOK, Tables, Points, CallType
<1> QED
  BY <1>1, TypesInit, TypesNext, PTL DEF Spec

-----------------------------------------------------------------------------
(***************************************************************************)
(* Every handle has one owner.                                             *)
(***************************************************************************)
\* With descriptors F, mappings M, objects o and call c, process p holds each
\* handle in one variable, has no handle that none of them holds, and each of
\* them has a mapping only together with the descriptor of the same segment.
Owns(p, F, M, o, c) ==
  /\ \A x, y \in Objects(p) : x # y =>
       /\ o[x].fd # Null => o[x].fd # o[y].fd
       /\ o[x].data # Null => o[x].data # o[y].data
  /\ \A x \in Objects(p) :
       /\ o[x].fd # Null => o[x].fd # c.region.fd /\ o[x].fd # c.fd
       /\ o[x].data # Null => o[x].data # c.region.data
  /\ \A h \in Handle : F[h] # NoInode <=>
       (\E x \in Objects(p) : o[x].fd = h) \/ c.region.fd = h \/ c.fd = h
  /\ \A h \in Handle : M[h] # NoInode <=>
       (\E x \in Objects(p) : o[x].data = h) \/ c.region.data = h
  /\ \A x \in Objects(p) :
       o[x].data # Null => o[x].fd # Null /\ M[o[x].data] = F[o[x].fd]
  /\ c.region.data # Null => /\ c.region.fd # Null
                            /\ M[c.region.data] = F[c.region.fd]

HandleInv == \A p \in Proc : Owns(p, fds[p], maps[p], obj, call[p])

\* Only a process's own objects matter for what it owns.
LEMMA OwnsFrame ==
  ASSUME NEW p, NEW F, NEW M, NEW o, NEW o2, NEW c,
         \A x \in Objects(p) : o2[x] = o[x], Owns(p, F, M, o, c)
  PROVE  Owns(p, F, M, o2, c)
BY DEF Owns

\* A step of process p keeps the other processes' handles and variables.
LEMMA OwnsStep ==
  ASSUME HandleInv, NEW p \in Proc,
         \A q \in Proc : q # p =>
           fds'[q] = fds[q] /\ maps'[q] = maps[q] /\ call'[q] = call[q],
         \A x \in Object : Owner[x] # p => obj'[x] = obj[x],
         Owns(p, fds'[p], maps'[p], obj', call'[p])
  PROVE  HandleInv'
<1>1. ASSUME NEW q \in Proc, q # p
      PROVE  Owns(q, fds'[q], maps'[q], obj', call'[q])
  <2>1. \A x \in Objects(q) : obj'[x] = obj[x]
    BY <1>1 DEF Objects
  <2>2. Owns(q, fds[q], maps[q], obj, call[q])
    BY DEF HandleInv
  <2>3. Owns(q, fds[q], maps[q], obj', call[q])
    BY <2>1, <2>2, OwnsFrame
  <2> QED
    BY <1>1, <2>3
<1>2. \A q \in Proc : Owns(q, fds'[q], maps'[q], obj', call'[q])
  BY <1>1
<1>3. (\A q \in Proc : Owns(q, fds[q], maps[q], obj, call[q]))'
  BY <1>2 DEF Owns
<1> QED
  BY <1>3 DEF HandleInv

\* A handle that becomes a descriptor of the call was nobody's.
LEMMA OwnsOpened ==
  ASSUME NEW p, NEW F, NEW M, NEW o, NEW c, NEW c2, NEW F2,
         Owns(p, F, M, o, c), c.fd = Null, c.region.data = Null,
         c2.fd \in Handle, c2.region = c.region,
         F[c2.fd] = NoInode, F2[c2.fd] # NoInode,
         \A k \in Handle : k # c2.fd => F2[k] = F[k],
         \A x \in Objects(p) : o[x].fd \in Handle \cup {Null}
  PROVE  Owns(p, F2, M, o, c2)
<1>0. c2.fd # Null /\ Null \notin Handle
  BY HandleFacts
<1>1. \A x \in Objects(p) : o[x].fd # c2.fd
  BY DEF Owns
<1>2. \A k \in Handle : F2[k] # NoInode <=>
        (\E x \in Objects(p) : o[x].fd = k) \/ c2.region.fd = k \/ c2.fd = k
  BY <1>0, <1>1 DEF Owns
<1>3. \A x \in Objects(p) :
        o[x].data # Null => o[x].fd # Null /\ M[o[x].data] = F2[o[x].fd]
  BY <1>1 DEF Owns
<1> QED
  BY <1>0, <1>1, <1>2, <1>3 DEF Owns

\* mmap: the region takes the descriptor of the call and a fresh mapping.
LEMMA OwnsMapped ==
  ASSUME NEW p, NEW F, NEW M, NEW o, NEW c, NEW c2, NEW h \in Handle, NEW M2,
         Owns(p, F, M, o, c), M[h] = NoInode, c.fd \in Handle,
         c.region.fd = Null, c.region.data = Null,
         c2.fd = Null, c2.region.fd = c.fd, c2.region.data = h,
         \A k \in Handle : M2[k] = IF k = h THEN F[c.fd] ELSE M[k],
         \A x \in Objects(p) : o[x].data \in Handle \cup {Null}
  PROVE  Owns(p, F, M2, o, c2)
<1>0. h # Null /\ Null \notin Handle /\ c.fd # Null /\ F[c.fd] # NoInode
  BY HandleFacts DEF Owns
<1>1. \A x \in Objects(p) : o[x].data # h
  BY DEF Owns
<1>2. \A k \in Handle : M2[k] # NoInode <=>
        (\E x \in Objects(p) : o[x].data = k) \/ c2.region.data = k
  BY <1>0, <1>1 DEF Owns
<1>3. \A x \in Objects(p) :
        o[x].data # Null => o[x].fd # Null /\ M2[o[x].data] = F[o[x].fd]
  BY <1>1 DEF Owns
<1>4. \A k \in Handle : F[k] # NoInode <=>
        (\E x \in Objects(p) : o[x].fd = k) \/ c2.region.fd = k \/ c2.fd = k
  BY <1>0 DEF Owns
<1> QED
  BY <1>0, <1>1, <1>2, <1>3, <1>4 DEF Owns

\* A failing factory closes the descriptor of its call.
LEMMA OwnsFailed ==
  ASSUME NEW p, NEW F, NEW M, NEW o, NEW c, NEW c2, NEW F2,
         Owns(p, F, M, o, c), c.fd \in Handle,
         c.region.fd = Null, c.region.data = Null,
         c2.fd = Null, c2.region = c.region,
         \A k \in Handle : F2[k] = IF k = c.fd THEN NoInode ELSE F[k],
         \A x \in Objects(p) : o[x].fd \in Handle \cup {Null}
  PROVE  Owns(p, F2, M, o, c2)
<1>0. Null \notin Handle /\ c.fd # Null
  BY HandleFacts
<1>1. \A x \in Objects(p) : o[x].fd # c.fd
  BY <1>0 DEF Owns
<1>2. \A k \in Handle : F2[k] # NoInode <=>
        (\E x \in Objects(p) : o[x].fd = k) \/ c2.region.fd = k \/ c2.fd = k
  BY <1>0, <1>1 DEF Owns
<1>3. \A x \in Objects(p) :
        o[x].data # Null => o[x].fd # Null /\ M[o[x].data] = F2[o[x].fd]
  BY <1>1 DEF Owns
<1> QED
  BY <1>0, <1>1, <1>2, <1>3 DEF Owns

\* Closing object x of process p and giving it the handles of v, which nobody
\* else of o2 and c2 keeps: the move assignment from a call or an object.
LEMMA OwnsReplaced ==
  ASSUME NEW p, NEW F, NEW M, NEW o, NEW c, NEW x \in Objects(p),
         NEW F2, NEW M2, NEW o2, NEW c2,
         Owns(p, F, M, o, c), c.fd = Null, c2.fd = Null,
         \A k \in Handle : F2[k] = IF k = o[x].fd THEN NoInode ELSE F[k],
         \A k \in Handle : M2[k] = IF k = o[x].data THEN NoInode ELSE M[k],
         \/ /\ o2[x].fd = c.region.fd /\ o2[x].data = c.region.data
            /\ c2.region.fd = Null /\ c2.region.data = Null
            /\ \A z \in Objects(p) : z # x => o2[z] = o[z]
         \/ /\ o2[x].fd = Null /\ o2[x].data = Null
            /\ c2.region = c.region
            /\ \A z \in Objects(p) : z # x => o2[z] = o[z]
         \/ \E y \in Objects(p) :
              /\ y # x /\ o2[x].fd = o[y].fd /\ o2[x].data = o[y].data
              /\ o2[y].fd = Null /\ o2[y].data = Null
              /\ c2.region = c.region
              /\ \A z \in Objects(p) : z # x /\ z # y => o2[z] = o[z],
         \A z \in Objects(p) : o[z].fd \in Handle \cup {Null} /\ o[z].data \in Handle \cup {Null},
         c.region.fd \in Handle \cup {Null}, c.region.data \in Handle \cup {Null}
  PROVE  Owns(p, F2, M2, o2, c2)
<1>0. Null \notin Handle
  BY HandleFacts
<1>1. \A y, z \in Objects(p) : y # z =>
        /\ o2[y].fd # Null => o2[y].fd # o2[z].fd
        /\ o2[y].data # Null => o2[y].data # o2[z].data
  BY DEF Owns
<1>2. \A y \in Objects(p) :
        /\ o2[y].fd # Null => o2[y].fd # c2.region.fd /\ o2[y].fd # c2.fd
        /\ o2[y].data # Null => o2[y].data # c2.region.data
  BY DEF Owns
<1>3. \A k \in Handle : F2[k] # NoInode <=>
        (\E y \in Objects(p) : o2[y].fd = k) \/ c2.region.fd = k \/ c2.fd = k
  BY <1>0 DEF Owns
<1>4. \A k \in Handle : M2[k] # NoInode <=>
        (\E y \in Objects(p) : o2[y].data = k) \/ c2.region.data = k
  BY <1>0 DEF Owns
<1>5. \A y \in Objects(p) :
        o2[y].data # Null => o2[y].fd # Null /\ M2[o2[y].data] = F2[o2[y].fd]
  BY <1>0 DEF Owns
<1>6. c2.region.data # Null => /\ c2.region.fd # Null
                             /\ M2[c2.region.data] = F2[c2.region.fd]
  BY <1>0 DEF Owns
<1> QED
  BY <1>1, <1>2, <1>3, <1>4, <1>5, <1>6 DEF Owns

\* The types of a process's handles, in the form the lemmas above want.
LEMMA HandleTypes ==
  ASSUME TypeInv, NEW p \in Proc
  PROVE  /\ \A x \in Objects(p) : /\ x \in Object /\ Owner[x] = p /\ obj[x] \in Region
                                  /\ obj[x].fd \in Handle \cup {Null}
                                  /\ obj[x].data \in Handle \cup {Null}
         /\ call[p] \in CallType /\ call[p].region \in Region
         /\ call[p].fd \in Handle \cup {Null}
         /\ call[p].region.fd \in Handle \cup {Null}
         /\ call[p].region.data \in Handle \cup {Null}
<1>1. call[p] \in CallType /\ call[p].region \in Region
  BY DEF TypeInv, CallType
<1>2. \A x \in Objects(p) : x \in Object /\ Owner[x] = p /\ obj[x] \in Region
  BY DEF TypeInv, Tables, Objects
<1> QED
  BY <1>1, <1>2 DEF CallType, Region

\* What close_effects does to the tables, process by process.
LEMMA close_tables ==
  ASSUME TypeInv, NEW p \in Proc, NEW r \in Region, close_effects(p, r)
  PROVE  /\ \A q \in Proc : q # p => fds'[q] = fds[q] /\ maps'[q] = maps[q]
         /\ \A k \in Handle : fds'[p][k] = IF k = r.fd THEN NoInode ELSE fds[p][k]
         /\ \A k \in Handle : maps'[p][k] = IF k = r.data THEN NoInode ELSE maps[p][k]
<1>1. r.fd \in Handle \cup {Null} /\ r.data \in Handle \cup {Null}
  BY DEF Region
<1>2. /\ fds \in [Proc -> [Handle -> Inode \cup {NoInode}]]
      /\ maps \in [Proc -> [Handle -> Inode \cup {NoInode}]]
  BY DEF TypeInv, Tables
<1>3. fds' = released(fds, p, r.fd) /\ maps' = released(maps, p, r.data)
  BY DEF close_effects
<1> QED
  BY <1>1, <1>2, <1>3, ReleasedTable

\* At first no process has a handle.
LEMMA HandlesInit == Init => HandleInv
<1> SUFFICES ASSUME Init, NEW p \in Proc
             PROVE  Owns(p, fds[p], maps[p], obj, call[p])
  BY DEF HandleInv
<1>1. /\ call[p] = NoCall /\ \A x \in Objects(p) : obj[x] = Empty
      /\ \A h \in Handle : fds[p][h] = NoInode /\ maps[p][h] = NoInode
  BY DEF Init, Objects
<1>2. /\ NoCall.fd = Null /\ NoCall.region = Empty /\ Empty.fd = Null
      /\ Empty.data = Null /\ Null \notin Handle
  BY NoCallType, EmptyType, HandleFacts
<1> QED
  BY <1>1, <1>2 DEF Owns

\* Every step keeps each handle with one owner.
LEMMA HandlesNext == TypeInv /\ HandleInv /\ [Next]_vars => HandleInv'
<1> SUFFICES ASSUME TypeInv, HandleInv, [Next]_vars PROVE HandleInv'
  OBVIOUS
<1>a. /\ Tables /\ pc \in [Proc -> Points] /\ call \in [Proc -> CallType]
      /\ \A p \in Proc : CallFits(p, pc[p], call[p])
  BY DEF TypeInv
<1>b. \A p \in Proc : Owns(p, fds[p], maps[p], obj, call[p])
  BY DEF HandleInv
<1>c. NoCall.fd = Null /\ NoCall.region = Empty /\ Empty.fd = Null /\ Empty.data = Null
  BY NoCallType, EmptyType
<1>0. ASSUME UNCHANGED <<fds, maps, obj, call>>
      PROVE  HandleInv'
  BY <1>0 DEF HandleInv, Owns
<1>1. ASSUME NEW p \in Proc, NEW x \in Object, NEW name \in Name, NEW size \in Size,
             NEW kind \in Calls[p], factory(p, kind, x, name, size)
      PROVE  HandleInv'
  <2>1. call[p] = NoCall
    BY <1>1, <1>a DEF factory, CallFits
  <2>2. /\ call'[p].fd = Null /\ call'[p].region = local_region(kind, name, size)
        /\ \A q \in Proc : q # p => call'[q] = call[q]
        /\ UNCHANGED <<fds, maps, obj>>
    BY <1>1, <1>a DEF factory
  <2>3. local_region(kind, name, size).fd = Null /\ local_region(kind, name, size).data = Null
    BY Zenon DEF local_region, Empty
  <2>4. Owns(p, fds[p], maps[p], obj, call'[p])
    BY <1>b, <1>c, <2>1, <2>2, <2>3 DEF Owns
  <2> QED
    BY <2>2, <2>4, OwnsStep
<1>2. ASSUME NEW p \in Proc, shm_open(p)
      PROVE  HandleInv'
  <2> DEFINE h == Lowest(Free(fds, p))
  <2>1. h \in Handle /\ fds[p][h] = NoInode
    BY <1>2, LowestFree DEF shm_open
  <2>2. CallFits(p, "shm_open", call[p]) /\ call[p] \in CallType
    BY <1>a, <1>2 DEF shm_open
  <2>3. call[p].fd = Null /\ call[p].region.data = Null
    BY <2>2 DEF CallFits
  <2>4. PICK i \in Inode : fds' = [fds EXCEPT ![p][h] = i]
    <3> DEFINE n == normalize_posix_shm_name(call[p].region.name)
    <3>1. \/ \E i \in Inode : fds' = [fds EXCEPT ![p][h] = i]
          \/ ns[n] # NoInode /\ fds' = [fds EXCEPT ![p][h] = ns[n]]
      BY <1>2 DEF shm_open
    <3>2. n \in Stem
      BY <2>2, normalize_type DEF CallFits
    <3>3. ns[n] \in Inode \cup {NoInode}
      BY <1>a, <3>2 DEF Tables
    <3> QED
      BY <3>1, <3>3
  <2>5. /\ call' = [call EXCEPT ![p] = [call[p] EXCEPT !.fd = h]]
        /\ UNCHANGED <<maps, obj>>
    BY <1>2 DEF shm_open
  <2> HIDE DEF h
  <2>6. call'[p].fd = h /\ call'[p].region = call[p].region
    BY <1>a, <2>2, <2>5 DEF CallType
  <2>7. /\ \A k \in Handle : fds'[p][k] = IF k = h THEN i ELSE fds[p][k]
        /\ \A q \in Proc : q # p => fds'[q] = fds[q] /\ call'[q] = call[q]
    BY <1>a, <2>1, <2>4, <2>5 DEF Tables
  <2>8. Owns(p, fds'[p], maps[p], obj, call'[p])
    <3>1. Owns(p, fds[p], maps[p], obj, call[p])
      BY <1>b
    <3>2. \A x \in Objects(p) : obj[x].fd \in Handle \cup {Null}
      BY HandleTypes
    <3>3. /\ call'[p].fd \in Handle /\ call'[p].region = call[p].region
          /\ fds[p][call'[p].fd] = NoInode /\ fds'[p][call'[p].fd] # NoInode
          /\ \A k \in Handle : k # call'[p].fd => fds'[p][k] = fds[p][k]
      BY <2>1, <2>6, <2>7, ShmAssumption
    <3> QED
      BY <2>3, <3>1, <3>2, <3>3, OwnsOpened
  <2> QED
    BY <2>5, <2>7, <2>8, OwnsStep
<1>3. ASSUME NEW p \in Proc, mmap(p)
      PROVE  HandleInv'
  <2> DEFINE h == Lowest(Free(maps, p))
             c == [call[p] EXCEPT !.region.data = h, !.region.fd = call[p].fd, !.fd = Null]
  <2>1. h \in Handle /\ maps[p][h] = NoInode
    BY <1>3, LowestFree DEF mmap
  <2>2. CallFits(p, "mmap", call[p]) /\ call[p] \in CallType
    BY <1>a, <1>3 DEF mmap
  <2>3. call[p].region.fd = Null /\ call[p].region.data = Null /\ call[p].fd \in Handle
    BY <2>2 DEF CallFits, CallType
  <2>4. /\ call' = [call EXCEPT ![p] = c] /\ UNCHANGED <<fds, obj>>
        /\ maps' = [maps EXCEPT ![p][h] = fds[p][call[p].fd]]
    BY <1>a, <1>3 DEF mmap
  <2>5. c.fd = Null /\ c.region.fd = call[p].fd /\ c.region.data = h
    BY <2>1, <2>2, <2>3, MappedCall
  <2> HIDE DEF h, c
  <2>6. /\ \A k \in Handle : maps'[p][k] = IF k = h THEN fds[p][call[p].fd] ELSE maps[p][k]
        /\ \A q \in Proc : q # p => maps'[q] = maps[q] /\ call'[q] = call[q]
        /\ call'[p] = c
    BY <1>a, <2>1, <2>4 DEF Tables
  <2>7. Owns(p, fds[p], maps'[p], obj, call'[p])
    <3>1. Owns(p, fds[p], maps[p], obj, call[p])
      BY <1>b
    <3> QED
      BY <2>1, <2>3, <2>5, <2>6, <3>1, HandleTypes, OwnsMapped
  <2> QED
    BY <2>4, <2>6, <2>7, OwnsStep
<1>4. ASSUME NEW p \in Proc, step_fails(p)
      PROVE  HandleInv'
  <2>1. /\ pc[p] \in {"ftruncate", "fstat", "mmap"} /\ call[p] \in CallType
        /\ CallFits(p, pc[p], call[p])
    BY <1>a, <1>4 DEF step_fails
  <2>2. call[p].region.fd = Null /\ call[p].region.data = Null /\ call[p].fd \in Handle
    BY <2>1 DEF CallFits, CallType
  <2>3. /\ call' = [call EXCEPT ![p] = [call[p] EXCEPT !.fd = Null]]
        /\ fds' = released(fds, p, call[p].fd) /\ UNCHANGED <<maps, obj>>
    BY <1>4 DEF step_fails
  <2>4. call'[p].fd = Null /\ call'[p].region = call[p].region
    BY <1>a, <2>1, <2>3 DEF CallType
  <2>5. /\ \A k \in Handle : fds'[p][k] = IF k = call[p].fd THEN NoInode ELSE fds[p][k]
        /\ \A q \in Proc : q # p => fds'[q] = fds[q] /\ call'[q] = call[q]
    <3>1. fds \in [Proc -> [Handle -> Inode \cup {NoInode}]]
      BY <1>a DEF Tables
    <3>2. /\ \A k \in Handle : fds'[p][k] = IF k = call[p].fd THEN NoInode ELSE fds[p][k]
          /\ \A q \in Proc : q # p => fds'[q] = fds[q]
      BY <2>2, <2>3, <3>1, ReleasedTable
    <3> QED
      BY <1>a, <2>3, <3>2
  <2>6. Owns(p, fds'[p], maps[p], obj, call'[p])
    <3>1. Owns(p, fds[p], maps[p], obj, call[p])
      BY <1>b
    <3>2. \A x \in Objects(p) : obj[x].fd \in Handle \cup {Null}
      BY HandleTypes
    <3> QED
      BY <2>2, <2>4, <2>5, <3>1, <3>2, OwnsFailed
  <2> QED
    BY <2>3, <2>5, <2>6, OwnsStep
<1>5. ASSUME NEW p \in Proc, drop_local(p)
      PROVE  HandleInv'
  <2>1. CallFits(p, "drop_local", call[p]) /\ call[p] \in CallType
    BY <1>a, <1>5 DEF drop_local
  <2>2. call[p].region.fd = Null /\ call[p].region.data = Null
    BY <2>1 DEF CallFits
  <2>3. /\ call' = [call EXCEPT ![p] = [call[p] EXCEPT !.region = Empty]]
        /\ fds' = fds /\ maps' = maps /\ UNCHANGED obj
    BY <1>5, <2>2 DEF drop_local, close_effects, released
  <2>4. call'[p].fd = call[p].fd /\ call'[p].region = Empty
    BY <1>a, <2>1, <2>3 DEF CallType
  <2>5. Owns(p, fds[p], maps[p], obj, call'[p])
    BY <1>b, <1>c, <2>2, <2>4 DEF Owns
  <2>6. \A q \in Proc : q # p => call'[q] = call[q]
    BY <1>a, <2>3
  <2> QED
    BY <2>3, <2>5, <2>6, OwnsStep
<1>6. ASSUME NEW p \in Proc, assign_result(p)
      PROVE  HandleInv'
  <2> DEFINE x == call[p].target
  <2>1. CallFits(p, "return", call[p])
    BY <1>a, <1>6 DEF assign_result
  <2>2. x \in Objects(p) /\ call[p].fd = Null
    BY <2>1 DEF CallFits
  <2>3. /\ call' = [call EXCEPT ![p] = NoCall] /\ close_effects(p, obj[x])
        /\ obj' = [obj EXCEPT ![x] = call[p].region]
    BY <1>6 DEF assign_result
  <2> HIDE DEF x
  <2>4. /\ obj'[x] = call[p].region /\ \A z \in Object : z # x => obj'[z] = obj[z]
        /\ call'[p] = NoCall /\ \A q \in Proc : q # p => call'[q] = call[q]
    BY <1>a, <2>2, <2>3, HandleTypes DEF Tables
  <2>5. obj[x] \in Region /\ x \in Object /\ Owner[x] = p
    BY <2>2, HandleTypes
  <2>6. /\ \A q \in Proc : q # p => fds'[q] = fds[q] /\ maps'[q] = maps[q]
        /\ \A k \in Handle : fds'[p][k] = IF k = obj[x].fd THEN NoInode ELSE fds[p][k]
        /\ \A k \in Handle : maps'[p][k] = IF k = obj[x].data THEN NoInode ELSE maps[p][k]
    BY <2>3, <2>5, close_tables
  <2>7. Owns(p, fds'[p], maps'[p], obj', call'[p])
    <3>1. Owns(p, fds[p], maps[p], obj, call[p])
      BY <1>b
    <3>2. \A z \in Objects(p) : z # x => obj'[z] = obj[z]
      BY <2>4, HandleTypes
    <3> QED
      BY <1>c, <2>2, <2>4, <2>6, <3>1, <3>2, HandleTypes, OwnsReplaced
  <2> QED
    BY <2>4, <2>5, <2>6, <2>7, OwnsStep
<1>7. ASSUME NEW p \in Proc, crash(p)
      PROVE  HandleInv'
  <2>1. /\ \A q \in Proc : q # p => fds'[q] = fds[q] /\ maps'[q] = maps[q] /\ call'[q] = call[q]
        /\ \A k \in Handle : fds'[p][k] = NoInode /\ maps'[p][k] = NoInode
        /\ call'[p] = NoCall
        /\ \A x \in Object : obj'[x] = IF Owner[x] = p THEN Empty ELSE obj[x]
    BY <1>a, <1>7 DEF crash, Tables
  <2>2. \A x \in Objects(p) : obj'[x] = Empty
    BY <2>1 DEF Objects
  <2>3. Owns(p, fds'[p], maps'[p], obj', call'[p])
    BY <1>c, <2>1, <2>2, HandleFacts DEF Owns
  <2> QED
    BY <2>1, <2>3, OwnsStep
<1>8. ASSUME NEW x \in Object, NEW y \in Object, move_assign(x, y)
      PROVE  HandleInv'
  <2> DEFINE p == Owner[x]
  <2>1. /\ p \in Proc /\ x \in Objects(p) /\ y \in Objects(p) /\ x # y
        /\ pc[p] = "idle" /\ close_effects(p, obj[x]) /\ UNCHANGED call
        /\ obj' = [obj EXCEPT ![x] = obj[y], ![y] = moved(obj[y])]
    BY <1>8, <1>a, ShmAssumption DEF move_assign, Objects, Tables
  <2>2. call[p].fd = Null /\ call[p].region.fd = Null /\ call[p].region.data = Null
    BY <1>a, <1>c, <2>1 DEF CallFits
  <2>3. obj[x] \in Region /\ obj[y] \in Region
    BY <1>a DEF Tables
  <2> HIDE DEF p
  <2>4. /\ obj'[x] = obj[y] /\ obj'[y].fd = Null /\ obj'[y].data = Null
        /\ \A z \in Object : z # x /\ z # y => obj'[z] = obj[z]
    BY <1>a, <2>1, <2>3, ClosedMoved DEF Tables
  <2>5. /\ \A q \in Proc : q # p => fds'[q] = fds[q] /\ maps'[q] = maps[q]
        /\ \A k \in Handle : fds'[p][k] = IF k = obj[x].fd THEN NoInode ELSE fds[p][k]
        /\ \A k \in Handle : maps'[p][k] = IF k = obj[x].data THEN NoInode ELSE maps[p][k]
    BY <2>1, <2>3, close_tables
  <2>6. Owns(p, fds'[p], maps'[p], obj', call'[p])
    <3>1. Owns(p, fds[p], maps[p], obj, call[p]) /\ call'[p] = call[p]
      BY <1>b, <2>1
    <3>2. \A z \in Objects(p) : z # x /\ z # y => obj'[z] = obj[z]
      BY <2>4 DEF Objects
    <3>3. \A z \in Objects(p) : /\ obj[z].fd \in Handle \cup {Null}
                               /\ obj[z].data \in Handle \cup {Null}
      BY <2>1, HandleTypes
    <3>4. \E z \in Objects(p) :
            /\ z # x /\ obj'[x].fd = obj[z].fd /\ obj'[x].data = obj[z].data
            /\ obj'[z].fd = Null /\ obj'[z].data = Null
            /\ call'[p].region = call[p].region
            /\ \A u \in Objects(p) : u # x /\ u # z => obj'[u] = obj[u]
      BY <2>1, <2>4, <3>1, <3>2
    <3>5. x \in Objects(p) /\ call[p].fd = Null /\ call'[p].fd = Null
          /\ call[p].region.fd \in Handle \cup {Null} /\ call[p].region.data \in Handle \cup {Null}
      BY <2>1, <2>2, <3>1
    <3> QED
      BY <2>5, <3>1, <3>3, <3>4, <3>5, OwnsReplaced
  <2>7. \A z \in Object : Owner[z] # p => obj'[z] = obj[z]
    BY <2>1, <2>4 DEF Objects
  <2> QED
    BY <2>1, <2>5, <2>6, <2>7, OwnsStep
<1>9. ASSUME NEW x \in Object, close(x)
      PROVE  HandleInv'
  <2> DEFINE p == Owner[x]
  <2>1. /\ p \in Proc /\ x \in Objects(p) /\ pc[p] = "idle"
        /\ close_effects(p, obj[x]) /\ UNCHANGED call
        /\ obj' = [obj EXCEPT ![x] = closed(obj[x])]
    BY <1>9, <1>a, ShmAssumption DEF close, Objects, Tables
  <2>2. call[p].fd = Null
    BY <1>a, <1>c, <2>1 DEF CallFits
  <2>3. obj[x] \in Region
    BY <1>a DEF Tables
  <2> HIDE DEF p
  <2>4. /\ obj'[x].fd = Null /\ obj'[x].data = Null
        /\ \A z \in Object : z # x => obj'[z] = obj[z]
    BY <1>a, <2>1, <2>3, ClosedMoved DEF Tables
  <2>5. /\ \A q \in Proc : q # p => fds'[q] = fds[q] /\ maps'[q] = maps[q]
        /\ \A k \in Handle : fds'[p][k] = IF k = obj[x].fd THEN NoInode ELSE fds[p][k]
        /\ \A k \in Handle : maps'[p][k] = IF k = obj[x].data THEN NoInode ELSE maps[p][k]
    BY <2>1, <2>3, close_tables
  <2>6. Owns(p, fds'[p], maps'[p], obj', call'[p])
    <3>1. Owns(p, fds[p], maps[p], obj, call[p]) /\ call'[p] = call[p]
      BY <1>b, <2>1
    <3>2. \A z \in Objects(p) : z # x => obj'[z] = obj[z]
      BY <2>4 DEF Objects
    <3>3. \A z \in Objects(p) : /\ obj[z].fd \in Handle \cup {Null}
                               /\ obj[z].data \in Handle \cup {Null}
      BY <2>1, HandleTypes
    <3>4. /\ obj'[x].fd = Null /\ obj'[x].data = Null
          /\ call'[p].region = call[p].region
      BY <2>4, <3>1
    <3>5. x \in Objects(p) /\ call[p].fd = Null /\ call'[p].fd = Null
          /\ call[p].region.fd \in Handle \cup {Null} /\ call[p].region.data \in Handle \cup {Null}
      BY <2>1, <2>2, <3>1, HandleTypes
    <3> QED
      BY <2>5, <3>1, <3>2, <3>3, <3>4, <3>5, OwnsReplaced
  <2>7. \A z \in Object : Owner[z] # p => obj'[z] = obj[z]
    BY <2>1, <2>4 DEF Objects
  <2> QED
    BY <2>1, <2>5, <2>6, <2>7, OwnsStep
<1>10. ASSUME NEW p \in Proc,
              shm_open_fails(p) \/ ftruncate(p) \/ fstat(p) \/ unlink(p)
       PROVE  HandleInv'
  BY <1>0, <1>10 DEF shm_open_fails, ftruncate, fstat, unlink
<1>11. ASSUME UNCHANGED vars
       PROVE  HandleInv'
  BY <1>0, <1>11 DEF vars
<1> QED
  BY <1>1, <1>2, <1>3, <1>4, <1>5, <1>6, <1>7, <1>8, <1>9, <1>10, <1>11 DEF Next

\* On every path, the failing ones and a crash included, each descriptor and
\* each mapping of a process is held by exactly one of its variables: nothing
\* leaks, nothing is released twice, and a region's two handles are of one
\* segment.
THEOREM HandlesCorrect == Spec => []HandlesOwned
<1>1. ASSUME TypeInv, HandleInv, NEW p \in Proc
      PROVE  /\ {h \in Handle : fds[p][h] # NoInode} = HeldFds(p)
             /\ {h \in Handle : maps[p][h] # NoInode} = HeldMaps(p)
             /\ \A x, y \in Objects(p) : x # y =>
                  /\ obj[x].fd = obj[y].fd => obj[x].fd = Null
                  /\ obj[x].data = obj[y].data => obj[x].data = Null
             /\ \A x \in Objects(p) :
                  is_valid(obj[x]) => maps[p][obj[x].data] = fds[p][obj[x].fd]
  <2>1. Owns(p, fds[p], maps[p], obj, call[p]) /\ Null \notin Handle
    BY <1>1, HandleFacts DEF HandleInv
  <2>2. {h \in Handle : fds[p][h] # NoInode} = HeldFds(p)
    BY <1>1, <2>1, HandleTypes DEF Owns, HeldFds
  <2>3. {h \in Handle : maps[p][h] # NoInode} = HeldMaps(p)
    BY <1>1, <2>1, HandleTypes DEF Owns, HeldMaps
  <2> QED
    BY <2>1, <2>2, <2>3 DEF Owns, is_valid
<1>2. TypeInv /\ HandleInv => HandlesOwned
  BY <1>1 DEF HandlesOwned
<1> QED
  BY <1>2, TypesInit, TypesNext, HandlesInit, HandlesNext, PTL DEF Spec

-----------------------------------------------------------------------------
(***************************************************************************)
(* A name leads to the segment of its creator, when no name has two        *)
(* creators at a time.                                                     *)
(***************************************************************************)
StemOf(r) == normalize_posix_shm_name(r.name)

\* Creators, in the objects o or in the calls c on their way there, have
\* different names.
CreatorsApart(o, c) ==
  /\ \A x, y \in Object : o[x].is_creator /\ o[y].is_creator /\ x # y =>
       StemOf(o[x]) # StemOf(o[y])
  /\ \A x \in Object, p \in Proc : o[x].is_creator /\ c[p].region.is_creator =>
       StemOf(o[x]) # StemOf(c[p].region)
  /\ \A p, q \in Proc : c[p].region.is_creator /\ c[q].region.is_creator /\ p # q =>
       StemOf(c[p].region) # StemOf(c[q].region)

\* With names S, descriptors F, mappings M, objects o and call c at point s,
\* the names of process p's creators lead to their segments.
Leads(p, S, F, M, o, c, s) ==
  /\ \A x \in Objects(p) : o[x].is_creator =>
       o[x].name \in Name /\ S[StemOf(o[x])] = M[o[x].data]
  /\ s \in {"ftruncate", "mmap"} /\ c.kind # "open" => S[StemOf(c.region)] = F[c.fd]
  /\ s = "return" /\ c.region.is_creator => S[StemOf(c.region)] = M[c.region.data]

NameInv ==
  /\ CreatorsApart(obj, call)
  /\ \A p \in Proc : Leads(p, ns, fds[p], maps[p], obj, call[p], pc[p])

\* Creators that were there before, under the same names, stay apart.
LEMMA ApartSame ==
  ASSUME NEW o, NEW c, NEW o2, NEW c2, CreatorsApart(o, c),
         \A x \in Object : o2[x].is_creator => o[x].is_creator /\ o2[x].name = o[x].name,
         \A p \in Proc : c2[p].region.is_creator =>
           c[p].region.is_creator /\ c2[p].region.name = c[p].region.name
  PROVE  CreatorsApart(o2, c2)
BY DEF CreatorsApart, StemOf

\* The names of the creators of other processes than p lead where they did.
OthersKept(p) ==
  /\ \A x \in Object : Owner[x] # p /\ obj[x].is_creator =>
       ns'[StemOf(obj[x])] = ns[StemOf(obj[x])]
  /\ \A q \in Proc : q # p /\ call[q].region.is_creator =>
       ns'[StemOf(call[q].region)] = ns[StemOf(call[q].region)]

\* A step of process p that takes or unlinks no name of another's creator.
LEMMA LeadsStep ==
  ASSUME TypeInv, NameInv, NEW p \in Proc, OthersKept(p),
         \A q \in Proc : q # p => /\ fds'[q] = fds[q] /\ maps'[q] = maps[q]
                                 /\ call'[q] = call[q] /\ pc'[q] = pc[q],
         \A x \in Object : Owner[x] # p => obj'[x] = obj[x],
         CreatorsApart(obj', call'),
         Leads(p, ns', fds'[p], maps'[p], obj', call'[p], pc'[p])
  PROVE  NameInv'
<1>1. ASSUME NEW q \in Proc, q # p
      PROVE  Leads(q, ns', fds'[q], maps'[q], obj', call'[q], pc'[q])
  <2>1. /\ Leads(q, ns, fds[q], maps[q], obj, call[q], pc[q])
        /\ CallFits(q, pc[q], call[q])
    BY DEF NameInv, TypeInv
  <2>2. \A x \in Objects(q) : /\ x \in Object /\ Owner[x] # p /\ obj'[x] = obj[x]
    BY <1>1 DEF Objects
  <2>3. \A x \in Objects(q) : obj'[x].is_creator =>
          obj'[x].name \in Name /\ ns'[StemOf(obj'[x])] = maps'[q][obj'[x].data]
    BY <1>1, <2>1, <2>2 DEF Leads, OthersKept
  <2>4. pc[q] \in {"ftruncate", "mmap"} /\ call[q].kind # "open" => call[q].region.is_creator
    BY <2>1 DEF CallFits
  <2> QED
    BY <1>1, <2>1, <2>3, <2>4 DEF Leads, OthersKept
<1>2. \A q \in Proc : Leads(q, ns', fds'[q], maps'[q], obj', call'[q], pc'[q])
  BY <1>1
<1>3. (\A q \in Proc : Leads(q, ns, fds[q], maps[q], obj, call[q], pc[q]))'
  BY <1>2 DEF Leads, StemOf, normalize_posix_shm_name
<1>4. CreatorsApart(obj, call)'
  BY DEF CreatorsApart, StemOf, normalize_posix_shm_name
<1> QED
  BY <1>3, <1>4 DEF NameInv

\* The names of other creators than object x, and than the call of p.
LEMMA ObjectKept ==
  ASSUME TypeInv, NameInv, NEW x \in Object, ns' = unlinked(obj[x])
  PROVE  /\ OthersKept(Owner[x])
         /\ \A y \in Object : y # x /\ obj[y].is_creator =>
              ns'[StemOf(obj[y])] = ns[StemOf(obj[y])]
         /\ \A q \in Proc : call[q].region.is_creator =>
              ns'[StemOf(call[q].region)] = ns[StemOf(call[q].region)]
<1>1. ns \in [Stem -> Inode \cup {NoInode}] /\ obj[x] \in Region
  BY DEF TypeInv, Tables
<1>2. \A s \in Stem : ns'[s] # ns[s] => obj[x].is_creator /\ s = StemOf(obj[x])
  BY <1>1, UnlinkedNames DEF StemOf
<1>3. \A y \in Object : obj[y].is_creator => StemOf(obj[y]) \in Stem
  BY ShmAssumption, normalize_type DEF NameInv, Leads, Objects, StemOf
<1>4. \A y \in Object : y # x /\ obj[y].is_creator =>
        ns'[StemOf(obj[y])] = ns[StemOf(obj[y])]
  BY <1>2, <1>3 DEF NameInv, CreatorsApart
<1>5. \A q \in Proc : call[q].region.is_creator => call[q].region.name \in Name
  BY EmptyType, NoCallType DEF TypeInv, CallFits, Points
<1>6. \A q \in Proc : call[q].region.is_creator =>
        ns'[StemOf(call[q].region)] = ns[StemOf(call[q].region)]
  BY <1>2, <1>5, normalize_type DEF NameInv, CreatorsApart, StemOf
<1> QED
  BY <1>4, <1>6 DEF OthersKept

\* A creating call that changes only its own name leaves the other creators'
\* names alone.
LEMMA CallKept ==
  ASSUME TypeInv, NameInv, NEW p \in Proc, call[p].region.is_creator,
         \A s \in Stem : s # StemOf(call[p].region) => ns'[s] = ns[s]
  PROVE  /\ OthersKept(p)
         /\ \A y \in Object : obj[y].is_creator =>
              ns'[StemOf(obj[y])] = ns[StemOf(obj[y])]
<1>1. \A y \in Object : obj[y].is_creator => StemOf(obj[y]) \in Stem
  BY ShmAssumption, normalize_type DEF NameInv, Leads, Objects, StemOf
<1>2. \A q \in Proc : call[q].region.is_creator => StemOf(call[q].region) \in Stem
  BY EmptyType, NoCallType, normalize_type DEF TypeInv, CallFits, Points, StemOf
<1> QED
  BY <1>1, <1>2 DEF NameInv, CreatorsApart, OthersKept

\* At first nobody has created a segment.
LEMMA NamesInit == Init => NameInv
<1> SUFFICES ASSUME Init PROVE NameInv
  OBVIOUS
<1>1. /\ \A x \in Object : ~obj[x].is_creator
      /\ \A p \in Proc : ~call[p].region.is_creator /\ pc[p] = "idle"
  BY EmptyType, NoCallType DEF Init
<1> QED
  BY <1>1 DEF NameInv, CreatorsApart, Leads, Objects

\* With one creator of a name at a time, every step keeps the names of the
\* creators and the segments they lead to.
LEMMA NamesNext ==
  ASSUME OneCreator
  PROVE  TypeInv /\ HandleInv /\ NameInv /\ [Next]_vars => NameInv'
<1> SUFFICES ASSUME TypeInv, HandleInv, NameInv, [Next]_vars PROVE NameInv'
  OBVIOUS
<1>a. /\ Tables /\ pc \in [Proc -> Points] /\ call \in [Proc -> CallType]
      /\ \A p \in Proc : CallFits(p, pc[p], call[p])
  BY DEF TypeInv
<1>b. \A p \in Proc : Owns(p, fds[p], maps[p], obj, call[p])
  BY DEF HandleInv
<1>c. /\ CreatorsApart(obj, call)
      /\ \A p \in Proc : Leads(p, ns, fds[p], maps[p], obj, call[p], pc[p])
  BY DEF NameInv
<1>d. NoCall.region = Empty /\ ~Empty.is_creator
  BY NoCallType, EmptyType
<1>e. \A x \in Object : obj[x].is_creator => obj[x].data # Null
  BY <1>a, ClosedMoved DEF Tables, is_valid
<1>1. ASSUME NEW p \in Proc, NEW x \in Object, NEW name \in Name, NEW size \in Size,
             NEW kind \in Calls[p], factory(p, kind, x, name, size)
      PROVE  NameInv'
  <2> DEFINE r == local_region(kind, name, size)
  <2>1. r.name = name /\ r.is_creator = (kind # "open")
    BY Zenon DEF local_region, Empty
  <2>2. /\ call'[p].region = r /\ call'[p].kind = kind /\ pc'[p] = "shm_open"
        /\ \A q \in Proc : q # p => call'[q] = call[q] /\ pc'[q] = pc[q]
        /\ UNCHANGED <<ns, length, fds, maps, obj>>
        /\ kind # "open" => normalize_posix_shm_name(name) \notin CreatorNames
    BY <1>1, <1>a DEF factory
  <2> HIDE DEF r
  <2>3. r.is_creator =>
          /\ \A y \in Object : obj[y].is_creator => StemOf(obj[y]) # StemOf(r)
          /\ \A q \in Proc : call[q].region.is_creator => StemOf(call[q].region) # StemOf(r)
    BY <2>1, <2>2 DEF CreatorNames, StemOf
  <2>4. CreatorsApart(obj', call')
    BY <1>c, <2>2, <2>3 DEF CreatorsApart
  <2>5. Leads(p, ns', fds'[p], maps'[p], obj', call'[p], pc'[p])
    BY <1>c, <2>2 DEF Leads
  <2>6. OthersKept(p)
    BY <2>2 DEF OthersKept
  <2> QED
    BY <2>2, <2>4, <2>5, <2>6, LeadsStep
<1>2. ASSUME NEW p \in Proc, shm_open(p)
      PROVE  NameInv'
  <2> DEFINE h == Lowest(Free(fds, p))
             r == call[p].region
             s == StemOf(r)
             c == [call[p] EXCEPT !.fd = h]
  <2>1. h \in Handle
    BY <1>2, LowestFree DEF shm_open
  <2>2. /\ CallFits(p, "shm_open", call[p]) /\ call[p] \in CallType
        /\ s \in Stem /\ r.is_creator = (call[p].kind # "open")
    BY <1>a, <1>2, normalize_type DEF shm_open, CallFits, StemOf
  <2>3. /\ call' = [call EXCEPT ![p] = c] /\ UNCHANGED <<maps, obj>>
        /\ pc' = [pc EXCEPT ![p] = IF call[p].kind = "open" THEN "fstat" ELSE "ftruncate"]
    BY <1>2 DEF shm_open
  <2>4. c.fd = h /\ c.region = r /\ c.kind = call[p].kind
    BY <2>2 DEF CallType
  <2>5. PICK i : /\ fds' = [fds EXCEPT ![p][h] = i] /\ ns' = [ns EXCEPT ![s] = i]
                 /\ ~r.is_creator => ns' = ns
    <3>1. \/ /\ call[p].kind \in {"create", "create_exclusive"}
             /\ \E i \in Inode : /\ fds' = [fds EXCEPT ![p][h] = i]
                               /\ ns' = [ns EXCEPT ![s] = i]
          \/ fds' = [fds EXCEPT ![p][h] = ns[s]] /\ ns' = ns
      BY <1>2 DEF shm_open, StemOf
    <3>2. ns = [ns EXCEPT ![s] = ns[s]]
      BY <1>a, <2>2 DEF Tables
    <3> HIDE DEF h, s, r
    <3> QED
      BY <2>2, <3>1, <3>2
  <2> HIDE DEF h, c
  <2>6. /\ \A q \in Proc : q # p => fds'[q] = fds[q] /\ call'[q] = call[q] /\ pc'[q] = pc[q]
        /\ call'[p] = c /\ fds'[p][h] = i
        /\ pc'[p] = IF call[p].kind = "open" THEN "fstat" ELSE "ftruncate"
    BY <1>a, <2>1, <2>3, <2>5 DEF Tables
  <2>7. ns'[s] = i /\ \A u \in Stem : u # s => ns'[u] = ns[u]
    BY <1>a, <2>2, <2>5 DEF Tables
  <2>8. CreatorsApart(obj', call')
    <3>1. \A q \in Proc : call'[q].region = call[q].region
      BY <2>4, <2>6
    <3> QED
      BY <1>c, <2>3, <3>1 DEF CreatorsApart, StemOf
  <2>9. /\ OthersKept(p)
        /\ \A y \in Object : obj[y].is_creator => ns'[StemOf(obj[y])] = ns[StemOf(obj[y])]
    <3>1. CASE r.is_creator
      BY <2>7, <3>1, CallKept
    <3>2. CASE ~r.is_creator
      BY <2>5, <3>2 DEF OthersKept
    <3> QED
      BY <3>1, <3>2
  <2>10. Leads(p, ns', fds'[p], maps'[p], obj', call'[p], pc'[p])
    <3>1. \A y \in Objects(p) : obj'[y].is_creator =>
            obj'[y].name \in Name /\ ns'[StemOf(obj'[y])] = maps'[p][obj'[y].data]
      BY <1>c, <2>3, <2>9 DEF Leads, Objects
    <3> QED
      BY <2>4, <2>6, <2>7, <3>1 DEF Leads
  <2> QED
    BY <2>3, <2>6, <2>8, <2>9, <2>10, LeadsStep
<1>3. ASSUME NEW p \in Proc, shm_open_fails(p) \/ ftruncate(p) \/ fstat(p)
      PROVE  NameInv'
  <2>1. /\ UNCHANGED <<ns, fds, maps, obj, call>>
        /\ \A q \in Proc : q # p => pc'[q] = pc[q]
        /\ \/ pc'[p] = "drop_local"
           \/ pc'[p] = "mmap" /\ (pc[p] = "ftruncate" \/ call[p].kind = "open")
    <3>1. CASE shm_open_fails(p)
      BY <1>a, <3>1 DEF shm_open_fails
    <3>2. CASE ftruncate(p)
      BY <1>a, <3>2 DEF ftruncate
    <3>3. CASE fstat(p)
      BY <1>a, <3>3 DEF fstat, CallFits
    <3> QED
      BY <1>3, <3>1, <3>2, <3>3
  <2>2. CreatorsApart(obj', call') /\ OthersKept(p)
    BY <1>c, <2>1 DEF OthersKept
  <2>3. Leads(p, ns', fds'[p], maps'[p], obj', call'[p], pc'[p])
    BY <1>c, <2>1 DEF Leads
  <2> QED
    BY <2>1, <2>2, <2>3, LeadsStep
<1>4. ASSUME NEW p \in Proc, mmap(p)
      PROVE  NameInv'
  <2> DEFINE h == Lowest(Free(maps, p))
             c == [call[p] EXCEPT !.region.data = h, !.region.fd = call[p].fd, !.fd = Null]
  <2>1. h \in Handle /\ maps[p][h] = NoInode
    BY <1>4, LowestFree DEF mmap
  <2>2. CallFits(p, "mmap", call[p]) /\ call[p] \in CallType
    BY <1>a, <1>4 DEF mmap
  <2>3. /\ call[p].fd \in Handle /\ call[p].region.is_creator = (call[p].kind # "open")
    BY <2>2 DEF CallFits, CallType
  <2>4. /\ call' = [call EXCEPT ![p] = c] /\ UNCHANGED <<ns, fds, obj>>
        /\ maps' = [maps EXCEPT ![p][h] = fds[p][call[p].fd]]
        /\ pc[p] = "mmap" /\ pc' = [pc EXCEPT ![p] = "return"]
    BY <1>a, <1>4 DEF mmap
  <2>5. /\ c.region.data = h /\ c.region.name = call[p].region.name
        /\ c.region.is_creator = call[p].region.is_creator
    BY <2>1, <2>2, <2>3, MappedCall
  <2> HIDE DEF h, c
  <2>6. /\ \A k \in Handle : maps'[p][k] = IF k = h THEN fds[p][call[p].fd] ELSE maps[p][k]
        /\ \A q \in Proc : q # p => maps'[q] = maps[q] /\ call'[q] = call[q] /\ pc'[q] = pc[q]
        /\ call'[p] = c /\ pc'[p] = "return"
    BY <1>a, <2>1, <2>4 DEF Tables
  <2>7. CreatorsApart(obj', call')
    <3>1. \A q \in Proc : /\ call'[q].region.name = call[q].region.name
                         /\ call'[q].region.is_creator = call[q].region.is_creator
      BY <2>5, <2>6
    <3> QED
      BY <1>c, <2>4, <3>1 DEF CreatorsApart, StemOf
  <2>8. Leads(p, ns', fds'[p], maps'[p], obj', call'[p], pc'[p])
    <3>1. \A y \in Objects(p) : obj[y].is_creator =>
            /\ obj[y].data \in Handle /\ maps[p][obj[y].data] # NoInode
      BY <1>b, <1>e, HandleTypes DEF Owns
    <3>2. \A y \in Objects(p) : obj'[y].is_creator =>
            obj'[y].name \in Name /\ ns'[StemOf(obj'[y])] = maps'[p][obj'[y].data]
      BY <1>c, <2>1, <2>4, <2>6, <3>1 DEF Leads
    <3>3. c.region.is_creator => ns[StemOf(c.region)] = fds[p][call[p].fd]
      BY <1>c, <2>3, <2>4, <2>5 DEF Leads, StemOf
    <3> QED
      BY <2>1, <2>4, <2>5, <2>6, <3>2, <3>3 DEF Leads
  <2>9. OthersKept(p)
    BY <2>4 DEF OthersKept
  <2> QED
    BY <2>4, <2>6, <2>7, <2>8, <2>9, LeadsStep
<1>5. ASSUME NEW p \in Proc, step_fails(p)
      PROVE  NameInv'
  <2>1. /\ call[p] \in CallType
        /\ call' = [call EXCEPT ![p] = [call[p] EXCEPT !.fd = Null]]
        /\ pc' = [pc EXCEPT ![p] = IF call[p].kind = "open" THEN "drop_local" ELSE "unlink"]
        /\ fds' = released(fds, p, call[p].fd) /\ UNCHANGED <<ns, maps, obj>>
    BY <1>a, <1>5 DEF step_fails
  <2>2. \A q \in Proc : q # p => fds'[q] = fds[q]
    <3>1. fds \in [Proc -> [Handle -> Inode \cup {NoInode}]]
      BY <1>a DEF Tables
    <3> QED
      BY <2>1, <3>1, HandleTypes, ReleasedTable
  <2>3. /\ call'[p].region = call[p].region /\ pc'[p] \in {"drop_local", "unlink"}
        /\ \A q \in Proc : q # p => call'[q] = call[q] /\ pc'[q] = pc[q]
    BY <1>a, <2>1 DEF CallType
  <2>4. CreatorsApart(obj', call')
    <3>1. \A q \in Proc : call'[q].region = call[q].region
      BY <2>3
    <3> QED
      BY <1>c, <2>1, <3>1 DEF CreatorsApart, StemOf
  <2>5. Leads(p, ns', fds'[p], maps'[p], obj', call'[p], pc'[p])
    BY <1>c, <2>1, <2>3 DEF Leads
  <2>6. OthersKept(p)
    BY <2>1 DEF OthersKept
  <2> QED
    BY <2>1, <2>2, <2>3, <2>4, <2>5, <2>6, LeadsStep
<1>6. ASSUME NEW p \in Proc, unlink(p)
      PROVE  NameInv'
  <2>1. CallFits(p, "unlink", call[p])
    BY <1>a, <1>6 DEF unlink
  <2>2. call[p].region.is_creator
    BY <2>1 DEF CallFits
  <2>3. /\ ns' = [ns EXCEPT ![StemOf(call[p].region)] = NoInode]
        /\ UNCHANGED <<fds, maps, obj, call>> /\ pc'[p] = "drop_local"
        /\ \A q \in Proc : q # p => pc'[q] = pc[q]
    BY <1>a, <1>6 DEF unlink, StemOf
  <2>4. \A s \in Stem : s # StemOf(call[p].region) => ns'[s] = ns[s]
    BY <1>a, <2>3 DEF Tables
  <2>5. /\ OthersKept(p)
        /\ \A y \in Object : obj[y].is_creator => ns'[StemOf(obj[y])] = ns[StemOf(obj[y])]
    BY <2>2, <2>4, CallKept
  <2>6. Leads(p, ns', fds'[p], maps'[p], obj', call'[p], pc'[p])
    BY <1>c, <2>3, <2>5 DEF Leads, Objects
  <2> QED
    BY <1>c, <2>3, <2>5, <2>6, LeadsStep
<1>7. ASSUME NEW p \in Proc, drop_local(p)
      PROVE  NameInv'
  <2>1. CallFits(p, "drop_local", call[p]) /\ call[p] \in CallType
    BY <1>a, <1>7 DEF drop_local
  <2>2. /\ call[p].region.fd = Null /\ call[p].region.data = Null
        /\ call[p].region \in Region
    BY <2>1 DEF CallFits, CallType
  <2>3. /\ call' = [call EXCEPT ![p] = [call[p] EXCEPT !.region = Empty]]
        /\ pc' = [pc EXCEPT ![p] = "return"]
        /\ ns' = unlinked(call[p].region) /\ fds' = fds /\ maps' = maps /\ UNCHANGED obj
    BY <1>7, <2>2 DEF drop_local, close_effects, released
  <2>4. /\ call'[p].region = Empty /\ pc'[p] = "return"
        /\ \A q \in Proc : q # p => call'[q] = call[q] /\ pc'[q] = pc[q]
    BY <1>a, <2>1, <2>3 DEF CallType
  <2>5. CreatorsApart(obj', call')
    <3>1. \A q \in Proc : call'[q].region.is_creator => call'[q].region = call[q].region
      BY <1>d, <2>4
    <3> QED
      BY <1>c, <2>3, <3>1 DEF CreatorsApart, StemOf
  <2>6. /\ OthersKept(p)
        /\ \A y \in Object : obj[y].is_creator => ns'[StemOf(obj[y])] = ns[StemOf(obj[y])]
    <3>1. ns \in [Stem -> Inode \cup {NoInode}]
      BY <1>a DEF Tables
    <3>2. CASE call[p].region.is_creator
      <4>1. \A s \in Stem : s # StemOf(call[p].region) => ns'[s] = ns[s]
        BY <2>2, <2>3, <3>1, UnlinkedNames DEF StemOf
      <4> QED
        BY <3>2, <4>1, CallKept
    <3>3. CASE ~call[p].region.is_creator
      <4>1. ns' = ns
        BY <2>2, <2>3, <3>1, <3>3, UnlinkedNames
      <4> QED
        BY <4>1 DEF OthersKept
    <3> QED
      BY <3>2, <3>3
  <2>7. Leads(p, ns', fds'[p], maps'[p], obj', call'[p], pc'[p])
    BY <1>c, <1>d, <2>3, <2>4, <2>6 DEF Leads, Objects
  <2> QED
    BY <2>3, <2>4, <2>5, <2>6, <2>7, LeadsStep
<1>8. ASSUME NEW p \in Proc, assign_result(p)
      PROVE  NameInv'
  <2> DEFINE x == call[p].target
             r == call[p].region
  <2>1. CallFits(p, "return", call[p]) /\ pc[p] = "return"
    BY <1>a, <1>8 DEF assign_result
  <2>2. /\ call' = [call EXCEPT ![p] = NoCall] /\ pc' = [pc EXCEPT ![p] = "idle"]
        /\ close_effects(p, obj[x]) /\ obj' = [obj EXCEPT ![x] = r]
    BY <1>8 DEF assign_result
  <2>3. x \in Objects(p)
    BY <2>1 DEF CallFits
  <2> HIDE DEF x
  <2>4. /\ x \in Object /\ Owner[x] = p /\ obj[x] \in Region
        /\ r.data \in Handle \cup {Null} /\ r \in Region
    BY <2>3, HandleTypes
  <2>5. /\ obj'[x] = r /\ \A z \in Object : z # x => obj'[z] = obj[z]
        /\ call'[p] = NoCall /\ pc'[p] = "idle"
        /\ \A q \in Proc : q # p => call'[q] = call[q] /\ pc'[q] = pc[q]
    BY <1>a, <2>2, <2>4 DEF Tables
  <2>6. /\ \A q \in Proc : q # p => fds'[q] = fds[q] /\ maps'[q] = maps[q]
        /\ \A k \in Handle : maps'[p][k] = IF k = obj[x].data THEN NoInode ELSE maps[p][k]
    BY <2>2, <2>4, close_tables
  <2>7. /\ OthersKept(p)
        /\ \A y \in Object : y # x /\ obj[y].is_creator =>
             ns'[StemOf(obj[y])] = ns[StemOf(obj[y])]
        /\ r.is_creator => ns'[StemOf(r)] = ns[StemOf(r)]
    BY <2>2, <2>4, ObjectKept DEF close_effects
  <2>8. CreatorsApart(obj', call')
    <3>1. \A q \in Proc : call'[q].region.is_creator => q # p /\ call'[q] = call[q]
      BY <1>d, <2>5
    <3> HIDE DEF r
    <3>2. CreatorsApart(obj, call) /\ r = call[p].region
      BY <1>c DEF r
    <3> QED
      BY <2>5, <3>1, <3>2 DEF CreatorsApart
  <2>9. Leads(p, ns', fds'[p], maps'[p], obj', call'[p], pc'[p])
    <3>1. Owns(p, fds[p], maps[p], obj, call[p]) /\ Null \notin Handle
      BY <1>b, HandleFacts
    <3>2. r.is_creator =>
            /\ r.name \in Name /\ r.data \in Handle /\ ns[StemOf(r)] = maps[p][r.data]
      BY <1>c, <1>d, <2>1, <2>4 DEF CallFits, Leads, is_valid
    <3>3. r.is_creator => maps'[p][r.data] = maps[p][r.data]
      BY <2>3, <2>6, <3>1, <3>2 DEF Owns
    <3>4. ASSUME NEW y \in Objects(p), y # x, obj[y].is_creator
          PROVE  /\ obj[y].name \in Name
                 /\ ns'[StemOf(obj[y])] = maps'[p][obj[y].data]
      <4>1. y \in Object /\ obj[y].data \in Handle /\ obj[y].data # obj[x].data
        BY <1>e, <2>3, <3>1, <3>4, HandleTypes DEF Owns
      <4> QED
        BY <1>c, <2>6, <2>7, <3>4, <4>1 DEF Leads
    <3>5. \A y \in Objects(p) : obj'[y].is_creator =>
            obj'[y].name \in Name /\ ns'[StemOf(obj'[y])] = maps'[p][obj'[y].data]
      <4> HIDE DEF r
      <4> QED
        BY <2>5, <2>7, <3>2, <3>3, <3>4 DEF Objects
    <3> QED
      BY <2>5, <3>5 DEF Leads
  <2>10. \A z \in Object : Owner[z] # p => obj'[z] = obj[z]
    BY <2>4, <2>5
  <2> QED
    BY <2>5, <2>6, <2>7, <2>8, <2>9, <2>10, LeadsStep
<1>9. ASSUME NEW p \in Proc, crash(p)
      PROVE  NameInv'
  <2>1. /\ \A q \in Proc : q # p => /\ fds'[q] = fds[q] /\ maps'[q] = maps[q]
                                   /\ call'[q] = call[q] /\ pc'[q] = pc[q]
        /\ call'[p] = NoCall /\ pc'[p] = "idle" /\ ns' = ns
        /\ \A x \in Object : obj'[x] = IF Owner[x] = p THEN Empty ELSE obj[x]
    BY <1>a, <1>9 DEF crash, Tables
  <2>2. CreatorsApart(obj', call')
    <3>1. /\ \A x \in Object : obj'[x].is_creator => obj'[x] = obj[x]
          /\ \A q \in Proc : call'[q].region.is_creator => call'[q] = call[q]
      BY <1>d, <2>1
    <3> QED
      BY <1>c, <3>1 DEF CreatorsApart
  <2>3. Leads(p, ns', fds'[p], maps'[p], obj', call'[p], pc'[p])
    BY <1>d, <2>1 DEF Leads, Objects
  <2>4. OthersKept(p)
    BY <2>1 DEF OthersKept
  <2> QED
    BY <2>1, <2>2, <2>3, <2>4, LeadsStep
<1>10. ASSUME NEW x \in Object, NEW y \in Object, move_assign(x, y)
       PROVE  NameInv'
  <2> DEFINE p == Owner[x]
  <2>1. /\ p \in Proc /\ Owner[y] = p /\ x \in Objects(p) /\ y \in Objects(p) /\ x # y
        /\ pc[p] = "idle" /\ close_effects(p, obj[x]) /\ UNCHANGED <<call, pc>>
        /\ obj' = [obj EXCEPT ![x] = obj[y], ![y] = moved(obj[y])]
        /\ obj[x] \in Region /\ obj[y] \in Region
    BY <1>10, <1>a, ShmAssumption DEF move_assign, Objects, Tables
  <2>2. /\ OthersKept(p)
        /\ \A z \in Object : z # x /\ obj[z].is_creator =>
             ns'[StemOf(obj[z])] = ns[StemOf(obj[z])]
    BY <2>1, ObjectKept DEF close_effects
  <2> HIDE DEF p
  <2>3. /\ obj'[x] = obj[y] /\ ~obj'[y].is_creator
        /\ \A z \in Object : z # x /\ z # y => obj'[z] = obj[z]
    BY <1>a, <2>1, ClosedMoved DEF Tables
  <2>4. /\ \A q \in Proc : q # p => fds'[q] = fds[q] /\ maps'[q] = maps[q]
        /\ \A k \in Handle : maps'[p][k] = IF k = obj[x].data THEN NoInode ELSE maps[p][k]
    BY <2>1, close_tables
  <2>5. CreatorsApart(obj', call')
    <3> DEFINE from(z) == IF z = x THEN y ELSE z
    <3>1. \A z \in Object : obj'[z].is_creator =>
            z # y /\ from(z) \in Object /\ obj'[z] = obj[from(z)]
      BY <2>3
    <3>2. \A u, v \in Object : u # y /\ v # y /\ u # v => from(u) # from(v)
      OBVIOUS
    <3> HIDE DEF from
    <3>3. \A u, v \in Object : obj'[u].is_creator /\ obj'[v].is_creator /\ u # v =>
            StemOf(obj'[u]) # StemOf(obj'[v])
      BY <1>c, <3>1, <3>2 DEF CreatorsApart
    <3>4. \A u \in Object, q \in Proc : obj'[u].is_creator /\ call[q].region.is_creator =>
            StemOf(obj'[u]) # StemOf(call[q].region)
      BY <1>c, <3>1 DEF CreatorsApart
    <3>5. call' = call
      BY <2>1
    <3> QED
      BY <1>c, <3>3, <3>4, <3>5 DEF CreatorsApart
  <2>6. Leads(p, ns', fds'[p], maps'[p], obj', call'[p], pc'[p])
    <3>1. Owns(p, fds[p], maps[p], obj, call[p]) /\ Null \notin Handle
      BY <1>b, <2>1, HandleFacts
    <3>2. ASSUME NEW z \in Objects(p), z # x, obj[z].is_creator
          PROVE  /\ obj[z].name \in Name
                 /\ ns'[StemOf(obj[z])] = maps'[p][obj[z].data]
      <4>1. z \in Object /\ obj[z].data \in Handle /\ obj[z].data # obj[x].data
        BY <1>e, <2>1, <3>1, <3>2, HandleTypes DEF Owns
      <4> QED
        BY <1>c, <2>1, <2>2, <2>4, <3>2, <4>1 DEF Leads
    <3>3. \A z \in Objects(p) : obj'[z].is_creator =>
            obj'[z].name \in Name /\ ns'[StemOf(obj'[z])] = maps'[p][obj'[z].data]
      <4> TAKE z \in Objects(p)
      <4>1. CASE z = x
        BY <2>1, <2>3, <3>2, <4>1
      <4>2. CASE z # x
        BY <2>3, <3>2, <4>2 DEF Objects
      <4> QED
        BY <4>1, <4>2
    <3> QED
      BY <2>1, <3>3 DEF Leads
  <2>7. \A z \in Object : Owner[z] # p => obj'[z] = obj[z]
    BY <2>1, <2>3 DEF Objects
  <2> QED
    BY <2>1, <2>2, <2>4, <2>5, <2>6, <2>7, LeadsStep
<1>11. ASSUME NEW x \in Object, close(x)
       PROVE  NameInv'
  <2> DEFINE p == Owner[x]
  <2>1. /\ p \in Proc /\ x \in Objects(p)
        /\ pc[p] = "idle" /\ close_effects(p, obj[x]) /\ UNCHANGED <<call, pc>>
        /\ obj' = [obj EXCEPT ![x] = closed(obj[x])] /\ obj[x] \in Region
    BY <1>11, <1>a, ShmAssumption DEF close, Objects, Tables
  <2>2. /\ OthersKept(p)
        /\ \A z \in Object : z # x /\ obj[z].is_creator =>
             ns'[StemOf(obj[z])] = ns[StemOf(obj[z])]
    BY <2>1, ObjectKept DEF close_effects
  <2> HIDE DEF p
  <2>3. ~obj'[x].is_creator /\ \A z \in Object : z # x => obj'[z] = obj[z]
    BY <1>a, <2>1, ClosedMoved DEF Tables
  <2>4. /\ \A q \in Proc : q # p => fds'[q] = fds[q] /\ maps'[q] = maps[q]
        /\ \A k \in Handle : maps'[p][k] = IF k = obj[x].data THEN NoInode ELSE maps[p][k]
    BY <2>1, close_tables
  <2>5. CreatorsApart(obj', call')
    BY <1>c, <2>1, <2>3 DEF CreatorsApart
  <2>6. Leads(p, ns', fds'[p], maps'[p], obj', call'[p], pc'[p])
    <3>1. Owns(p, fds[p], maps[p], obj, call[p]) /\ Null \notin Handle
      BY <1>b, <2>1, HandleFacts
    <3>2. ASSUME NEW z \in Objects(p), z # x, obj[z].is_creator
          PROVE  /\ obj[z].name \in Name
                 /\ ns'[StemOf(obj[z])] = maps'[p][obj[z].data]
      <4>1. z \in Object /\ obj[z].data \in Handle /\ obj[z].data # obj[x].data
        BY <1>e, <2>1, <3>1, <3>2, HandleTypes DEF Owns
      <4> QED
        BY <1>c, <2>1, <2>2, <2>4, <3>2, <4>1 DEF Leads
    <3>3. \A z \in Objects(p) : obj'[z].is_creator =>
            obj'[z].name \in Name /\ ns'[StemOf(obj'[z])] = maps'[p][obj'[z].data]
      BY <2>1, <2>3, <3>2 DEF Objects
    <3> QED
      BY <2>1, <3>3 DEF Leads
  <2>7. \A z \in Object : Owner[z] # p => obj'[z] = obj[z]
    BY <2>1, <2>3 DEF Objects
  <2> QED
    BY <2>1, <2>2, <2>4, <2>5, <2>6, <2>7, LeadsStep
<1>12. ASSUME UNCHANGED vars
       PROVE  NameInv'
  <2>1. CreatorsApart(obj', call')
    BY <1>c, <1>12 DEF vars
  <2>2. CreatorsApart(obj, call)'
    BY <2>1 DEF CreatorsApart, StemOf, normalize_posix_shm_name
  <2>3. \A p \in Proc : Leads(p, ns', fds'[p], maps'[p], obj', call'[p], pc'[p])
    BY <1>c, <1>12 DEF vars
  <2>4. (\A p \in Proc : Leads(p, ns, fds[p], maps[p], obj, call[p], pc[p]))'
    BY <2>3 DEF Leads, StemOf, normalize_posix_shm_name
  <2> QED
    BY <2>2, <2>4 DEF NameInv
<1> QED
  BY <1>1, <1>2, <1>3, <1>4, <1>5, <1>6, <1>7, <1>8, <1>9, <1>10, <1>11, <1>12 DEF Next

\* With at most one creator of a name at a time, the name leads to the segment
\* its live creator maps, whatever fails and whoever crashes: the processes
\* that open it attach to the segment the creator uses.
THEOREM ReachableCorrect == ASSUME OneCreator PROVE Spec => []Reachable
<1>1. TypeInv /\ NameInv => Reachable
  BY ShmAssumption DEF NameInv, Leads, Reachable, LiveCreator, Objects, StemOf
<1> QED
  BY <1>1, TypesInit, TypesNext, HandlesInit, HandlesNext, NamesInit, NamesNext, PTL DEF Spec

-----------------------------------------------------------------------------
(***************************************************************************)
(* What is mapped exists, when no process truncates an existing segment.   *)
(***************************************************************************)
\* With lengths L, descriptors F, mappings M, objects o and call c at point s:
\* what process p maps has its bytes, what its open has checked still has
\* them, and a segment that it is creating is still empty.
Backs(p, L, F, M, o, c, s) ==
  /\ \A x \in Objects(p) : o[x].data # Null =>
       o[x].size > 0 /\ L[M[o[x].data]] >= o[x].size
  /\ s = "ftruncate" => L[F[c.fd]] = 0
  /\ s = "mmap" => L[F[c.fd]] >= c.region.size
  /\ s = "return" /\ c.region.data # Null =>
       c.region.size > 0 /\ L[M[c.region.data]] >= c.region.size

\* No two processes are creating one segment.
CreatedApart ==
  \A p, q \in Proc : pc[p] = "ftruncate" /\ pc[q] = "ftruncate" /\ p # q =>
    fds[p][call[p].fd] # fds[q][call[q].fd]

BackInv ==
  /\ CreatedApart
  /\ \A p \in Proc : Backs(p, length, fds[p], maps[p], obj, call[p], pc[p])

\* The segments that the variables of a process refer to, and the lengths.
LEMMA SegmentFacts ==
  ASSUME TypeInv, HandleInv, NEW p \in Proc
  PROVE  /\ \A x \in Objects(p) : obj[x].data # Null =>
              maps[p][obj[x].data] \in Inode \cap InUse
         /\ call[p].fd # Null => fds[p][call[p].fd] \in Inode \cap InUse
         /\ call[p].region.data # Null => maps[p][call[p].region.data] \in Inode \cap InUse
         /\ call[p].region.size \in Nat /\ \A x \in Objects(p) : obj[x].size \in Nat
         /\ \A i \in Inode : length[i] \in Nat
<1>1. Owns(p, fds[p], maps[p], obj, call[p])
  BY DEF HandleInv
<1>2. \A h \in Handle : /\ fds[p][h] \in InUse /\ maps[p][h] \in InUse
                       /\ fds[p][h] \in Inode \cup {NoInode}
                       /\ maps[p][h] \in Inode \cup {NoInode}
  BY DEF InUse, TypeInv, Tables
<1>3. \A x \in Objects(p) : obj[x].data # Null => maps[p][obj[x].data] \in Inode \cap InUse
  BY <1>1, <1>2, HandleTypes DEF Owns
<1>4. call[p].fd # Null => fds[p][call[p].fd] \in Inode \cap InUse
  BY <1>1, <1>2, HandleTypes DEF Owns
<1>5. call[p].region.data # Null => maps[p][call[p].region.data] \in Inode \cap InUse
  BY <1>1, <1>2, HandleTypes DEF Owns
<1>6. Size \cup {0} \subseteq Nat
  BY ShmAssumption
<1>7. call[p].region.size \in Nat /\ \A x \in Objects(p) : obj[x].size \in Nat
  BY <1>6, HandleTypes DEF Region
<1>8. \A i \in Inode : length[i] \in Nat
  BY <1>6 DEF TypeInv, Tables
<1> QED
  BY <1>3, <1>4, <1>5, <1>7, <1>8

\* A step of process p that shortens no segment in use, and leaves the ones
\* that others are creating empty.
LEMMA BacksStep ==
  ASSUME TypeInv, HandleInv, BackInv, NEW p \in Proc,
         \A q \in Proc : q # p => /\ fds'[q] = fds[q] /\ maps'[q] = maps[q]
                                 /\ call'[q] = call[q] /\ pc'[q] = pc[q],
         \A x \in Object : Owner[x] # p => obj'[x] = obj[x],
         \A i \in Inode \cap InUse : length'[i] \in Nat /\ length'[i] >= length[i],
         \A q \in Proc : q # p /\ pc[q] = "ftruncate" =>
           length'[fds[q][call[q].fd]] = length[fds[q][call[q].fd]],
         pc'[p] = "ftruncate" => fds'[p][call'[p].fd] \notin InUse,
         Backs(p, length', fds'[p], maps'[p], obj', call'[p], pc'[p])
  PROVE  BackInv'
<1>1. \A q \in Proc : CallFits(q, pc[q], call[q])
  BY DEF TypeInv
<1>2. \A q \in Proc : pc[q] \in {"ftruncate", "mmap"} =>
        fds[q][call[q].fd] \in Inode \cap InUse
  BY <1>1, SegmentFacts DEF CallFits
<1>3. ASSUME NEW q \in Proc, q # p
      PROVE  Backs(q, length', fds'[q], maps'[q], obj', call'[q], pc'[q])
  <2>1. Backs(q, length, fds[q], maps[q], obj, call[q], pc[q])
    BY DEF BackInv
  <2>2. \A x \in Objects(q) : obj'[x] = obj[x]
    BY <1>3 DEF Objects
  <2>3. \A x \in Objects(q) : obj[x].data # Null =>
          obj[x].size > 0 /\ length'[maps[q][obj[x].data]] >= obj[x].size
    BY <2>1, SegmentFacts DEF Backs
  <2>4. pc[q] = "ftruncate" => length'[fds[q][call[q].fd]] = 0
    BY <1>3, <2>1 DEF Backs
  <2>5. pc[q] = "mmap" => length'[fds[q][call[q].fd]] >= call[q].region.size
    BY <1>2, <2>1, SegmentFacts DEF Backs
  <2>6. pc[q] = "return" /\ call[q].region.data # Null =>
          /\ call[q].region.size > 0
          /\ length'[maps[q][call[q].region.data]] >= call[q].region.size
    BY <2>1, SegmentFacts DEF Backs
  <2> QED
    BY <1>3, <2>2, <2>3, <2>4, <2>5, <2>6 DEF Backs
<1>4. \A q \in Proc : Backs(q, length', fds'[q], maps'[q], obj', call'[q], pc'[q])
  BY <1>3
<1>5. (\A q \in Proc : Backs(q, length, fds[q], maps[q], obj, call[q], pc[q]))'
  BY <1>4 DEF Backs
<1>6. CreatedApart'
  <2>1. \A q, r \in Proc : q # p /\ r # p /\ pc'[q] = "ftruncate" /\ pc'[r] = "ftruncate" /\ q # r =>
          fds'[q][call'[q].fd] # fds'[r][call'[r].fd]
    BY DEF BackInv, CreatedApart
  <2>2. \A q \in Proc : q # p /\ pc'[q] = "ftruncate" /\ pc'[p] = "ftruncate" =>
          fds'[q][call'[q].fd] # fds'[p][call'[p].fd]
    BY <1>2
  <2> QED
    BY <2>1, <2>2 DEF CreatedApart
<1> QED
  BY <1>5, <1>6 DEF BackInv

\* At first nobody maps anything.
LEMMA BackedInit == Init => BackInv
<1> SUFFICES ASSUME Init PROVE BackInv
  OBVIOUS
<1>1. /\ \A x \in Object : obj[x].data = Null
      /\ \A p \in Proc : pc[p] = "idle"
  BY EmptyType DEF Init
<1> QED
  BY <1>1 DEF BackInv, CreatedApart, Backs, Objects

\* The steps that touch no length, and after which p's variables refer to
\* nothing new.
LEMMA BacksLess ==
  ASSUME TypeInv, HandleInv, BackInv, NEW p \in Proc, UNCHANGED length,
         \A q \in Proc : q # p => /\ fds'[q] = fds[q] /\ maps'[q] = maps[q]
                                 /\ call'[q] = call[q] /\ pc'[q] = pc[q],
         \A x \in Object : Owner[x] # p => obj'[x] = obj[x],
         pc'[p] # "ftruncate",
         Backs(p, length, fds'[p], maps'[p], obj', call'[p], pc'[p])
  PROVE  BackInv'
<1>1. \A i \in Inode : length[i] \in Nat
  BY SegmentFacts
<1> QED
  BY <1>1, BacksStep

\* Without create, no step takes bytes from a segment that is mapped or about
\* to be.
LEMMA BackedNext ==
  ASSUME \A p \in Proc : "create" \notin Calls[p]
  PROVE  TypeInv /\ HandleInv /\ BackInv /\ [Next]_vars => BackInv'
<1> SUFFICES ASSUME TypeInv, HandleInv, BackInv, [Next]_vars PROVE BackInv'
  OBVIOUS
<1>a. /\ Tables /\ pc \in [Proc -> Points] /\ call \in [Proc -> CallType]
      /\ \A p \in Proc : CallFits(p, pc[p], call[p])
  BY DEF TypeInv
<1>b. \A p \in Proc : Owns(p, fds[p], maps[p], obj, call[p])
  BY DEF HandleInv
<1>c. \A p \in Proc : Backs(p, length, fds[p], maps[p], obj, call[p], pc[p])
  BY DEF BackInv
<1>d. Empty.data = Null /\ NoCall.region = Empty
  BY NoCallType, EmptyType
<1>1. ASSUME NEW p \in Proc, NEW x \in Object, NEW name \in Name, NEW size \in Size,
             NEW kind \in Calls[p], factory(p, kind, x, name, size)
      PROVE  BackInv'
  <2>1. /\ pc'[p] = "shm_open" /\ UNCHANGED <<length, fds, maps, obj>>
        /\ \A q \in Proc : q # p => call'[q] = call[q] /\ pc'[q] = pc[q]
    BY <1>1, <1>a DEF factory
  <2>2. Backs(p, length, fds'[p], maps'[p], obj', call'[p], pc'[p])
    BY <1>c, <2>1 DEF Backs
  <2> QED
    BY <2>1, <2>2, BacksLess
<1>2. ASSUME NEW p \in Proc, shm_open(p)
      PROVE  BackInv'
  <2> DEFINE h == Lowest(Free(fds, p))
             s == normalize_posix_shm_name(call[p].region.name)
             c == [call[p] EXCEPT !.fd = h]
  <2>1. h \in Handle
    BY <1>2, LowestFree DEF shm_open
  <2>2. /\ CallFits(p, "shm_open", call[p]) /\ call[p] \in CallType
        /\ call[p].kind # "create"
    BY <1>a, <1>2 DEF shm_open, CallFits
  <2>3. /\ call' = [call EXCEPT ![p] = c] /\ UNCHANGED <<maps, obj>>
        /\ pc' = [pc EXCEPT ![p] = IF call[p].kind = "open" THEN "fstat" ELSE "ftruncate"]
    BY <1>2 DEF shm_open
  <2>4. c.fd = h
    BY <2>2 DEF CallType
  <2> HIDE DEF c
  <2>5. /\ maps' = maps /\ obj' = obj /\ call'[p] = c
        /\ pc'[p] = IF call[p].kind = "open" THEN "fstat" ELSE "ftruncate"
        /\ \A q \in Proc : q # p => call'[q] = call[q] /\ pc'[q] = pc[q]
    BY <1>a, <2>3
  <2>6. CASE call[p].kind = "open"
    <3>1. /\ fds' = [fds EXCEPT ![p][h] = ns[s]] /\ UNCHANGED length
      BY <1>2, <2>6 DEF shm_open
    <3>2. \A q \in Proc : q # p => fds'[q] = fds[q]
      BY <1>a, <3>1 DEF Tables
    <3>3. Backs(p, length, fds'[p], maps'[p], obj', call'[p], pc'[p])
      BY <1>c, <2>5, <2>6 DEF Backs
    <3> QED
      BY <2>5, <2>6, <3>1, <3>2, <3>3, BacksLess
  <2>7. CASE call[p].kind # "open"
    <3>1. PICK i \in Inode \ InUse : /\ fds' = [fds EXCEPT ![p][h] = i]
                                     /\ length' = [length EXCEPT ![i] = 0]
      BY <1>2, <2>2, <2>7 DEF shm_open
    <3> HIDE DEF h, s
    <3>2. /\ fds'[p][h] = i /\ \A q \in Proc : q # p => fds'[q] = fds[q]
          /\ length'[i] = 0 /\ \A j \in Inode : j # i => length'[j] = length[j]
      BY <1>a, <2>1, <3>1 DEF Tables
    <3>3. \A j \in Inode \cap InUse : length'[j] \in Nat /\ length'[j] = length[j]
      BY <3>1, <3>2, SegmentFacts
    <3>4. \A q \in Proc : pc[q] = "ftruncate" =>
            length'[fds[q][call[q].fd]] = length[fds[q][call[q].fd]]
      BY <1>a, <3>3, SegmentFacts DEF CallFits
    <3>5. Backs(p, length', fds'[p], maps'[p], obj', call'[p], pc'[p])
      <4>1. \A x \in Objects(p) : obj[x].data # Null =>
              obj[x].size > 0 /\ length'[maps[p][obj[x].data]] >= obj[x].size
        BY <1>c, <3>3, SegmentFacts DEF Backs
      <4> QED
        BY <2>4, <2>5, <2>7, <3>2, <4>1 DEF Backs
    <3>6. /\ \A j \in Inode \cap InUse : length'[j] \in Nat /\ length'[j] >= length[j]
          /\ fds'[p][call'[p].fd] \notin InUse
      BY <2>4, <2>5, <3>1, <3>2, <3>3
    <3> QED
      BY <2>5, <3>2, <3>4, <3>5, <3>6, BacksStep
  <2> QED
    BY <2>6, <2>7
<1>3. ASSUME NEW p \in Proc, ftruncate(p)
      PROVE  BackInv'
  <2> DEFINE i == fds[p][call[p].fd]
  <2>1. /\ pc[p] = "ftruncate" /\ pc'[p] = "mmap" /\ \A q \in Proc : q # p => pc'[q] = pc[q]
        /\ length' = [length EXCEPT ![i] = call[p].region.size]
        /\ UNCHANGED <<fds, maps, obj, call>>
    BY <1>3, <1>a DEF ftruncate
  <2>2. i \in Inode \cap InUse /\ call[p].region.size \in Nat /\ length[i] = 0
    BY <1>a, <1>c, <2>1, SegmentFacts DEF CallFits, Backs
  <2>3. \A q \in Proc : q # p /\ pc[q] = "ftruncate" => fds[q][call[q].fd] # i
    BY <2>1 DEF BackInv, CreatedApart
  <2> HIDE DEF i
  <2>4. length'[i] = call[p].region.size /\ \A j \in Inode : j # i => length'[j] = length[j]
    BY <1>a, <2>1, <2>2 DEF Tables
  <2>5. \A j \in Inode : length'[j] \in Nat /\ length'[j] >= length[j]
    BY <2>2, <2>4, SegmentFacts
  <2>6. \A q \in Proc : q # p /\ pc[q] = "ftruncate" =>
          length'[fds[q][call[q].fd]] = length[fds[q][call[q].fd]]
    BY <1>a, <2>3, <2>4, SegmentFacts DEF CallFits
  <2>7. Backs(p, length', fds'[p], maps'[p], obj', call'[p], pc'[p])
    <3>1. \A x \in Objects(p) : obj[x].data # Null =>
            obj[x].size > 0 /\ length'[maps[p][obj[x].data]] >= obj[x].size
      BY <1>c, <2>5, SegmentFacts DEF Backs
    <3>2. length'[fds[p][call[p].fd]] >= call[p].region.size
      BY <2>2, <2>4 DEF i
    <3> QED
      BY <2>1, <3>1, <3>2 DEF Backs
  <2> QED
    BY <2>1, <2>5, <2>6, <2>7, BacksStep
<1>4. ASSUME NEW p \in Proc, shm_open_fails(p) \/ fstat(p) \/ unlink(p)
      PROVE  BackInv'
  <2>1. /\ UNCHANGED <<length, fds, maps, obj, call>>
        /\ \A q \in Proc : q # p => pc'[q] = pc[q]
        /\ \/ pc'[p] = "drop_local"
           \/ pc'[p] = "mmap" /\ length[fds[p][call[p].fd]] >= call[p].region.size
    BY <1>4, <1>a DEF shm_open_fails, fstat, fstat_ok, unlink
  <2>2. Backs(p, length, fds'[p], maps'[p], obj', call'[p], pc'[p])
    BY <1>c, <2>1 DEF Backs
  <2> QED
    BY <2>1, <2>2, BacksLess
<1>5. ASSUME NEW p \in Proc, mmap(p)
      PROVE  BackInv'
  <2> DEFINE h == Lowest(Free(maps, p))
             c == [call[p] EXCEPT !.region.data = h, !.region.fd = call[p].fd, !.fd = Null]
  <2>1. h \in Handle /\ maps[p][h] = NoInode
    BY <1>5, LowestFree DEF mmap
  <2>2. CallFits(p, "mmap", call[p]) /\ call[p] \in CallType
    BY <1>a, <1>5 DEF mmap
  <2>3. call[p].fd \in Handle
    BY <2>2 DEF CallFits, CallType
  <2>4. /\ call' = [call EXCEPT ![p] = c] /\ UNCHANGED <<length, fds, obj>>
        /\ maps' = [maps EXCEPT ![p][h] = fds[p][call[p].fd]]
        /\ pc[p] = "mmap" /\ pc' = [pc EXCEPT ![p] = "return"]
        /\ call[p].region.size > 0
    BY <1>a, <1>5 DEF mmap
  <2>5. c.region.data = h /\ c.region.size = call[p].region.size
    BY <2>1, <2>2, <2>3, MappedCall
  <2> HIDE DEF h, c
  <2>6. /\ \A k \in Handle : maps'[p][k] = IF k = h THEN fds[p][call[p].fd] ELSE maps[p][k]
        /\ \A q \in Proc : q # p => maps'[q] = maps[q] /\ call'[q] = call[q] /\ pc'[q] = pc[q]
        /\ call'[p] = c /\ pc'[p] = "return"
    BY <1>a, <2>1, <2>4 DEF Tables
  <2>7. Backs(p, length, fds'[p], maps'[p], obj', call'[p], pc'[p])
    <3>1. \A x \in Objects(p) : obj[x].data # Null =>
            obj[x].data \in Handle /\ maps[p][obj[x].data] # NoInode
      BY <1>b, HandleTypes DEF Owns
    <3>2. \A x \in Objects(p) : obj'[x].data # Null =>
            obj'[x].size > 0 /\ length[maps'[p][obj'[x].data]] >= obj'[x].size
      BY <1>c, <2>1, <2>4, <2>6, <3>1 DEF Backs
    <3>3. length[maps'[p][h]] >= c.region.size /\ c.region.size > 0
      BY <1>c, <2>1, <2>4, <2>5, <2>6 DEF Backs
    <3> QED
      BY <2>5, <2>6, <3>2, <3>3 DEF Backs
  <2> QED
    BY <2>4, <2>6, <2>7, BacksLess
<1>6. ASSUME NEW p \in Proc, step_fails(p)
      PROVE  BackInv'
  <2>1. /\ call' = [call EXCEPT ![p] = [call[p] EXCEPT !.fd = Null]]
        /\ pc' = [pc EXCEPT ![p] = IF call[p].kind = "open" THEN "drop_local" ELSE "unlink"]
        /\ fds' = released(fds, p, call[p].fd) /\ UNCHANGED <<length, maps, obj>>
    BY <1>6 DEF step_fails
  <2>2. \A q \in Proc : q # p => fds'[q] = fds[q]
    <3>1. fds \in [Proc -> [Handle -> Inode \cup {NoInode}]]
      BY <1>a DEF Tables
    <3> QED
      BY <2>1, <3>1, HandleTypes, ReleasedTable
  <2>3. /\ pc'[p] \in {"drop_local", "unlink"}
        /\ \A q \in Proc : q # p => call'[q] = call[q] /\ pc'[q] = pc[q]
    BY <1>a, <2>1
  <2>4. Backs(p, length, fds'[p], maps'[p], obj', call'[p], pc'[p])
    BY <1>c, <2>1, <2>3 DEF Backs
  <2> QED
    BY <2>1, <2>2, <2>3, <2>4, BacksLess
<1>7. ASSUME NEW p \in Proc, drop_local(p)
      PROVE  BackInv'
  <2>1. CallFits(p, "drop_local", call[p]) /\ call[p] \in CallType
    BY <1>a, <1>7 DEF drop_local
  <2>2. call[p].region.fd = Null /\ call[p].region.data = Null
    BY <2>1 DEF CallFits
  <2>3. /\ call' = [call EXCEPT ![p] = [call[p] EXCEPT !.region = Empty]]
        /\ pc' = [pc EXCEPT ![p] = "return"]
        /\ fds' = fds /\ maps' = maps /\ UNCHANGED <<length, obj>>
    BY <1>7, <2>2 DEF drop_local, close_effects, released
  <2>4. /\ call'[p].region = Empty /\ pc'[p] = "return"
        /\ \A q \in Proc : q # p => call'[q] = call[q] /\ pc'[q] = pc[q]
    BY <1>a, <2>1, <2>3 DEF CallType
  <2>5. Backs(p, length, fds'[p], maps'[p], obj', call'[p], pc'[p])
    BY <1>c, <1>d, <2>3, <2>4 DEF Backs
  <2> QED
    BY <2>3, <2>4, <2>5, BacksLess
<1>8. ASSUME NEW p \in Proc, assign_result(p)
      PROVE  BackInv'
  <2> DEFINE x == call[p].target
             r == call[p].region
  <2>1. CallFits(p, "return", call[p]) /\ pc[p] = "return"
    BY <1>a, <1>8 DEF assign_result
  <2>2. /\ call' = [call EXCEPT ![p] = NoCall] /\ pc' = [pc EXCEPT ![p] = "idle"]
        /\ close_effects(p, obj[x]) /\ obj' = [obj EXCEPT ![x] = r] /\ UNCHANGED length
    BY <1>8 DEF assign_result
  <2>3. x \in Objects(p)
    BY <2>1 DEF CallFits
  <2> HIDE DEF x
  <2>4. /\ x \in Object /\ Owner[x] = p /\ obj[x] \in Region
        /\ r.data \in Handle \cup {Null}
    BY <2>3, HandleTypes
  <2>5. /\ obj'[x] = r /\ \A z \in Object : z # x => obj'[z] = obj[z]
        /\ pc'[p] = "idle"
        /\ \A q \in Proc : q # p => call'[q] = call[q] /\ pc'[q] = pc[q]
    BY <1>a, <2>2, <2>4 DEF Tables
  <2>6. /\ \A q \in Proc : q # p => fds'[q] = fds[q] /\ maps'[q] = maps[q]
        /\ \A k \in Handle : maps'[p][k] = IF k = obj[x].data THEN NoInode ELSE maps[p][k]
    BY <2>2, <2>4, close_tables
  <2>7. Backs(p, length, fds'[p], maps'[p], obj', call'[p], pc'[p])
    <3>1. Owns(p, fds[p], maps[p], obj, call[p]) /\ Null \notin Handle
      BY <1>b, HandleFacts
    <3>2. r.data # Null => r.size > 0 /\ length[maps'[p][r.data]] >= r.size
      <4>1. r.data # Null => maps'[p][r.data] = maps[p][r.data]
        BY <2>3, <2>4, <2>6, <3>1 DEF Owns
      <4> QED
        BY <1>c, <2>1, <4>1 DEF Backs
    <3>3. ASSUME NEW y \in Objects(p), y # x, obj[y].data # Null
          PROVE  obj[y].size > 0 /\ length[maps'[p][obj[y].data]] >= obj[y].size
      <4>1. obj[y].data \in Handle /\ obj[y].data # obj[x].data
        BY <2>3, <3>1, <3>3, HandleTypes DEF Owns
      <4> QED
        BY <1>c, <2>6, <3>3, <4>1 DEF Backs
    <3>4. \A y \in Objects(p) : obj'[y].data # Null =>
            obj'[y].size > 0 /\ length[maps'[p][obj'[y].data]] >= obj'[y].size
      <4> HIDE DEF r
      <4> QED
        BY <2>5, <3>2, <3>3 DEF Objects
    <3> QED
      BY <2>5, <3>4 DEF Backs
  <2>8. \A z \in Object : Owner[z] # p => obj'[z] = obj[z]
    BY <2>4, <2>5
  <2> QED
    BY <2>2, <2>5, <2>6, <2>7, <2>8, BacksLess
<1>9. ASSUME NEW p \in Proc, crash(p)
      PROVE  BackInv'
  <2>1. /\ \A q \in Proc : q # p => /\ fds'[q] = fds[q] /\ maps'[q] = maps[q]
                                   /\ call'[q] = call[q] /\ pc'[q] = pc[q]
        /\ pc'[p] = "idle" /\ length' = length
        /\ \A x \in Object : obj'[x] = IF Owner[x] = p THEN Empty ELSE obj[x]
    BY <1>a, <1>9 DEF crash, Tables
  <2>2. Backs(p, length, fds'[p], maps'[p], obj', call'[p], pc'[p])
    BY <1>d, <2>1 DEF Backs, Objects
  <2> QED
    BY <2>1, <2>2, BacksLess
<1>10. ASSUME NEW x \in Object, NEW y \in Object, move_assign(x, y)
       PROVE  BackInv'
  <2> DEFINE p == Owner[x]
  <2>1. /\ p \in Proc /\ Owner[y] = p /\ x \in Objects(p) /\ y \in Objects(p) /\ x # y
        /\ pc[p] = "idle" /\ close_effects(p, obj[x]) /\ UNCHANGED <<length, call, pc>>
        /\ obj' = [obj EXCEPT ![x] = obj[y], ![y] = moved(obj[y])]
        /\ obj[x] \in Region /\ obj[y] \in Region
    BY <1>10, <1>a, ShmAssumption DEF move_assign, Objects, Tables
  <2> HIDE DEF p
  <2>2. /\ obj'[x] = obj[y] /\ obj'[y].data = Null
        /\ \A z \in Object : z # x /\ z # y => obj'[z] = obj[z]
    BY <1>a, <2>1, ClosedMoved DEF Tables
  <2>3. /\ \A q \in Proc : q # p => fds'[q] = fds[q] /\ maps'[q] = maps[q]
        /\ \A k \in Handle : maps'[p][k] = IF k = obj[x].data THEN NoInode ELSE maps[p][k]
    BY <2>1, close_tables
  <2>4. Backs(p, length, fds'[p], maps'[p], obj', call'[p], pc'[p])
    <3>1. Owns(p, fds[p], maps[p], obj, call[p]) /\ Null \notin Handle
      BY <1>b, <2>1, HandleFacts
    <3>2. ASSUME NEW z \in Objects(p), z # x, obj[z].data # Null
          PROVE  obj[z].size > 0 /\ length[maps'[p][obj[z].data]] >= obj[z].size
      <4>1. obj[z].data \in Handle /\ obj[z].data # obj[x].data
        BY <2>1, <3>1, <3>2, HandleTypes DEF Owns
      <4> QED
        BY <1>c, <2>1, <2>3, <3>2, <4>1 DEF Backs
    <3>3. \A z \in Objects(p) : obj'[z].data # Null =>
            obj'[z].size > 0 /\ length[maps'[p][obj'[z].data]] >= obj'[z].size
      <4> TAKE z \in Objects(p)
      <4>1. CASE z = x
        BY <2>1, <2>2, <3>2, <4>1
      <4>2. CASE z # x
        BY <2>2, <3>2, <4>2 DEF Objects
      <4> QED
        BY <4>1, <4>2
    <3> QED
      BY <2>1, <3>3 DEF Backs
  <2>5. \A z \in Object : Owner[z] # p => obj'[z] = obj[z]
    BY <2>1, <2>2 DEF Objects
  <2>6. /\ p \in Proc /\ pc'[p] # "ftruncate" /\ length' = length
        /\ \A q \in Proc : call'[q] = call[q] /\ pc'[q] = pc[q]
    BY <2>1
  <2> QED
    BY <2>3, <2>4, <2>5, <2>6, BacksLess
<1>11. ASSUME NEW x \in Object, close(x)
       PROVE  BackInv'
  <2> DEFINE p == Owner[x]
  <2>1. /\ p \in Proc /\ x \in Objects(p)
        /\ pc[p] = "idle" /\ close_effects(p, obj[x]) /\ UNCHANGED <<length, call, pc>>
        /\ obj' = [obj EXCEPT ![x] = closed(obj[x])] /\ obj[x] \in Region
    BY <1>11, <1>a, ShmAssumption DEF close, Objects, Tables
  <2> HIDE DEF p
  <2>2. obj'[x].data = Null /\ \A z \in Object : z # x => obj'[z] = obj[z]
    BY <1>a, <2>1, ClosedMoved DEF Tables
  <2>3. /\ \A q \in Proc : q # p => fds'[q] = fds[q] /\ maps'[q] = maps[q]
        /\ \A k \in Handle : maps'[p][k] = IF k = obj[x].data THEN NoInode ELSE maps[p][k]
    BY <2>1, close_tables
  <2>4. Backs(p, length, fds'[p], maps'[p], obj', call'[p], pc'[p])
    <3>1. Owns(p, fds[p], maps[p], obj, call[p]) /\ Null \notin Handle
      BY <1>b, <2>1, HandleFacts
    <3>2. ASSUME NEW z \in Objects(p), z # x, obj[z].data # Null
          PROVE  obj[z].size > 0 /\ length[maps'[p][obj[z].data]] >= obj[z].size
      <4>1. obj[z].data \in Handle /\ obj[z].data # obj[x].data
        BY <2>1, <3>1, <3>2, HandleTypes DEF Owns
      <4> QED
        BY <1>c, <2>1, <2>3, <3>2, <4>1 DEF Backs
    <3>3. \A z \in Objects(p) : obj'[z].data # Null =>
            obj'[z].size > 0 /\ length[maps'[p][obj'[z].data]] >= obj'[z].size
      BY <2>2, <3>2 DEF Objects
    <3> QED
      BY <2>1, <3>3 DEF Backs
  <2>5. \A z \in Object : Owner[z] # p => obj'[z] = obj[z]
    BY <2>1, <2>2 DEF Objects
  <2>6. /\ p \in Proc /\ pc'[p] # "ftruncate" /\ length' = length
        /\ \A q \in Proc : call'[q] = call[q] /\ pc'[q] = pc[q]
    BY <2>1
  <2> QED
    BY <2>3, <2>4, <2>5, <2>6, BacksLess
<1>12. ASSUME UNCHANGED vars
       PROVE  BackInv'
  BY <1>12 DEF vars, BackInv, CreatedApart, Backs
<1> QED
  BY <1>1, <1>2, <1>3, <1>4, <1>5, <1>6, <1>7, <1>8, <1>9, <1>10, <1>11, <1>12 DEF Next

\* Among processes that use create_exclusive and open only, every byte that a
\* valid region maps exists, although open compares the sizes in one step and
\* maps in another and any process may fail, close or crash in between.
THEOREM BackedCorrect ==
  ASSUME \A p \in Proc : "create" \notin Calls[p]
  PROVE  Spec => []Backed
<1>1. TypeInv /\ BackInv => Backed
  BY ShmAssumption DEF BackInv, Backs, Backed, is_valid, Objects
<1> QED
  BY <1>1, TypesInit, TypesNext, HandlesInit, HandlesNext, BackedInit, BackedNext, PTL DEF Spec

=============================================================================
