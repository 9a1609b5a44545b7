------------------------- MODULE SharedMemoryRegion -------------------------
(***************************************************************************)
(* SharedMemoryRegion (shm.hpp, the POSIX branch): the RAII object through *)
(* which processes create, open and drop a named shared memory segment.    *)
(*                                                                         *)
(* The operating system is modelled from how shm.hpp uses it: a namespace  *)
(* of segment names, segments (inodes) with a size, and for each process a *)
(* table of descriptors and a table of mappings.  Each system call that    *)
(* another process can observe is a step of its own and may fail.          *)
(*                                                                         *)
(* A factory (create, create_exclusive, open) builds a local region and    *)
(* returns it; the caller stores the result in one of its objects with the *)
(* move assignment, which for a fresh object is the move constructor.      *)
(***************************************************************************)
EXTENDS Integers, FiniteSets

CONSTANTS
  Proc,       \* the processes
  Object,     \* their SharedMemoryRegion variables
  Owner,      \* the process each variable belongs to
  Stem,       \* segment names without their leading slash
  StemLength, \* their lengths
  Clamp,      \* a long name's first 21 characters, "_" and CRC-32 in hex
  Name,       \* the names the program passes, with or without the slash
  Size,       \* the sizes it passes
  Inode,      \* segments: a bound on how many exist at the same time
  Handles,    \* a bound on a process's descriptors, and on its mappings
  Calls,      \* the factories each process uses
  OneCreator, \* the deployment never has two creators of one name at a time
  Faults,     \* system calls may also fail for lack of resources or rights
  NoInode,    \* no segment
  NoName      \* the empty name of a default or moved-from region

ASSUME ShmAssumption ==
  /\ Owner \in [Object -> Proc]
  /\ StemLength \in [Stem -> Nat] /\ Clamp \in [Stem -> Stem]
  /\ Name \subseteq [slash : BOOLEAN, stem : Stem] /\ NoName \notin Name
  /\ Size \subseteq Nat /\ Handles \in Nat /\ NoInode \notin Inode
  /\ Calls \in [Proc -> SUBSET {"create", "create_exclusive", "open"}]
  /\ OneCreator \in BOOLEAN /\ Faults \in BOOLEAN

VARIABLES
  ns,      \* the segment each name refers to
  length,  \* the size of each segment
  fds,     \* each process's open descriptors
  maps,    \* each process's mappings
  obj,     \* the region objects
  pc,      \* where each process is
  call     \* its factory call: the kind, the target object, the local
           \* variables region and fd

vars == <<ns, length, fds, maps, obj, pc, call>>

Null == -1           \* data_ == nullptr, fd_ == -1
Handle == 0 .. Handles - 1

-----------------------------------------------------------------------------
\* A name of more than 31 characters, slash included, is clamped.
normalize_posix_shm_name(name) ==
  IF StemLength[name.stem] + 1 > 31 THEN Clamp[name.stem] ELSE name.stem

\* A default constructed region.
Empty == [name |-> NoName, data |-> Null, size |-> 0,
          is_creator |-> FALSE, fd |-> Null]

is_valid(r) == r.data # Null

\* The local region a factory starts from: named, sized and, in create and
\* create_exclusive, already marked as the creator.
local_region(kind, name, size) ==
  [Empty EXCEPT !.name = name, !.size = size, !.is_creator = (kind # "open")]

\* Mutation: close() leaves size_ as it is.
mut_closed_keeps_size(r) ==
  [r EXCEPT !.data = Null, !.fd = Null, !.is_creator = FALSE]
\* The members after close(); name_ stays.
closed(r) ==
  [r EXCEPT !.data = Null, !.fd = Null, !.size = 0, !.is_creator = FALSE]

\* Mutation: the source of a move keeps its name and is still the creator.
mut_moved_keeps_creator(r) ==
  [r EXCEPT !.data = Null, !.size = 0, !.fd = Null]
\* The members of the source of a move.
moved(r) == [r EXCEPT !.name = NoName, !.data = Null, !.size = 0,
                      !.fd = Null, !.is_creator = FALSE]

\* close() unlinks the name of a creator, whether or not it has a segment.
unlinked(r) ==
  IF r.is_creator /\ r.name # NoName
  THEN [ns EXCEPT ![normalize_posix_shm_name(r.name)] = NoInode] ELSE ns

\* A process's tables after close() ran munmap(data_, size_) and ::close(fd_).
released(table, p, h) == IF h = Null THEN table ELSE [table EXCEPT ![p][h] = NoInode]

\* close() on region r of process p: its effects on the operating system.
close_effects(p, r) ==
  /\ maps' = released(maps, p, r.data)
  /\ fds' = released(fds, p, r.fd)
  /\ ns' = unlinked(r)

-----------------------------------------------------------------------------
(***************************************************************************)
(* The operating system.                                                   *)
(***************************************************************************)
Free(table, p) == {h \in Handle : table[p][h] = NoInode}
Lowest(S) == CHOOSE h \in S : \A k \in S : h <= k

\* A segment exists while a name, a descriptor or a mapping refers to it.
InUse == {ns[s] : s \in Stem}
           \cup {fds[p][h] : p \in Proc, h \in Handle}
           \cup {maps[p][h] : p \in Proc, h \in Handle}

-----------------------------------------------------------------------------
\* A process outside a factory.
NoCall == [kind |-> "open", target |-> CHOOSE x \in Object : TRUE,
           fd |-> Null, region |-> Empty]

\* The names that have a creator, or a process about to become one.
CreatorNames ==
  {normalize_posix_shm_name(r.name) :
     r \in {obj[x] : x \in {y \in Object : obj[y].is_creator}}
           \cup {call[p].region : p \in {q \in Proc : call[q].region.is_creator}}}

\* A process calls a factory and will assign the result to its object x.
factory(p, kind, x, name, size) ==
  /\ pc[p] = "idle"
  /\ kind \in Calls[p] /\ Owner[x] = p
  /\ OneCreator /\ kind # "open" => normalize_posix_shm_name(name) \notin CreatorNames
  /\ call' = [call EXCEPT ![p] = [kind |-> kind, target |-> x, fd |-> Null,
                                  region |-> local_region(kind, name, size)]]
  /\ pc' = [pc EXCEPT ![p] = "shm_open"]
  /\ UNCHANGED <<ns, length, fds, maps, obj>>

\* What shm_open does to the name, given the flags of the three factories:
\* O_CREAT | O_TRUNC, O_CREAT | O_EXCL, or neither.
shm_open(p) ==
  LET c == call[p]
      s == normalize_posix_shm_name(c.region.name)
      h == Lowest(Free(fds, p))
  IN  /\ pc[p] = "shm_open"
      /\ Free(fds, p) # {}
      /\ \/ /\ c.kind \in {"create", "create_exclusive"} /\ ns[s] = NoInode
            /\ \E i \in Inode \ InUse :
                 /\ ns' = [ns EXCEPT ![s] = i]
                 /\ length' = [length EXCEPT ![i] = 0]
                 /\ fds' = [fds EXCEPT ![p][h] = i]
         \/ /\ c.kind \in {"create", "open"} /\ ns[s] # NoInode
            /\ length' = IF c.kind = "create" THEN [length EXCEPT ![ns[s]] = 0]
                                              ELSE length
            /\ fds' = [fds EXCEPT ![p][h] = ns[s]]
            /\ UNCHANGED ns
      /\ call' = [call EXCEPT ![p].fd = h]
      /\ pc' = [pc EXCEPT ![p] = IF c.kind = "open" THEN "fstat" ELSE "ftruncate"]
      /\ UNCHANGED <<maps, obj>>

\* shm_open fails: the name exists under O_EXCL, or does not without O_CREAT,
\* or no descriptor is free.  The factory returns an empty region.
shm_open_fails(p) ==
  /\ pc[p] = "shm_open"
  /\ LET exists == ns[normalize_posix_shm_name(call[p].region.name)] # NoInode
     IN  \/ Faults \/ Free(fds, p) = {}
         \/ call[p].kind = "create_exclusive" /\ exists
         \/ call[p].kind = "open" /\ ~exists
  /\ pc' = [pc EXCEPT ![p] = "drop_local"]
  /\ UNCHANGED <<ns, length, fds, maps, obj, call>>

\* ftruncate gives the segment its size.
ftruncate(p) ==
  /\ pc[p] = "ftruncate"
  /\ length' = [length EXCEPT ![fds[p][call[p].fd]] = call[p].region.size]
  /\ pc' = [pc EXCEPT ![p] = "mmap"]
  /\ UNCHANGED <<ns, fds, maps, obj, call>>

\* Mutation: open maps the segment whatever its size is.
mut_fstat_any(p) == TRUE
\* open: the segment has the bytes that the caller will map.
fstat_ok(p) == length[fds[p][call[p].fd]] >= call[p].region.size

fstat(p) ==
  /\ pc[p] = "fstat" /\ fstat_ok(p)
  /\ pc' = [pc EXCEPT ![p] = "mmap"]
  /\ UNCHANGED <<ns, length, fds, maps, obj, call>>

mmap(p) ==
  LET h == Lowest(Free(maps, p))
  IN  /\ pc[p] = "mmap"
      /\ Free(maps, p) # {} /\ call[p].region.size > 0
      /\ maps' = [maps EXCEPT ![p][h] = fds[p][call[p].fd]]
      /\ call' = [call EXCEPT ![p].region.data = h,
                              ![p].region.fd = call[p].fd, ![p].fd = Null]
      /\ pc' = [pc EXCEPT ![p] = "return"]
      /\ UNCHANGED <<ns, length, fds, obj>>

\* Mutation: the error path does not close the descriptor.
mut_step_fails_leaks(p) ==
  /\ pc[p] \in {"ftruncate", "fstat", "mmap"}
  /\ call' = [call EXCEPT ![p].fd = Null]
  /\ pc' = [pc EXCEPT ![p] = IF call[p].kind = "open" THEN "drop_local" ELSE "unlink"]
  /\ UNCHANGED <<ns, length, fds, maps, obj>>

\* ftruncate, fstat (or the size test) or mmap fails: ::close(fd), and a
\* creating factory goes on to unlink the name.
step_fails(p) ==
  /\ \/ pc[p] \in {"ftruncate", "fstat", "mmap"} /\ Faults
     \/ pc[p] = "fstat" /\ ~fstat_ok(p)
     \/ pc[p] = "mmap" /\ (Free(maps, p) = {} \/ call[p].region.size = 0)
  /\ fds' = released(fds, p, call[p].fd)
  /\ call' = [call EXCEPT ![p].fd = Null]
  /\ pc' = [pc EXCEPT ![p] = IF call[p].kind = "open" THEN "drop_local" ELSE "unlink"]
  /\ UNCHANGED <<ns, length, maps, obj>>

\* shm_unlink(posix_name) on the error path.
unlink(p) ==
  /\ pc[p] = "unlink"
  /\ ns' = [ns EXCEPT ![normalize_posix_shm_name(call[p].region.name)] = NoInode]
  /\ pc' = [pc EXCEPT ![p] = "drop_local"]
  /\ UNCHANGED <<length, fds, maps, obj, call>>

\* return SharedMemoryRegion{}: the destructor of the local region runs
\* close() on it.
drop_local(p) ==
  /\ pc[p] = "drop_local"
  /\ close_effects(p, call[p].region)
  /\ call' = [call EXCEPT ![p].region = Empty]
  /\ pc' = [pc EXCEPT ![p] = "return"]
  /\ UNCHANGED <<length, obj>>

\* The caller's move assignment of the result: close() what the object held
\* and take over the members.  The moved-from result goes out of scope.
assign_result(p) ==
  LET x == call[p].target
  IN  /\ pc[p] = "return"
      /\ close_effects(p, obj[x])
      /\ obj' = [obj EXCEPT ![x] = call[p].region]
      /\ call' = [call EXCEPT ![p] = NoCall]
      /\ pc' = [pc EXCEPT ![p] = "idle"]
      /\ UNCHANGED length

\* operator=(SharedMemoryRegion&&) between two objects of one process.
move_assign(x, y) ==
  LET p == Owner[x]
  IN  /\ x # y /\ Owner[y] = p /\ pc[p] = "idle"
      /\ close_effects(p, obj[x])
      /\ obj' = [obj EXCEPT ![x] = obj[y], ![y] = moved(@)]
      /\ UNCHANGED <<length, pc, call>>

\* close(), or the destructor.
close(x) ==
  /\ pc[Owner[x]] = "idle"
  /\ close_effects(Owner[x], obj[x])
  /\ obj' = [obj EXCEPT ![x] = closed(@)]
  /\ UNCHANGED <<length, pc, call>>

\* The process dies and is started again.  The operating system drops its
\* descriptors and mappings; no destructor runs, so the names stay.
crash(p) ==
  /\ fds' = [fds EXCEPT ![p] = [h \in Handle |-> NoInode]]
  /\ maps' = [maps EXCEPT ![p] = [h \in Handle |-> NoInode]]
  /\ obj' = [x \in Object |-> IF Owner[x] = p THEN Empty ELSE obj[x]]
  /\ call' = [call EXCEPT ![p] = NoCall]
  /\ pc' = [pc EXCEPT ![p] = "idle"]
  /\ UNCHANGED <<ns, length>>

-----------------------------------------------------------------------------
Init ==
  /\ ns = [s \in Stem |-> NoInode]
  /\ length = [i \in Inode |-> 0]
  /\ fds = [p \in Proc |-> [h \in Handle |-> NoInode]]
  /\ maps = [p \in Proc |-> [h \in Handle |-> NoInode]]
  /\ obj = [x \in Object |-> Empty]
  /\ pc = [p \in Proc |-> "idle"]
  /\ call = [p \in Proc |-> NoCall]

Next ==
  \/ \E p \in Proc, x \in Object, name \in Name, size \in Size :
       \E kind \in Calls[p] : factory(p, kind, x, name, size)
  \/ \E p \in Proc :
       \/ shm_open(p) \/ shm_open_fails(p) \/ ftruncate(p) \/ fstat(p)
       \/ mmap(p) \/ step_fails(p) \/ unlink(p) \/ drop_local(p)
       \/ assign_result(p) \/ crash(p)
  \/ \E x, y \in Object : move_assign(x, y)
  \/ \E x \in Object : close(x)

Spec == Init /\ [][Next]_vars

-----------------------------------------------------------------------------
(***************************************************************************)
(* Properties.                                                             *)
(***************************************************************************)
Region == [name : Name \cup {NoName}, data : Handle \cup {Null},
           size : Size \cup {0}, is_creator : BOOLEAN, fd : Handle \cup {Null}]

\* Types, and the class invariant behind is_valid(): outside a call, a region
\* without a mapping has no descriptor, no size and no name to unlink.
TypeOK ==
  /\ ns \in [Stem -> Inode \cup {NoInode}] /\ length \in [Inode -> Size \cup {0}]
  /\ fds \in [Proc -> [Handle -> Inode \cup {NoInode}]]
  /\ maps \in [Proc -> [Handle -> Inode \cup {NoInode}]]
  /\ obj \in [Object -> Region]
  /\ \A x \in Object : ~is_valid(obj[x]) => closed(obj[x]) = obj[x] /\ obj[x].size = 0
  /\ \A p \in Proc : call[p].region \in Region /\ call[p].fd \in Handle \cup {Null}
  /\ pc \in [Proc -> {"idle", "shm_open", "ftruncate", "fstat", "mmap",
                      "unlink", "drop_local", "return"}]

Objects(p) == {x \in Object : Owner[x] = p}

\* The descriptors, and the mappings, that some variable of p will release.
HeldFds(p) ==
  ({obj[x].fd : x \in Objects(p)} \cup {call[p].region.fd, call[p].fd}) \ {Null}
HeldMaps(p) ==
  ({obj[x].data : x \in Objects(p)} \cup {call[p].region.data}) \ {Null}

\* On every path through the factories, the failing ones too, and through
\* moves and closes, each descriptor and each mapping of a process has
\* exactly one owner: nothing leaks and nothing is closed twice.  A valid
\* region's descriptor and mapping are of one segment.
HandlesOwned ==
  \A p \in Proc :
    /\ {h \in Handle : fds[p][h] # NoInode} = HeldFds(p)
    /\ {h \in Handle : maps[p][h] # NoInode} = HeldMaps(p)
    /\ \A x, y \in Objects(p) : x # y =>
         /\ obj[x].fd = obj[y].fd => obj[x].fd = Null
         /\ obj[x].data = obj[y].data => obj[x].data = Null
    /\ \A x \in Objects(p) :
         is_valid(obj[x]) => maps[p][obj[x].data] = fds[p][obj[x].fd]

LiveCreator(x) == is_valid(obj[x]) /\ obj[x].is_creator

\* A name leads to the segment of its live creator: processes that open it
\* attach to the segment the creator uses, not to none and not to another.
Reachable ==
  \A x \in Object : LiveCreator(x) =>
    ns[normalize_posix_shm_name(obj[x].name)] = maps[Owner[x]][obj[x].data]

\* At most one live region was created under a name.
ExclusiveCreator ==
  \A x, y \in Object : LiveCreator(x) /\ LiveCreator(y) /\ x # y =>
    normalize_posix_shm_name(obj[x].name) # normalize_posix_shm_name(obj[y].name)

\* Every byte that a valid region maps exists: no access through data() hits
\* a hole, although open checks the size in one step and maps in another.
Backed ==
  \A x \in Object : is_valid(obj[x]) =>
    length[maps[Owner[x]][obj[x].data]] >= obj[x].size

=============================================================================
