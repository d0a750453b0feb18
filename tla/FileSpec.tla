------------------------------ MODULE FileSpec ------------------------------
(***************************************************************************)
(* What open, read, write, close, dup and fstat promise to their callers,  *)
(* without blocks, inodes or caches: numbered files that are sequences of  *)
(* cells, a root directory that is one of them, and descriptors that share *)
(* an offset with their duplicates.  Every call may also fail with -1 and  *)
(* change nothing, for want of a table entry or because it makes no sense. *)
(***************************************************************************)
EXTENDS Integers, FiniteSets, SequencesExt

CONSTANTS
  File,          \* the numbers of files
  Root,          \* the number of the root directory
  Fd,            \* file descriptors
  Desc,          \* open file descriptions
  Name,          \* the names of files
  Chunk,         \* the cells a step of write transfers at most
  Entry(_, _),   \* the directory entry of a file number and a name
  Fresh          \* the contents of the directory of an empty file system

VARIABLES
  data,          \* contents of the files that exist, a function
  fds,           \* a description of Desc, or 0, for each descriptor
  desc,          \* the descriptions in use: file, offset, permissions
  todo,          \* what the write call in progress has still to write
  ret            \* the last result

fsvars == <<data, fds, desc, todo, ret>>

Closed == [file |-> 0, off |-> 0, r |-> FALSE, w |-> FALSE]
Idle == [d |-> 0, n |-> 0, cells |-> <<>>]
Answer(v, got) == [v |-> v, got |-> got]
Overlay(old, off, new) ==
  SubSeq(old, 1, off) \o new \o SubSeq(old, off + Len(new) + 1, Len(old))

Empty == [f \in {Root} |-> Fresh]

FSInit ==
  /\ data = Empty
  /\ fds = [fd \in Fd |-> 0]
  /\ desc = [d \in Desc |-> Closed]
  /\ todo = Idle
  /\ ret = Answer(0, <<>>)

Fail ==
  /\ todo = Idle
  /\ ret' = Answer(-1, <<>>)
  /\ UNCHANGED <<data, fds, desc, todo>>

\* a new entry in the directory for a new, empty file
Created(f, name) ==
  [g \in DOMAIN data \cup {f} |->
     IF g = f THEN <<>>
     ELSE IF g = Root THEN Append(data[Root], Entry(f, name))
     ELSE data[g]]

CreateOnly(f, name) ==
  /\ todo = Idle
  /\ f \notin DOMAIN data
  /\ \A k \in 1..Len(data[Root]) : \A g \in File : data[Root][k] # Entry(g, name)
  /\ data' = Created(f, name)
  /\ ret' = Answer(-1, <<>>)
  /\ UNCHANGED <<fds, desc, todo>>

\* open an existing file, emptied or as it is, or one that is created
Open(fd, d, f, r, w) ==
  /\ todo = Idle
  /\ fds[fd] = 0 /\ desc[d] = Closed
  /\ \/ f \in DOMAIN data /\ data' = data
     \/ f \in DOMAIN data \ {Root} /\ data' = [data EXCEPT ![f] = <<>>]
     \/ \E name \in Name :
          /\ f \notin DOMAIN data
          /\ \A k \in 1..Len(data[Root]) : \A g \in File : data[Root][k] # Entry(g, name)
          /\ data' = Created(f, name)
  /\ f = Root => ~w
  /\ fds' = [fds EXCEPT ![fd] = d]
  /\ desc' = [desc EXCEPT ![d] = [file |-> f, off |-> 0, r |-> r, w |-> w]]
  /\ ret' = Answer(fd, <<>>)
  /\ UNCHANGED todo

Dup(fd, new) ==
  /\ todo = Idle
  /\ fds[fd] # 0 /\ fds[new] = 0
  /\ fds' = [fds EXCEPT ![new] = fds[fd]]
  /\ ret' = Answer(new, <<>>)
  /\ UNCHANGED <<data, desc, todo>>

Close(fd) ==
  /\ todo = Idle
  /\ fds[fd] # 0
  /\ fds' = [fds EXCEPT ![fd] = 0]
  /\ desc' = IF \E g \in Fd : fds'[g] = fds[fd] THEN desc
             ELSE [desc EXCEPT ![fds[fd]] = Closed]
  /\ ret' = Answer(0, <<>>)
  /\ UNCHANGED <<data, todo>>

Read(fd) ==
  /\ todo = Idle
  /\ fds[fd] # 0
  /\ desc[fds[fd]].r
  /\ LET o   == desc[fds[fd]]
         got == ret'.got
     IN  /\ Len(got) = ret'.v
         /\ got # <<>> => o.off + Len(got) <= Len(data[o.file])
         /\ got = SubSeq(data[o.file], o.off + 1, o.off + Len(got))
         /\ desc' = [desc EXCEPT ![fds[fd]].off = @ + Len(got)]
  /\ UNCHANGED <<data, fds, todo>>

Stat(fd) ==
  /\ todo = Idle
  /\ fds[fd] # 0
  /\ ret'.v = 0
  /\ ret'.got = <<Entry(desc[fds[fd]].file, ""),
                  Entry(Len(data[desc[fds[fd]].file]), "")>>
  /\ UNCHANGED <<data, fds, desc, todo>>

WriteBegin(fd) ==
  /\ todo = Idle
  /\ fds[fd] # 0
  /\ desc[fds[fd]].w
  /\ \/ /\ todo'.d = fds[fd] /\ todo'.n = Len(todo'.cells)
        /\ UNCHANGED ret
     \/ ret' = Answer(0, <<>>) /\ UNCHANGED todo          \* nothing to write
  /\ UNCHANGED <<data, fds, desc>>

\* a step of write: its cells appear at the offset, all of them together
WriteStep ==
  /\ todo # Idle
  /\ LET d    == todo.d
         o    == desc[d]
         m    == Min({Chunk, Len(todo.cells)})
     IN  /\ o.off <= Len(data[o.file])
         /\ data' = [data EXCEPT ![o.file] =
                       Overlay(@, o.off, SubSeq(todo.cells, 1, m))]
         /\ desc' = [desc EXCEPT ![d].off = @ + m]
         /\ IF m = Len(todo.cells)
              THEN todo' = Idle /\ ret' = Answer(todo.n, <<>>)
              ELSE /\ todo' = [todo EXCEPT !.cells = SubSeq(@, m + 1, Len(@))]
                   /\ ret' = ret
  /\ UNCHANGED fds

\* write gives up; what it wrote so far stays
WriteFail ==
  /\ todo # Idle
  /\ todo' = Idle
  /\ ret' = Answer(-1, <<>>)
  /\ UNCHANGED <<data, fds, desc>>

Crash ==
  /\ data' \in {data, Empty}
  /\ fds' = [fd \in Fd |-> 0]
  /\ desc' = [d \in Desc |-> Closed]
  /\ todo' = Idle
  /\ ret' = Answer(0, <<>>)

FSNext ==
  \/ Fail \/ Crash \/ WriteStep \/ WriteFail
  \/ \E f \in File, name \in Name : CreateOnly(f, name)
  \/ \E fd \in Fd, d \in Desc, f \in File, r \in BOOLEAN, w \in BOOLEAN :
       Open(fd, d, f, r, w)
  \/ \E fd \in Fd, new \in Fd : Dup(fd, new)
  \/ \E fd \in Fd : Close(fd) \/ Read(fd) \/ Stat(fd) \/ WriteBegin(fd)

FSSpec == FSInit /\ [][FSNext]_fsvars
=============================================================================
