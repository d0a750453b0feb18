----------------------------- MODULE MCFileSys -----------------------------
(***************************************************************************)
(* Blocks of 2 cells and one direct block: the root directory needs its    *)
(* indirect block for the first file and a file needs one for the third    *)
(* cell.  A write of 3 cells takes two transactions.                       *)
(***************************************************************************)
EXTENDS FileSys

\* one file, two descriptors, on a disk with room for it
OneName   == {"a"}
OneByte   == {1}
OneDisk   == 1..6
OneWrites == {<<1>>, <<1, 1, 1>>}
\* "/", "a", "./a", "a/a"
OnePaths  == {Path(<<>>), Path(<<"a">>), Path(<<".", "a">>), Path(<<"a", "a">>)}

\* three files and one descriptor, on a disk that one file of the largest size (6
\* cells) and the directory fill; the cache has a slot for root, one for the open file,
\* and one for the file that open looks at.  Nothing tells the names apart
TwoBytes  == {1, 2}
SmallDisk == 1..7
FullWrites == {<<>>, <<1, 2>>, <<2, 1, 2>>}
FilePaths == {Path(<<n>>) : n \in Name}
AnyName   == Permutations(Name)

SomeModes == {{}, {"O_RDWR", "O_CREATE"}, {"O_WRONLY", "O_TRUNC"}}
OneCount  == {3}

\* the empty path
EmptyPaths == {EmptyPath}

\* `ret' tells the last result only: no step depends on it
AllButRet == <<fs, ftable, ofile, call>>
=============================================================================
