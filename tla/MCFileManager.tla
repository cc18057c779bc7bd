---------------------------- MODULE MCFileManager ----------------------------
(* Small volumes and the scenarios that exercise them.                      *)
EXTENDS FileManager

Name(key, body, loss, ents) == [key |-> key, fn |-> <<body, 0>>, loss |-> loss, ents |-> ents]
MCNameInfo == [A |-> Name("A", 1, FALSE, 0), D |-> Name("D", 2, FALSE, 0),
               L1 |-> Name("L1", 3, TRUE, 1), L2 |-> Name("L2", 3, TRUE, 1)]

Abs(segs) == [abs |-> TRUE, segs |-> segs]
Rel(segs) == [abs |-> FALSE, segs |-> segs]
A == Abs(<<"A">>)
L1 == Abs(<<"L1">>)
L2 == Abs(<<"L2">>)
D == Abs(<<"D">>)
DA == Abs(<<"D", "A">>)
DL1 == Abs(<<"D", "L1">>)

File(p, data) == [do |-> "file", path |-> p, data |-> data]
Mk(p) == [do |-> "mkdir", path |-> p]

Scenario(setup, n, ops, paths) ==
    [types |-> {"FAT12", "FAT16", "FAT32"}, disks |-> {FALSE}, budgets |-> {Unlimited},
     setup |-> setup, lost |-> {NoSect}, steps |-> n, ops |-> ops, paths |-> paths, modes |-> {},
     lengths |-> {}, seeks |-> {}, data |-> {}]
Seek(whence, offset) == [whence |-> whence, offset |-> offset]

(* One or two files on a volume that can be filled.                         *)
Contents ==
    [Scenario(<<File(A, <<1, 2, 3>>), Mk(D)>>, 4,
        {"open", "close", "read", "write", "lseek", "ftruncate", "pread", "pwrite", "unlink", "fstat"},
        {A, L1}) EXCEPT
        !.types = {"FAT32"}, !.modes = {"r", "rw", "a", "wr"}, !.lengths = {0, 3, 6},
        !.seeks = {Seek("SEEK_SET", 2), Seek("SEEK_SET", -1), Seek("SEEK_CUR", 0), Seek("SEEK_CUR", -1), Seek("SEEK_END", 8)},
        !.data = {<<4>>, <<5, 6, 7, 8, 9>>}]

(* Long names that need numbers, in a directory that must grow.             *)
Names ==
    Scenario(<<File(L1, <<1>>), Mk(D), File(DL1, <<2>>)>>, 3,
        {"mkdir", "unlink", "rename", "stat"}, {L1, L2, D, DL1})

(* Paths are looked up, the root and a relative one among them.             *)
Lookups ==
    Scenario(<<File(L1, <<1>>), Mk(D)>>, 2,
        {"mkdir", "unlink", "chdir", "access", "utimes"}, {Abs(<<>>), L1, D, DL1, Rel(<<"..", "L1">>)})

(* A directory is listed while it changes.                                  *)
Listings ==
    [Scenario(<<Mk(D), File(DA, <<1>>), File(DL1, <<>>)>>, 4,
        {"mkdir", "unlink", "rename", "opendir", "readdir", "closedir", "chdir", "getcwd"},
        {D, DA, DL1, Rel(<<"..", "A">>)}) EXCEPT !.types = {"FAT32"}]

(* The host stops accepting writes after any sector, or the enclave dies    *)
(* between two calls.                                                       *)
Crashes ==
    [Scenario(<<Mk(D), File(DA, <<1>>), File(A, <<1, 2, 3, 1, 2>>)>>, 4,
        {"open", "close", "write", "ftruncate", "mkdir", "unlink", "rename", "restart"},
        {A, DL1}) EXCEPT
        !.types = {"FAT12", "FAT32"}, !.disks = {TRUE}, !.budgets = {Unlimited} \cup 1 .. 9,
        !.lost = {NoSect, rootbase, clst2sect(2), clst2sect(4) + 1},
        !.modes = {"a", "w"}, !.lengths = {1}, !.data = {<<5, 6, 7, 8, 9>>}]

(* A file is opened for reading again and again while it is written.        *)
Readers ==
    [Scenario(<<>>, 6, {"open", "close", "read", "write"}, {A}) EXCEPT
        !.modes = {"w", "r"}, !.lengths = {1}, !.data = {<<4>>}]

MCReaders == {Readers}
MCScenarios == {Contents, Names, Lookups, Listings, Crashes}
=============================================================================
