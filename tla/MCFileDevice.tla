---------------------------- MODULE MCFileDevice ----------------------------
(* An instance of FileDevice for TLC.                                        *)
EXTENDS FileDevice, TLC

CONSTANTS f1, f2                    \* the devices
CONSTANTS root, top, beside, sub    \* /, /a, /ab and /a/sub
CONSTANTS x, y, z, o                \* a file in each, o in the root
CONSTANTS n1, n2, n3

BothDevices == {f1, f2}
Files    == {x, y, z, o}
Dirs     == {root, top, beside, sub}
Parents  == root :> root @@ top :> root @@ beside :> root @@ sub :> top
            @@ x :> top @@ y :> sub @@ z :> beside @@ o :> root
AtFirst  == {root, top, beside}
AsTop    == {top, beside, sub, x, y, z}
Inodes   == {n1, n2, n3}
Lengths  == {1, 2}

To(way)      == [way |-> way, slash |-> FALSE]
Slashed(way) == [way |-> way, slash |-> TRUE]

\* A ROM that reads and writes one file, and one that makes directories and empty
\* files and lists them, by names that lead up, beside the sandbox, out of it from the
\* root, and up again from a directory that may not be there.
OneFile  == [names  |-> {NoName, To(<<top, x>>), To(<<top, root, o>>)},
             blocks |-> {<<1>>, <<2, 1>>}]
Listings == [names  |-> {To(<<top, top>>), To(<<top, sub>>), Slashed(<<top, sub>>),
                         To(<<top, sub, y>>), To(<<top, root, beside, z>>),
                         To(<<root, o>>), To(<<top, sub, top, root, o>>)},
             blocks |-> {<<>>}]
FileOrListings == {OneFile, Listings}

\* The devices are alike.
DeviceSymmetry == Permutations(Device)
=============================================================================
