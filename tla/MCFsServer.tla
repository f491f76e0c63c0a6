------------------------------ MODULE MCFsServer ------------------------------
(* TLC instance of FsServer: each behaviour tries the requests of one profile.   *)
EXTENDS FsServer

CONSTANT Profiles    \* the profiles tried
VARIABLE profile     \* the profile of this behaviour

\* "A" and "a" have one key.
MCNames == {"a", "A", "dev", "dd", "os", "tmp", "0", "1", "con", "null"}
MCFold == [n \in MCNames |-> IF n = "A" THEN "a" ELSE n]

\* Drive 0 is the boot drive, drive 1 a read-only FS2 volume or DSFS; /tmp does not fit in memory.
Machine(k) == [drives |-> [d \in {"0", "1"} |-> IF d = "0" THEN "fs2" ELSE k], boot |-> "0", tmp |-> FALSE]
MCMachines == {Machine("fs2ro"), Machine("dsfs")}
DiskWithDir == T!AfterCreate(T!InitTree, 1, "a", "dir", 0)
MCDisks == [v \in {"0", "1"} |-> IF v = "1" THEN DiskWithDir ELSE T!InitTree]
MCDsfs == <<"a">>

Abs(comps) == [abs |-> TRUE, comps |-> comps, slash |-> FALSE]
Rel(comps) == [abs |-> FALSE, comps |-> comps, slash |-> FALSE]
Slash(p) == [p EXCEPT !.slash = TRUE]
Menus ==
  [names  |-> [ops |-> {"open", "change", "rename", "cwd"}, flags |-> {{"write", "create"}},
               paths |-> {Abs(<<"a">>), Abs(<<"dd", "0", "a">>), Rel(<<"A">>), Rel(<<"..", "dev">>)}],
   lists  |-> [ops |-> {"list", "change", "rename"}, flags |-> {},
               paths |-> {Abs(<<>>), Slash(Abs(<<"A">>)), Abs(<<"1">>), Abs(<<"dd", "0", "dev">>), Abs(<<"dd", "0", "1">>), Abs(<<"dd">>)}],
   owners |-> [ops |-> {"open"}, flags |-> {{"write"}}, paths |-> {Abs(<<"dev", "null">>)}],
   data   |-> [ops |-> {"open", "data"}, paths |-> {Abs(<<"a">>), Abs(<<"dd", "1", "a">>)},
               flags |-> {{"read"}, {"write", "create", "trunc"}, {"write", "append"}}]]
MCMenu == Menus.names

\* Late requests belong to the profile of the owners.
Calm == late' = {} /\ lookups' <= 1
\* One object at a time besides the session, and two in all; a full table is met by the owners.
Few == Cardinality(LiveObjs(objs')) <= 2 /\ next_badge' <= 2
Spare == T!FreeInodes(trees'["0"]) # {}

MCInit == Init /\ profile \in Profiles /\ (mounts["1"].kind = "dsfs" <=> profile = "data")
MCNext ==
  /\ profile' = profile
  /\ SvcLookup \/ \E b \in AllBadges : Close(b) \/ Gone(b) \/ Request(b, Menus[profile])
  /\ profile = "owners" \/ Calm
  /\ profile \in {"owners", "data"} \/ Few
  /\ profile # "names" \/ Spare
  /\ profile # "data" \/ next_badge' <= 3
MCSpec == MCInit /\ [][MCNext]_<<vars, profile>>
===============================================================================
