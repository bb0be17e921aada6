------------------------------ MODULE MCStorage -----------------------------
(***************************************************************************)
(* The components that keep data, for model checking: the log, the blocks  *)
(* of files, the buffer cache with its disk, the console's input, and the  *)
(* file server.  A behaviour is one of one component; the others stay as   *)
(* they start.                                                             *)
(***************************************************************************)
EXTENDS Log, FileData, BufCache, Console, FileServer, TLC

CONSTANTS p1, p2, p3

VARIABLES
    part,
    rpc, rwrote, rheld, rlh, routs, rcommit, rtail, rcache, rdirty, rdisk, rhead, rboot

\* The log for system calls that keep two blocks of their reservation unused:
\* as many home blocks as the log holds, and no crashes.
Room == INSTANCE Log WITH
    NHome <- 6, Val <- {0}, MAXOPBLOCKS <- 3, LOGSIZE <- 6, NLog <- 6, Crashes <- FALSE,
    pc <- rpc, wrote <- rwrote, held <- rheld, lh <- rlh, outstanding <- routs,
    committing <- rcommit, tail <- rtail, cache <- rcache, dirty <- rdirty, disk <- rdisk,
    head <- rhead, boot <- rboot

roomvars == <<rpc, rwrote, rheld, rlh, routs, rcommit, rtail, rcache, rdirty, rdisk, rhead, rboot>>

\* Where calls leave two blocks of their reservation, it is enough: log_write()
\* never panics with "too big a transaction", and no block of a commit goes past
\* the end of the log (log.c: write_log()).
LogHasRoom == Room!NoPanic /\ Room!InLogArea

\* Type correctness of the components.
StTypes == TypeOK /\ FdTypeOK /\ BcTypeOK /\ ConsTypeOK

ThreeProcs == {p1, p2, p3}

\* Client 2 shares a block with client 1, and has one that fits in no free buffer.
MCUses == <<{1, 2, 3}, {3, 4}>>

StInit ==
    /\ part \in {"log", "data", "cache", "console", "server", "room"}
    /\ Init /\ FdInit /\ BcInit /\ ConsInit /\ FsInit /\ Room!Init
    /\ part # "log" => \A x \in DOMAIN disk : disk[x] = 0
    /\ part # "console" => pos = 0

\* The bounds on calls and keys let these parts stop.
StStop == part \notin {"log", "room"} /\ UNCHANGED <<part, vars, fdvars, bcvars, consvars, fsvars, roomvars>>

StNext ==
    \/ part = "log"     /\ Next     /\ UNCHANGED <<part, fdvars, bcvars, consvars, fsvars, roomvars>>
    \/ part = "data"    /\ FdNext   /\ UNCHANGED <<part, vars, bcvars, consvars, fsvars, roomvars>>
    \/ part = "cache"   /\ BcNext   /\ UNCHANGED <<part, vars, fdvars, consvars, fsvars, roomvars>>
    \/ part = "console" /\ ConsNext /\ UNCHANGED <<part, vars, fdvars, bcvars, fsvars, roomvars>>
    \/ part = "server"  /\ FsNext   /\ UNCHANGED <<part, vars, fdvars, bcvars, consvars, roomvars>>
    \/ part = "room"    /\ Room!Next /\ UNCHANGED <<part, vars, fdvars, bcvars, consvars, fsvars>>
    \/ StStop

StSpec == StInit /\ [][StNext]_<<part, vars, fdvars, bcvars, consvars, fsvars, roomvars>>
=============================================================================
