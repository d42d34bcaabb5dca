---------------------------- MODULE MCSlicePool ----------------------------
(***************************************************************************)
(* CancelledPool with the slices in the order of their rowids.             *)
(*                                                                         *)
(* Before the slices are saved the program has read its arguments, its     *)
(* configuration, lists of files and access rights, and has chosen the     *)
(* slices to take apart: functions of their input, which this run          *)
(* evaluates over all their cases in its initial state.                    *)
(***************************************************************************)
EXTENDS CancelledPool

Startup == INSTANCE StartupCases
Path    == INSTANCE PathCases
Rights  == INSTANCE AclCases
Optimum == INSTANCE SkewCases

CONSTANTS s1, s2, s3

\* load2queue reads the slices in the order of their rowids
MCInit == CancelInit /\ rowids = <<s1, s2, s3>>

MCSpec ==
    /\ MCInit /\ [][CancelNext]_cancelVars
    /\ WF_cancelVars(Main /\ CancelNext)
    /\ \A w \in Workers : WF_cancelVars(slices2disk(w) /\ CancelNext)

----------------------------------------------------------------------------
AtStart == Init

\* argparse_parse finds options wherever they stand: two groups of options and a word in any
\* order give the same CONFIG and leave the same arguments
OptionsAnywhere == AtStart => Startup!Displaced = {}

\* What a command relies on when initProgram returns: the backup disk follows the data disks
\* and is the working directory if it is there; sync has every disk, each on a device of its
\* own; restore has every disk but the lost one, which is redirected to the destination.  The
\* lines of the configuration may stand in any order.  Start-up ends without a message only for
\* a restore without destination or with every cell of diskDesc used, and for a disk that is
\* not mounted.
ReadyIsConsistent == AtStart => Startup!Inconsistent \cup Startup!OrderDependent \cup Startup!Unexplained = {}

\* Links and empty directories survive scan, D<idx>.lnk and database: a restore calls symlink or
\* link for every link, and for nothing else, with its place at the destination and the target it
\* had - at the destination too if that was on the lost disk.  Those whose directory is there are
\* made, no others (linux.cpp:395 creates no directory).  What is listed as an empty directory is
\* every directory without files.  Left out: a target on a disk mounted inside the lost one when
\* the destination is another directory.
LinksRestored == AtStart => Path!WrongLinks = {}

\* Each argument selects by itself, whatever the others are, as long as the quoted ones come
\* last; with an owner given, only that owner's files are selected
FilterSelects == AtStart => Path!Mixed = {}

\* A name quoted for the shell is one word for it and the same name, whatever blanks and
\* quotation marks it has, if there is room for the quoting
QuotedIsOneWord == AtStart => Path!Broken = {}

\* The owner a rebuild or refresh writes into the database (updateOwners, with grep over the .acl
\* files): every file named there gets the one of its own block, and no other file gets one,
\* whatever other files are there and whatever their names begin with.  It is the text of the
\* line with its newline (backup.cpp:1478), so never the text a scan stores; its number is the
\* one the filter owner= finds (getFileOwner).
OwnersAgree == AtStart => Rights!Disagree = {}

\* restoreACL for a user who does not own the file: the block does not change owner and group, and
\* setfacl is given its entries, those of the archived owner and group by their numbers too.
\* Where the destination has no access control lists, the mask and the entries of other users
\* and groups are left out and nothing else (linux.cpp:362).  The archived owner's user:: entry
\* goes to the restoring user either way.  Root and the owner get the block as it is.  Left
\* out: an owner or group that is root.
AclKeepsRights == AtStart => Rights!Lost = {}

\* The slices prepareForPlan takes apart to fill the holes of a sync are judged by sizes they
\* have: the first one by all of them, no later one by more than it has, and none is taken twice.
\* A later one may be judged by less: the row that ended the one before is all that is counted.
JudgedByOwnSizes == AtStart => Optimum!Overrated = {}
=============================================================================
