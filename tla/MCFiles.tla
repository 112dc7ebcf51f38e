------------------------------- MODULE MCFiles -------------------------------
(***************************************************************************)
(* The programs about files, for TLC: one of them is run, the others have  *)
(* ended.                                                                  *)
(***************************************************************************)
EXTENDS FifoCopy

VARIABLES main, start, offset, odd, at, data, pos, o_append, count, copy,
          existing, inherited, place, fd, fd1, fd2, string, printed,
          setuid, saved_ids, creators, turn, ids, round, written, fds, file,
          fs, dotted, arg, todo, path, buf1, buf2, flag, strs, stage

CONSTANTS Players, Owner, WriteMayFail,
          Contents, Offsets,           \* of FileOffsets
          Names, Targets, Arguments    \* of RealPath

(* Files that are empty, longer than truncate's offsets, and longer than   *)
(* what hole_in_file writes; in two of them bytes that may pass for EOF.   *)
MCContents ==
  {<< >>,
   [k \in 1 .. 12 |-> IF k \in {10, 11} THEN 255 ELSE k],
   [k \in 1 .. 45 |-> IF k \in {25, 30} THEN 255 ELSE IF k = 24 THEN 0 ELSE k]}

MCOffsets == {-1, 0, 5, 12, 15}

(* Links to a file or a link beside them, in the directory below, and in   *)
(* the one above.                                                          *)
MCTargets == {<<"a">>, <<"b">>, <<"dir", "a">>, <<"..", "b">>}

MCArguments == {<< >>, <<"a">>, <<"dir", "a">>}

Moves == INSTANCE FileOffsets
Dups == INSTANCE Redirect
Play == INSTANCE Game WITH at <- turn
Paths == INSTANCE RealPath

(* A file is a sequence of bytes, and paths end in a name; a program that  *)
(* is not run has an empty file and no argument.                           *)
ASSUME FilesAssumption ==
  /\ \A c \in Contents : c \in Seq(0 .. 255)
  /\ \A p \in Offsets : p \in Int
  /\ << >> \in Contents /\ << >> \in Arguments
  /\ Play!GameAssumption
  /\ Paths!PathsAssumption

movesVars == <<main, start, offset, odd, at, data, pos, o_append, count, copy>>
dupsVars == <<existing, inherited, place, fd, fd1, fd2, string, printed>>
playVars == <<setuid, saved_ids, creators, turn, ids, round, written, fds, file>>
pathsVars == <<fs, dotted, arg, todo, path, buf1, buf2, flag, strs, stage>>
all == <<vars, movesVars, dupsVars, playVars, pathsVars>>

FifoEnded ==
  /\ pc = [client |-> "failed", server |-> "failed"]
  /\ empty = {} /\ unterminated = FALSE /\ fifo = TRUE /\ met = FALSE
  /\ gotten = 0 /\ pipe = << >> /\ received = << >>

MovesEnded ==
  /\ main = "append" /\ start = << >> /\ offset = 0 /\ odd = FALSE
  /\ at = "failed" /\ data = << >> /\ pos = 0 /\ o_append = FALSE
  /\ count = 0 /\ copy = << >>

DupsEnded ==
  /\ existing = {} /\ place = "failed" /\ fd1 = -1 /\ fd2 = -1
  /\ fd = [d \in Dups!Descriptors |-> "closed"] /\ inherited = fd
  /\ string = "nowhere" /\ printed = "nowhere"

PlayEnded ==
  /\ setuid = FALSE /\ saved_ids = FALSE /\ creators = {}
  /\ turn = [p \in Players |-> "done"]
  /\ ids = [p \in Players |-> [real |-> p, eff |-> p, saved |-> p]]
  /\ round = [p \in Players |-> Play!Rounds + 1]
  /\ written = [p \in Players |-> 0]
  /\ fds = [p \in Players |-> {}]
  /\ file = [f \in Play!Files |-> [owner |-> Play!Nobody, pieces |-> << >>]]

(* The players are alike: which of them "own" belongs to does not matter.  *)
PlayInit ==
  /\ Play!Init
  /\ file["own"].owner \in {Play!Nobody, CHOOSE p \in Players : TRUE}

PathsEnded ==
  /\ fs = [l \in Paths!Locations |-> Paths!File]
  /\ dotted = FALSE /\ arg = << >> /\ todo = {} /\ path = << >>
  /\ buf1 = Paths!Uninitialised /\ buf2 = Paths!Uninitialised
  /\ flag = FALSE /\ strs = << >> /\ stage = "printed"

MCInit ==
  \/ Init /\ MovesEnded /\ DupsEnded /\ PlayEnded /\ PathsEnded
  \/ FifoEnded /\ Moves!Init /\ DupsEnded /\ PlayEnded /\ PathsEnded
  \/ FifoEnded /\ MovesEnded /\ Dups!Init /\ PlayEnded /\ PathsEnded
  \/ FifoEnded /\ MovesEnded /\ DupsEnded /\ PlayInit /\ PathsEnded
  \/ FifoEnded /\ MovesEnded /\ DupsEnded /\ PlayEnded /\ Paths!Init

MCNext ==
  \/ Next /\ UNCHANGED <<movesVars, dupsVars, playVars, pathsVars>>
  \/ Moves!Next /\ UNCHANGED <<vars, dupsVars, playVars, pathsVars>>
  \/ Dups!main /\ UNCHANGED <<vars, movesVars, playVars, pathsVars>>
  \/ Play!Next /\ UNCHANGED <<vars, movesVars, dupsVars, pathsVars>>
  \/ Paths!Next /\ UNCHANGED <<vars, movesVars, dupsVars, playVars>>

MCSpec ==
  /\ MCInit
  /\ [][MCNext]_all
  /\ Fairness
  /\ Paths!Fairness

-----------------------------------------------------------------------------
(* The type invariants of the programs.                                    *)
TypesOK ==
  TypeOK /\ Moves!TypeOK /\ Dups!TypeOK /\ Play!TypeOK /\ Paths!TypeOK

(* append.c, truncate.c, rdwr.c, hole_in_file.c, child_file_handle.c: what *)
(* they overwrite and what they add.                                       *)
FilesAreRight == Moves!OnlyOverwrites /\ Moves!ResultIsRight

(* truncate.c is said to truncate a file to the length it is given; it     *)
(* fills the file with zeros to one past the offset instead.               *)
TruncatesToLength == Moves!TruncatesToLength

(* redirect.c reads from and writes to the two files, or fails.            *)
RedirectsOrFails == Dups!RedirectsOrFails

(* game.c: the players' lines are whole, in turn, and in the right file.   *)
PlayersTakeTurns == Play!PlayersTakeTurns /\ Play!NothingIsLost

(* realpath.c resolves links that stay in their directory.                 *)
ResolvesLinks == Paths!ResolvesLinks

(* The two ends of the FIFO end together; realpath ends where there is no  *)
(* cycle of links.                                                         *)
ProgramsEnd == BothEnd /\ Paths!EndsWithoutCycle
=============================================================================
