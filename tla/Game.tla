-------------------------------- MODULE Game ---------------------------------
(***************************************************************************)
(* assignment_7/game.c: a set-user-id program that writes four lines, the  *)
(* odd ones to the player's file "own", the even ones to the file "scores" *)
(* of the program's owner, by switching its effective user.  Players run   *)
(* it at the same time, in one directory.  Files are created 0644: their   *)
(* owner alone may write to them (no player is root), and no disk is full. *)
(***************************************************************************)
EXTENDS Integers, Sequences

CONSTANTS Players,   \* user ids of the players, each of whom runs one process
          Owner      \* user id of the owner of the program

Nobody == "nobody"   \* the owner of a file that does not exist

(* The owner of the program is not one of those who play. *)
GameAssumption == Owner \notin Players /\ Nobody \notin Players \union {Owner}

Files == {"own", "scores"}
Rounds == 4

VARIABLES setuid,     \* whether the program has its set-user-id bit
          saved_ids,  \* whether it was compiled with _POSIX_SAVED_IDS
          creators,   \* the users who may create files in the directory
          at,         \* per player: where it is
          ids,        \* its real, effective and saved user id
          round,      \* i
          written,    \* how many of the six writes of a round it has made
          fds,        \* the files it has opened for this round
          file        \* owner and contents of the files, in pieces

vars == <<setuid, saved_ids, creators, at, ids, round, written, fds, file>>

(* ruid and euid of main. *)
ruid(p) == p
euid(p) == IF setuid THEN Owner ELSE p

Init ==
  /\ setuid \in BOOLEAN
  /\ saved_ids \in BOOLEAN
  /\ creators \in {{}, Players \union {Owner}}
  /\ at = [p \in Players |-> "own"]
  /\ ids = [p \in Players |-> [real |-> p, eff |-> euid(p), saved |-> euid(p)]]
  /\ round = [p \in Players |-> 1]
  /\ written = [p \in Players |-> 0]
  /\ fds = [p \in Players |-> {}]
  /\ \E own \in Players \union {Nobody}, scores \in {Owner, Nobody} :
       file = [own |-> [owner |-> own, pieces |-> << >>],
               scores |-> [owner |-> scores, pieces |-> << >>]]

-----------------------------------------------------------------------------
(* seteuid(e) and setreuid(r, e), which users who are not root may call    *)
(* only with ids they have; what they change if they may.                  *)
seteuid(id, e) ==
  IF e \in {id.real, id.saved} THEN [id EXCEPT !.eff = e] ELSE id

setreuid(id, r, e) ==
  IF r \in {id.real, id.eff} /\ e \in {id.real, id.eff, id.saved}
    THEN [real |-> r, eff |-> e, saved |-> e] ELSE id

(* Mutant of undo_setuid: it leaves the effective user id as it is. *)
undo_nothing(p) == ids[p]

undo_setuid(p) ==
  IF saved_ids THEN seteuid(ids[p], ruid(p)) ELSE setreuid(ids[p], euid(p), ruid(p))

do_setuid(p) ==
  IF saved_ids THEN seteuid(ids[p], euid(p)) ELSE setreuid(ids[p], ruid(p), euid(p))

(* open(f, O_WRONLY | O_CREAT | O_TRUNC, 0644) by a process with id. *)
Truncated(f, id) ==
  CASE file[f].owner = id.eff -> [file EXCEPT ![f].pieces = << >>]
    [] file[f].owner = Nobody /\ id.eff \in creators ->
         [file EXCEPT ![f] = [owner |-> id.eff, pieces |-> << >>]]
    [] OTHER -> file

-----------------------------------------------------------------------------
(* The files are made, or emptied, one as each user. *)
MakeOwn(p) ==
  /\ at[p] = "own"
  /\ at' = [at EXCEPT ![p] = "scores"]
  /\ ids' = [ids EXCEPT ![p] = undo_setuid(p)]
  /\ file' = Truncated("own", undo_setuid(p))
  /\ UNCHANGED <<setuid, saved_ids, creators, round, written, fds>>

MakeScores(p) ==
  /\ at[p] = "scores"
  /\ at' = [at EXCEPT ![p] = "switch"]
  /\ ids' = [ids EXCEPT ![p] = do_setuid(p)]
  /\ file' = Truncated("scores", do_setuid(p))
  /\ UNCHANGED <<setuid, saved_ids, creators, round, written, fds>>

(* Mutant of OddRound: every round is the player's. *)
EveryRound(i) == TRUE

OddRound(i) == i % 2 = 1

(* Both files are opened for appending; one that may not be is left out. *)
Switch(p) ==
  LET id == IF OddRound(round[p]) THEN undo_setuid(p) ELSE do_setuid(p)
  IN  /\ at[p] = "switch"
      /\ at' = [at EXCEPT ![p] = "write"]
      /\ ids' = [ids EXCEPT ![p] = id]
      /\ fds' = [fds EXCEPT ![p] = {f \in Files : file[f].owner = id.eff}]
      /\ UNCHANGED <<setuid, saved_ids, creators, round, written, file>>

(* info: the two names are constants of the program, whoever plays it. *)
info(p) == IF ids[p].eff = euid(p) THEN "temp" ELSE "niramay"

(* Number, info and newline are three writes, first to own, then to scores;*)
(* those to a file that could not be opened fail without further notice.   *)
Write(p) ==
  LET f == IF written[p] < 3 THEN "own" ELSE "scores"
      piece == [by |-> p, round |-> round[p], part |-> (written[p] % 3) + 1,
                info |-> info(p)]
  IN  /\ at[p] = "write"
      /\ written[p] < 6
      /\ IF f \in fds[p]
           THEN /\ file' = [file EXCEPT ![f].pieces = Append(@, piece)]
                /\ written' = [written EXCEPT ![p] = @ + 1]
           ELSE UNCHANGED file /\ written' = [written EXCEPT ![p] = @ + 3]
      /\ UNCHANGED <<setuid, saved_ids, creators, at, ids, round, fds>>

CloseBoth(p) ==
  /\ at[p] = "write"
  /\ written[p] = 6
  /\ at' = [at EXCEPT ![p] = IF round[p] = Rounds THEN "done" ELSE "switch"]
  /\ round' = [round EXCEPT ![p] = @ + 1]
  /\ written' = [written EXCEPT ![p] = 0]
  /\ fds' = [fds EXCEPT ![p] = {}]
  /\ UNCHANGED <<setuid, saved_ids, creators, ids, file>>

Next ==
  \E p \in Players :
    MakeOwn(p) \/ MakeScores(p) \/ Switch(p) \/ Write(p) \/ CloseBoth(p)

Spec == Init /\ [][Next]_vars

-----------------------------------------------------------------------------
TypeOK ==
  /\ creators \subseteq Players \union {Owner}
  /\ at \in [Players -> {"own", "scores", "switch", "write", "done"}]
  /\ round \in [Players -> 1 .. Rounds + 1]
  /\ written \in [Players -> 0 .. 6]
  /\ fds \in [Players -> SUBSET Files]

(* A turn: a round and a part of the line.  Everything player p has        *)
(* written to f so far, or tried to.                                       *)
SoFar(p, f) ==
  {x \in (1 .. Rounds) \X (1 .. 3) :
     /\ x[1] % 2 = (IF f = "own" THEN 1 ELSE 0) \/ ~setuid
     /\ \/ x[1] < round[p]
        \/ x[1] = round[p] /\ x[2] <= written[p] - (IF f = "own" THEN 0 ELSE 3)}

Before(x, y) == x[1] < y[1] \/ (x[1] = y[1] /\ x[2] < y[2])

IsTurn(piece, p, x) == piece.by = p /\ piece.round = x[1] /\ piece.part = x[2]

(* Own, scores, own, scores: with the set-user-id bit a file holds the     *)
(* lines of its user's turns only, and no line gets into another player's  *)
(* "own".  Whoever truncates or creates a file meanwhile, what a player    *)
(* has in it is the last of what it has written, in order and without a    *)
(* gap.  The lines of "own" say niramay, whoever plays, those of "scores"  *)
(* temp; without the bit all say temp.                                     *)
PlayersTakeTurns ==
  \A f \in Files :
    LET pieces == file[f].pieces
    IN  \A k \in DOMAIN pieces :
          /\ file[f].owner = IF f = "own" THEN pieces[k].by ELSE euid(pieces[k].by)
          /\ pieces[k].info = IF setuid /\ f = "own" THEN "niramay" ELSE "temp"
          /\ \E x \in SoFar(pieces[k].by, f) : IsTurn(pieces[k], pieces[k].by, x)
          /\ \A x \in SoFar(pieces[k].by, f) :
               Before(<<pieces[k].round, pieces[k].part>>, x) =>
                 \E l \in DOMAIN pieces : IsTurn(pieces[l], pieces[k].by, x)
          /\ \A l \in DOMAIN pieces : k < l /\ pieces[k].by = pieces[l].by =>
               Before(<<pieces[k].round, pieces[k].part>>,
                      <<pieces[l].round, pieces[l].part>>)

(* A player nobody else plays against, and who may create its files, has   *)
(* lost nothing when it is done.                                           *)
NothingIsLost ==
  \A p \in Players, f \in Files :
    /\ at[p] = "done"
    /\ \A q \in Players \ {p} : at[q] = "own"
    /\ file[f].owner = IF f = "own" THEN p ELSE euid(p)
    => \A x \in SoFar(p, f) : \E k \in DOMAIN file[f].pieces :
         IsTurn(file[f].pieces[k], p, x)
=============================================================================
