------------------------------ MODULE RealPath -------------------------------
(***************************************************************************)
(* assignment_2/realpath.c: prints the last component of what a path, or   *)
(* every entry of the working directory, comes to when symbolic links are  *)
(* followed.  A path is the sequence of its components; links live in the  *)
(* working directory and in one directory below it, and no path is too     *)
(* long for its buffer.                                                    *)
(***************************************************************************)
EXTENDS Integers, Sequences, SequencesExt

CONSTANTS Names,     \* the files and links there may be in either directory
          Targets,   \* what the links may point to
          Arguments  \* the paths it is called with, << >> for none

Dir == "dir"

(* The last component of every target names a file or a link, and so does  *)
(* every argument.                                                         *)
PathsAssumption ==
  /\ Names \intersect {Dir, ".", ".."} = {}
  /\ \A t \in Targets :
       t \in Seq(Names \union {Dir, ".."}) /\ t # << >> /\ Last(t) \in Names
  /\ \A a \in Arguments :
       a = << >> \/ \E n \in Names : a = <<n>> \/ a = <<Dir, n>>

Locations == {<<n>> : n \in Names} \union {<<Dir, n>> : n \in Names}
File == << >>   \* what a location that is no link holds

VARIABLES fs,      \* what each location holds
          dotted,  \* whether the name of the directory has a dot in it
          arg, todo,   \* the argument; the entries readdir has still to return
          path,    \* what is being resolved
          buf1, buf2, flag,
          strs,    \* the names to print
          stage    \* "next", "follow" or "printed"

vars == <<fs, dotted, arg, todo, path, buf1, buf2, flag, strs, stage>>

Uninitialised == <<"?">>

(* The paths of one call. *)
Entries == IF arg = << >> THEN {<<n>> : n \in Names} \union {<<Dir>>} ELSE {arg}

Init ==
  /\ fs \in [Locations -> Targets \union {File}]
  /\ dotted \in BOOLEAN
  /\ arg \in Arguments
  /\ todo = Entries
  /\ path = << >>
  /\ buf1 = Uninitialised
  /\ buf2 = Uninitialised
  /\ flag = FALSE
  /\ strs = << >>
  /\ stage = "next"

(* Where a path leads from the working directory. *)
Walk(from, p) ==
  LET at[n \in 0 .. Len(p)] ==
        IF n = 0 THEN from
        ELSE IF p[n] = ".." /\ at[n - 1] # << >> THEN Front(at[n - 1])
        ELSE Append(at[n - 1], p[n])
  IN  at[Len(p)]

(* Symbolic link or not, seen from the location l. *)
IsLink(l) == l \in Locations /\ fs[l] # File

dirname(p) == IF Len(p) = 1 THEN <<".">> ELSE Front(p)

(* strstr(p, ".") and strstr(p, ".."). *)
HasDot(p) == \E c \in ToSet(p) : c \in {".", ".."} \/ (c = Dir /\ dotted)
HasDotDot(p) == ".." \in ToSet(p)

(* Mutant of Relative: the directory of the argument is left out. *)
RelativeToCwd(target) == target

(* The target of a link, as seen from the working directory: one with ".." *)
(* is taken to start at the link, any other at the original path.          *)
Relative(target) ==
  LET from == dirname(IF HasDotDot(target) THEN buf2 ELSE path)
  IN  IF HasDot(from) THEN target ELSE from \o target

-----------------------------------------------------------------------------
(* readdir, in any order, or the argument. *)
NextEntry(entry) ==
  /\ stage = "next"
  /\ stage' = "follow"
  /\ todo' = todo \ {entry}
  /\ path' = entry
  /\ buf2' = entry
  /\ flag' = FALSE
  /\ UNCHANGED <<fs, dotted, arg, buf1, strs>>

FollowLink ==
  /\ stage = "follow"
  /\ IsLink(Walk(<< >>, buf2))
  /\ buf1' = Relative(fs[Walk(<< >>, buf2)])
  /\ buf2' = buf1'
  /\ flag' = TRUE
  /\ UNCHANGED <<fs, dotted, arg, todo, path, strs, stage>>

(* Mutant of Listed: what is no link is listed too. *)
ListedAlways == TRUE

(* Of the entries of the directory the links are listed, an argument always*)
(* is, though buf1 is not initialised when it is no link.                  *)
Listed == flag \/ arg # << >>

NoLink ==
  /\ stage = "follow"
  /\ ~IsLink(Walk(<< >>, buf2))
  /\ stage' = "next"
  /\ strs' = IF Listed THEN Append(strs, [of |-> path, name |-> Last(buf1)]) ELSE strs
  /\ UNCHANGED <<fs, dotted, arg, todo, path, buf1, buf2, flag>>

(* main prints the names, or "Realpath failed" when there is none. *)
PrintNames ==
  /\ stage = "next"
  /\ todo = {}
  /\ stage' = "printed"
  /\ UNCHANGED <<fs, dotted, arg, todo, path, buf1, buf2, flag, strs>>

Next == (\E entry \in todo : NextEntry(entry)) \/ FollowLink \/ NoLink \/ PrintNames

Spec == Init /\ [][Next]_vars

Fairness == WF_vars(Next)

-----------------------------------------------------------------------------
TypeOK ==
  /\ arg \in Arguments
  /\ stage \in {"next", "follow", "printed"}
  /\ flag \in BOOLEAN
  /\ ToSet(strs) \subseteq [of : Entries, name : Names \union {"?"}]

(* What the kernel makes of a link: its target starts where the link is.   *)
Target(l) == IF IsLink(l) THEN Walk(Front(l), fs[l]) ELSE l

(* The places beside l that the links lead to from l on: what is in each   *)
(* set that has l, and with a link its target when that is beside l.       *)
Beside(l) == {l} \union {x \in Locations : Front(x) = Front(l)}

Reached(l) ==
  LET closed == {S \in SUBSET Beside(l) :
                   l \in S /\ \A x \in S : Target(x) \in Beside(l) => Target(x) \in S}
  IN  {e \in Beside(l) : \A S \in closed : e \in S}

(* From l on there are only links to names beside them, in a directory     *)
(* whose name has no dot.                                                  *)
OneDirectory(l) ==
  /\ Len(l) = 1 \/ ~dotted
  /\ \A x \in Reached(l) : IsLink(x) => Len(fs[x]) = 1

(* Links that stay in their directory are resolved to their ultimate       *)
(* target, however many there are in a row, a cycle to none; and without   *)
(* an argument the links of the directory are listed, each of them once,   *)
(* and nothing else, in whatever order readdir returns the entries.        *)
ResolvesLinks ==
  /\ \A k \in DOMAIN strs : IsLink(strs[k].of) /\ OneDirectory(strs[k].of) =>
       \E e \in Reached(strs[k].of) : ~IsLink(e) /\ strs[k].name = Last(e)
  /\ IsInjective([k \in DOMAIN strs |-> strs[k].of])
  /\ stage = "printed" =>
       {strs[k].of : k \in DOMAIN strs} =
         IF arg = << >> THEN {l \in Entries : IsLink(l)} ELSE {arg}

(* Only a cycle, or a link that leaves its directory, keeps it from ending *)
(* (line 96).                                                              *)
EndsWithoutCycle ==
  /\ stage = "next"
  /\ \A l \in Entries : OneDirectory(l) /\ \E e \in Reached(l) : ~IsLink(e)
  => <>(stage = "printed")
=============================================================================
