----------------------------- MODULE CheckShape -----------------------------
(***************************************************************************)
(* What can be told of a check from its steps, before it runs: where each  *)
(* step may go on, which try blocks it is in, what may be raised there,    *)
(* and which messages it may act on.  CheckRun_proofs shows what follows   *)
(* for every run of the check, whatever arrives and in whatever order.     *)
(***************************************************************************)
EXTENDS CheckSteps

Judging == {"wait", "judge", "return", "decide", "compare", "ask"}
Onward == {"next", "flag", "leave"}
Acceptances == {"next", "keep", "passed"}

\* The outcomes that a step may have; with "short", also on a message that is too short.
ContentOutcomes(s, short) ==
    (IF s.good # {} THEN {s.done} ELSE {})
      \cup (IF s.mtis # s.right THEN {s.bad} ELSE {})
      \cup (IF Anything \in s.good THEN {}
            ELSE IF short THEN {s.bad, s.short} ELSE {s.bad})
      \cup (IF s.unlike # None \/ s.among # {} \/ s.want # Anything
            THEN {s.differ} ELSE {})

MessageOutcomes(s, short) ==
    {"skip", s.other} \cup {s.by[t] : t \in DOMAIN s.by}
      \cup {x \in {s.source, s.dest} : x # Anything}
      \cup {x \in {s.late, s.reports} : x # None}
      \cup (IF s.fatal # {} THEN {"failed"} ELSE {})
      \cup ContentOutcomes(s, short)

Outcomes(s, short) ==
    CASE s.op = "wait" -> {s.empty} \cup MessageOutcomes(s, short)
      [] s.op = "judge" -> ContentOutcomes(s, short)
      [] s.op = "return" -> {s.verdict}
      [] s.op = "decide" -> {"next", s.verdict}
      [] s.op = "compare" -> {"next", "failed"}
      [] s.op = "ask" -> {"next", s.no}
      [] OTHER -> {}

\* The steps that may come after the n-th one when nothing is raised or returned.
Moves(s, n) ==
    CASE s.op \in Judging ->
            {n} \cup (IF Outcomes(s, TRUE) \cap Onward # {} THEN {n + 1} ELSE {})
              \cup (IF "out" \in Outcomes(s, TRUE) THEN {n + s.exit} ELSE {})
      [] s.op \in {"when", "when got", "when not"} -> {n + 1, n + (1 + s.size)}
      [] s.op \in {"jump", "leave"} -> {n + (1 + s.size)}
      [] s.op = "back" -> {n - s.size}
      [] OTHER -> {n + 1}

-----------------------------------------------------------------------------
(* try blocks. *)

\* The try blocks that the script is in behind the n-th step, when it is in those of
\* "around" at that step.
Behind(s, n, around) ==
    CASE s.op = "try" -> <<[kind |-> s.kind, at |-> n + s.size + 1]>> \o around
      [] s.op = "leave" -> Tail(around)
      [] OTHER -> around

\* The try blocks around each step in the order of the text, the innermost first.
Nest(p) ==
    FoldLeft(LAMBDA nest, s :
                LET around == Last(nest)
                IN Append(nest, IF s.op = "leave" /\ around = << >> THEN << >>
                                ELSE Behind(s, Len(nest), around)),
             << << >> >>, p)

\* The steps of "finally" parts.
Finals(p) ==
    {n \in DOMAIN p : \E i \in 1 .. n - 1 :
        /\ p[i].op = "try" /\ p[i].kind = "finally"
        /\ i + p[i].size < n
        /\ \A j \in i + p[i].size + 1 .. n - 1 : p[j].op # "resume"}

Handlers(p) == [kind : {"except", "finally"}, at : DOMAIN p]

\* Wherever the script goes on, it is in the try blocks that the text shows there.
NestKept(p, nest) ==
    \A n \in DOMAIN p :
        /\ nest[n] \in Seq(Handlers(p))
        /\ p[n].op = "leave" => nest[n] # << >>
        /\ \A m \in Moves(p[n], n) :
              m \in DOMAIN p /\ nest[m] = Behind(p[n], n, nest[n])
        /\ \A k \in 1 .. Len(nest[n]) :
              nest[nest[n][k].at] = SubSeq(nest[n], k + 1, Len(nest[n]))

\* Only the end of a "finally" part leads out of it.
FinalsKept(p, nest, finals) ==
    /\ \A n \in DOMAIN p : \A k \in 1 .. Len(nest[n]) :
          nest[n][k].kind = "finally" => nest[n][k].at \in finals
    /\ \A n \in finals :
          /\ \E k \in n .. Len(p) : p[k].op = "resume"
          /\ IF p[n].op = "resume"
             THEN \A k \in 1 .. Len(nest[n]) : nest[n][k].kind = "finally"
             ELSE /\ Moves(p[n], n) \subseteq finals
                  /\ Outcomes(p[n], TRUE) \cap Verdicts = {}
                  /\ "raise" \in Outcomes(p[n], TRUE)
                       => nest[n] # << >> /\ nest[n][1].at \in finals

WellNested(p) ==
    LET nest == Nest(p)
    IN /\ Len(p) \in Nat \ {0}
       /\ DOMAIN p = 1 .. Len(p)
       /\ nest[1] = << >>
       /\ NestKept(p, nest)
       /\ FinalsKept(p, nest, Finals(p))

\* What a step raises, an "except" of the script catches.
Guarded(p, short) ==
    LET nest == Nest(p)
    IN \A n \in DOMAIN p :
          /\ "crashed" \notin Outcomes(p[n], short)
          /\ "raise" \in Outcomes(p[n], short)
               => nest[n] # << >> /\ nest[n][1].kind = "except"

-----------------------------------------------------------------------------
(* Messages. *)

\* Messages and frames without a destination.
Undirected == GlobalMtis \cup FrameMtis

\* A loop that has none of these outcomes on a message that another node sends, or that
\* the device sends to another node.
Ignores(s, outcomes) ==
    LET behind == {x \in {s.late, s.reports} : x # None} \cup ContentOutcomes(s, TRUE)
    IN /\ {"skip", s.other} \cap outcomes = {}
       /\ "failed" \in outcomes => s.fatal = {}
       /\ s.source \notin outcomes
       /\ s.dest \notin outcomes
       /\ \A t \in DOMAIN s.by :
             (s.source # Anything /\ t \in Undirected) \/ s.by[t] \notin outcomes
       /\ \/ behind \cap outcomes = {}
          \/ /\ s.source # Anything
             /\ IF s.dest = Anything
                THEN s.mtis \ DOMAIN s.by \subseteq Undirected
                ELSE s.to \in {Own, All, Spoofed}

IgnoresOthers(p, outcomes) ==
    \A n \in DOMAIN p : p[n].op = "wait" => Ignores(p[n], outcomes)

\* No step takes a message that is too short for one that is not, or waits for an
\* acknowledgement, which may lack its flags.
NotShort(p) ==
    \A n \in DOMAIN p :
        p[n].op = "wait" => /\ "short" \notin p[n].good
                            /\ "Datagram_Received_OK" \notin p[n].mtis

=============================================================================
