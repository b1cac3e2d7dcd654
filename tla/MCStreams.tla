----------------------------- MODULE MCStreams ------------------------------
(* Instances for TLC of the descriptor stream, of the programs that serve  *)
(* their clients over one, and of the streams that copy and repeat.  A     *)
(* behaviour is of one of the three.                                       *)
EXTENDS FdStream, Programs, TeeStream

VARIABLE task

MCPatterns == {<<"a">>, <<"a", "b">>, <<"a", "b", "c", "d">>}
MCEndings == {<<>>, <<"a", "b", "c">>, <<"a", "b", "c", "d">>}

\* What the machines at rest start from.
ProgramsRest == program = "echo"
TeeRest == origin = [repeats |-> FALSE, text |-> <<>>] /\ room = [k \in Sinks |-> 0]

MCInit ==
  /\ Init /\ ProgInit /\ TeeInit
  /\ \/ task = "fdstream" /\ ProgramsRest /\ TeeRest
     \/ task = "programs" /\ TeeRest
     \/ task = "tee" /\ ProgramsRest

MCNext ==
  /\ task' = task
  /\ \/ task = "fdstream" /\ Next /\ UNCHANGED <<progVars, teeVars>>
     \/ task = "programs" /\ ProgNext /\ UNCHANGED <<vars, teeVars>>
     \/ task = "tee" /\ TeeNext /\ UNCHANGED <<vars, progVars>>

MCSpec == MCInit /\ [][MCNext]_<<vars, progVars, teeVars, task>>
          /\ WF_vars(WriteAll) /\ WF_progVars(Serve)
=============================================================================
