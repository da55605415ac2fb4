------------------------------ MODULE AgentFiles ------------------------------
(***************************************************************************)
(* A file of the agents' assets directory.  os.WriteFile truncates it and  *)
(* then writes the new text; an agent that dies, or a write that fails, in *)
(* between leaves nothing or half a text.                                  *)
(***************************************************************************)
CONSTANT Agents   \* the agent processes, which share the directory

\* A missing file is an empty one: whoever reads it finds no data in either.
Conditions == {"whole", "empty", "partial"}

\* What a write that is given up leaves of the file
Remains(file, truncated) ==
  IF truncated THEN {[file EXCEPT !.is = is] : is \in {"empty", "partial"}} ELSE {file}
=============================================================================
