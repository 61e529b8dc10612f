---------------------------- MODULE IdentityFile ----------------------------
(***************************************************************************)
(* The SDK's identity (src/identity.go, NewClient in src/client.go):       *)
(* processes of one user look for a DID identity in the files they know    *)
(* and mint one when there is none.  Nothing locks the files, a process    *)
(* may stop at any step, and os.WriteFile truncates before it writes.      *)
(*                                                                         *)
(* An identity goes by the name of the process that minted it.  All        *)
(* payloads have one length, so that of two writes to a file the later     *)
(* one stays.                                                              *)
(***************************************************************************)
EXTENDS Integers, Sequences

CONSTANTS
    Processes,  \* runs of NewClient
    Paths,      \* values of IdentityFile and of HAX_IDENTITY_FILE, "" if none
    Default,    \* DefaultIdentityFile
    None

ASSUME IdentityAssumption ==
    /\ "" \in Paths /\ Default # ""
    /\ Processes \cap {None, "partial"} = {}

VARIABLES
    env,       \* HAX_IDENTITY_FILE, one for the user
    file,      \* file[f]: absent (None), cut short ("partial") or an identity
    pc,        \* pc[p]: where p stands
    given,     \* given[p]: the IdentityFile option
    mint,      \* mint[p]: AllowMint, as there is no API key
    todo,      \* todo[p]: the files p has still to try
    returned,  \* returned[p]: the identity of p's client, None without
    alone,     \* history: no other process ran while p did
    rivals     \* rivals[f]: history: who ran when f was last written

vars == <<env, file, pc, given, mint, todo, returned, alone, rivals>>

Files == (Paths \ {""}) \cup {Default}

Running == {p \in Processes : pc[p] \in {"load", "open", "write"}}

Named(f) == IF f = "" THEN <<>> ELSE <<f>>

(* The files to try, in the order of LoadIdentity. *)
Candidates(g) == Named(g) \o Named(env) \o <<Default>>

(* Where a minted identity goes. *)
MintPath(p) == Head(Candidates(given[p]))

(* loadIdentityFromFile finds no identity in a file that is cut short. *)
Readable(f) == file[f] \in Processes

Init ==
    /\ env \in Paths
    /\ file = [f \in Files |-> None]
    /\ pc = [p \in Processes |-> "idle"]
    /\ given = [p \in Processes |-> ""]
    /\ mint = [p \in Processes |-> FALSE]
    /\ todo = [p \in Processes |-> <<>>]
    /\ returned = [p \in Processes |-> None]
    /\ alone = [p \in Processes |-> FALSE]
    /\ rivals = [f \in Files |-> {}]

Goto(p, place) == pc' = [pc EXCEPT ![p] = place]

(* Mutant of NewClient: the environment names a file to mint to only. *)
NewClientMintsToEnv(p, g, key) ==
    /\ pc[p] = "idle"
    /\ Goto(p, "load")
    /\ given' = [given EXCEPT ![p] = g]
    /\ mint' = [mint EXCEPT ![p] = ~key]
    /\ todo' = [todo EXCEPT ![p] = Named(g) \o <<Default>>]
    /\ alone' = [x \in Processes |-> IF x = p THEN Running = {} ELSE alone[x] /\ x \notin Running]
    /\ UNCHANGED <<env, file, returned, rivals>>

(* NewClient without DID and PrivateKeyJWK: one without the other counts   *)
(* for nothing.                                                            *)
NewClient(p, g, key) ==
    /\ pc[p] = "idle"
    /\ Goto(p, "load")
    /\ given' = [given EXCEPT ![p] = g]
    /\ mint' = [mint EXCEPT ![p] = ~key]
    /\ todo' = [todo EXCEPT ![p] = Candidates(g)]
    /\ alone' = [x \in Processes |-> IF x = p THEN Running = {} ELSE alone[x] /\ x \notin Running]
    /\ UNCHANGED <<env, file, returned, rivals>>

(* Mutant of Load: the end of the files is not noticed. *)
LoadPastEnd(p) ==
    /\ pc[p] = "load"
    /\ IF Readable(Head(todo[p]))
       THEN /\ returned' = [returned EXCEPT ![p] = file[Head(todo[p])]]
            /\ Goto(p, "done")
            /\ UNCHANGED todo
       ELSE /\ todo' = [todo EXCEPT ![p] = Tail(@)]
            /\ UNCHANGED <<pc, returned>>
    /\ UNCHANGED <<env, file, given, mint, alone, rivals>>

Load(p) ==
    /\ pc[p] = "load"
    /\ IF Readable(Head(todo[p]))
       THEN /\ returned' = [returned EXCEPT ![p] = file[Head(todo[p])]]
            /\ Goto(p, "done")
            /\ UNCHANGED todo
       ELSE /\ todo' = [todo EXCEPT ![p] = Tail(@)]
            /\ Goto(p, IF Tail(todo[p]) # <<>> THEN "load" ELSE IF mint[p] THEN "open" ELSE "done")
            /\ UNCHANGED returned
    /\ UNCHANGED <<env, file, given, mint, alone, rivals>>

(* SaveIdentity: os.WriteFile creates or truncates, *)
Truncate(p) ==
    /\ pc[p] = "open"
    /\ file' = [file EXCEPT ![MintPath(p)] = "partial"]
    /\ Goto(p, "write")
    /\ UNCHANGED <<env, given, mint, todo, returned, alone, rivals>>

(* Mutant of Write: the identity is returned before it is written. *)
WriteUnchecked(p) ==
    /\ pc[p] = "write"
    /\ \/ file' = [file EXCEPT ![MintPath(p)] = p]
       \/ UNCHANGED file
    /\ rivals' = [rivals EXCEPT ![MintPath(p)] = Running \ {p}]
    /\ returned' = [returned EXCEPT ![p] = p]
    /\ Goto(p, "done")
    /\ UNCHANGED <<env, given, mint, todo, alone>>

(* ... and writes; only then is the identity returned. *)
Write(p) ==
    /\ pc[p] = "write"
    /\ file' = [file EXCEPT ![MintPath(p)] = p]
    /\ rivals' = [rivals EXCEPT ![MintPath(p)] = Running \ {p}]
    /\ returned' = [returned EXCEPT ![p] = p]
    /\ Goto(p, "done")
    /\ UNCHANGED <<env, given, mint, todo, alone>>

(* A step of a save fails, and NewClient with it; or the process stops. *)
Fail(p) ==
    /\ p \in Running
    /\ Goto(p, "failed")
    /\ UNCHANGED <<env, file, given, mint, todo, returned, alone, rivals>>

Next ==
    \E p \in Processes :
        \/ \E g \in Paths, key \in BOOLEAN : NewClient(p, g, key)
        \/ Load(p) \/ Truncate(p) \/ Write(p) \/ Fail(p)

Spec == Init /\ [][Next]_vars
-----------------------------------------------------------------------------
(* The types of the variables: the files and the processes. *)
TypeOK ==
    /\ env \in Paths
    /\ file \in [Files -> Processes \cup {None, "partial"}]
    /\ pc \in [Processes -> {"idle", "load", "open", "write", "done", "failed"}]
    /\ given \in [Processes -> Paths]
    /\ mint \in [Processes -> BOOLEAN]
    /\ todo \in [Processes -> Seq(Files)]
    /\ \A p \in Processes : pc[p] = "load" => todo[p] # <<>>
    /\ returned \in [Processes -> Processes \cup {None}]
    /\ alone \in [Processes -> BOOLEAN]
    /\ rivals \in [Files -> SUBSET Processes]

(* A client with the option g would find the identity id now, in the i-th  *)
(* of its files.                                                           *)
FindsAt(g, id, i) ==
    /\ file[Candidates(g)[i]] = id
    /\ \A j \in 1..i-1 : ~Readable(Candidates(g)[j])

(* An identity that a client got while no other process ran is the one     *)
(* that its options lead to ever after, whatever other processes with      *)
(* other options do, race or leave half-written: the DID that was knocked  *)
(* with stays.                                                             *)
IdentityIsStable ==
    \A p \in Processes :
        alone[p] /\ returned[p] # None =>
            \E i \in DOMAIN Candidates(given[p]) : FindsAt(given[p], returned[p], i)

(* A stored identity is only ever destroyed by a process that was already  *)
(* looking when it was stored.                                             *)
OverwrittenOnlyInRace ==
    [][\A f \in Files : Readable(f) /\ file'[f] # file[f] =>
          \E p \in rivals[f] : pc[p] \in {"open", "write"} /\ pc'[p] # pc[p]]_vars
=============================================================================
