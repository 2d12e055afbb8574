---------------------------- MODULE SSCheckpoint ----------------------------
(***************************************************************************)
(* The write path of SSWritePipeline together with the checkpoint         *)
(* handlers that the SS's NM thread (handle_nm_communication, src/ss.c)   *)
(* serves for the NM (handle_checkpoint_request, src/nm.c): CHECKPOINT    *)
(* copies the main file to <file>.checkpoint_<tag>, REVERT copies it back *)
(* after backing main up to <file>.undo (src/file_ops.c).  The NM checks  *)
(* only the sender's write access; the SS takes no sentence lock and not  *)
(* queue->mutex, so these steps interleave with every client thread.      *)
(* LISTCHECKPOINTS and VIEWCHECKPOINT only read.                          *)
(***************************************************************************)
EXTENDS SSWritePipeline

CONSTANTS
    Tags       \* checkpoint tags a CHECKPOINT or REVERT may name

VARIABLES
    ckpt       \* ckpt[t]: <file>.checkpoint_<t>, or NoFile

ckvars == <<vars, ckpt>>

InitCk ==
    /\ Init
    /\ ckpt = [t \in Tags |-> NoFile]

\* MSG_CHECKPOINT: create_checkpoint copies main to the checkpoint file
\* unless it exists (409).
Checkpoint(t) ==
    /\ ckpt[t] = NoFile
    /\ ckpt' = [ckpt EXCEPT ![t] = main]
    /\ UNCHANGED vars

\* MSG_REVERT: revert_to_checkpoint backs main up to <file>.undo and copies
\* the checkpoint over main; without the checkpoint the reply is 404.
Revert(t) ==
    /\ ckpt[t] # NoFile
    /\ undo' = main
    /\ main' = ckpt[t]
    /\ undone' = undone \cup (Words(main) \ Words(ckpt[t]))
    /\ UNCHANGED <<ckpt, temp, locks, sessions, queue, qHolder, pc, req,
                   clock, nextWord, mine, done, applied, link, cphase, csent, wbuf>>

NextCk ==
    \/ Next /\ UNCHANGED ckpt
    \/ \E t \in Tags : Checkpoint(t) \/ Revert(t)

SpecCk == InitCk /\ [][NextCk]_ckvars

-----------------------------------------------------------------------------
(* Properties.                                                             *)

\* Words leave the main file only through a restore: UNDO copying
\* <file>.undo back, or REVERT copying a checkpoint over main after backing
\* it up.  A REVERT that runs while process_commit_queue holds a merge built
\* from the main file it parsed is undone by that merge's write back, which
\* removes what the REVERT restored.
NoTextLostCk ==
    [][ \/ Words(main) \subseteq Words(main')
        \/ main' = undo /\ undo' = NoFile
        \/ undo' = main /\ \E t \in Tags : main' = ckpt[t] ]_ckvars
=============================================================================
