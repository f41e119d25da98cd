------------------------------ MODULE QrCamera ------------------------------
(***************************************************************************)
(* The phone's one scanner, as the scan screens share it (QrCamera.tsx,    *)
(* the ML Kit path).  The plugin has a single lens and a single list of    *)
(* listeners; every instance of the component starts it with a chain of    *)
(* awaits and stops it with another that nobody waits for.  React may      *)
(* unmount an instance between any two of them and mount the next one.     *)
(***************************************************************************)
EXTENDS Naturals

CONSTANT Eyes               \* instances of the component that may overlap

VARIABLES
    eye,                    \* each instance: how far its chains have come
    ears,                   \* instances whose barcode listener is attached
    lens                    \* the plugin is scanning

cameraVars == <<eye, ears, lens>>

(* step: where its start has come to; hush, shut: its stops still to take  *)
(* the listeners off, and those still to stop the lens; aim: the session   *)
(* its handler records into, 0 for the asking mode; paused: the handler's  *)
(* last word, kept once it is unmounted.                                   *)
Eye == [step: {"none", "asking", "granted", "undoing", "starting", "live", "off"},
        mounted: BOOLEAN, hush: Nat, shut: Nat, aim: Nat, paused: BOOLEAN]

Gone == [step |-> "none", mounted |-> FALSE, hush |-> 0, shut |-> 0, aim |-> 0, paused |-> FALSE]
Fresh(aim) == [Gone EXCEPT !.step = "asking", !.mounted = TRUE, !.aim = aim]

(* An unmounted instance with nothing under way is garbage. *)
Settled(x) ==
    IF ~x.mounted /\ x.step = "none" /\ x.hush = 0 /\ x.shut = 0 THEN Gone ELSE x

CameraInit ==
    /\ eye = [e \in Eyes |-> Gone]
    /\ ears = {}
    /\ lens = FALSE

-----------------------------------------------------------------------------
(* The effect's cleanup: the chain is told to stop, and the plugin is      *)
(* stopped if this instance has it (nativeScanRef).                        *)
Unmounted(x, quiet) ==
    Settled([x EXCEPT
        !.mounted = FALSE, !.paused = quiet,
        !.hush = IF x.step \in {"starting", "live"} THEN @ + 1 ELSE @,
        !.step = IF @ \in {"live", "off"} THEN "none" ELSE @])

(* A commit: the screen's instance goes and, when the next screen scans, a *)
(* fresh one takes its place.                                              *)
Remount(new, aim, quiet) ==
    /\ \A e \in new : eye[e] = Gone
    /\ eye' = [e \in Eyes |->
                  IF e \in new THEN Fresh(aim)
                  ELSE IF eye[e].mounted THEN Unmounted(eye[e], quiet) ELSE eye[e]]
    /\ UNCHANGED <<ears, lens>>

(* requestPermissions answers; with leave, whoever listens is removed.     *)
PermissionAnswered(e, granted) ==
    /\ eye[e].step = "asking"
    /\ LET next == IF ~eye[e].mounted THEN "none" ELSE IF granted THEN "granted" ELSE "off"
       IN  /\ eye' = [eye EXCEPT ![e] = Settled([@ EXCEPT !.step = next])]
           /\ ears' = IF next = "granted" THEN {} ELSE ears
    /\ UNCHANGED lens

(* addListener; an instance unmounted meanwhile removes everyone's again.  *)
ListenersAdded(e) ==
    /\ eye[e].step = "granted"
    /\ ears' = ears \cup {e}
    /\ eye' = [eye EXCEPT ![e].step = IF eye[e].mounted THEN "starting" ELSE "undoing"]
    /\ UNCHANGED lens

ListenersUndone(e) ==
    /\ eye[e].step = "undoing"
    /\ ears' = {}
    /\ eye' = [eye EXCEPT ![e] = Settled([@ EXCEPT !.step = "none"])]
    /\ UNCHANGED lens

(* startScan answers.  An instance that was unmounted meanwhile stops what *)
(* it has just started, whatever its cleanup did before.                   *)
Started_NeverStopped(x) ==
    IF x.mounted THEN [x EXCEPT !.step = "live"] ELSE Settled([x EXCEPT !.step = "none"])
Started(x) ==
    IF x.mounted THEN [x EXCEPT !.step = "live"]
    ELSE [x EXCEPT !.step = "none", !.hush = @ + 1]

(* A start that fails stops what it may have begun. *)
Balked(x) == [x EXCEPT !.step = IF x.mounted THEN "off" ELSE "none", !.hush = @ + 1]

StartAnswered(e, ok) ==
    /\ eye[e].step = "starting"
    /\ eye' = [eye EXCEPT ![e] = IF ok THEN Started(@) ELSE Balked(@)]
    /\ lens' = (lens \/ ok)
    /\ UNCHANGED ears

(* stopNative: removeAllListeners, whoever's they are, then stopScan.      *)
EarsRemoved(e) ==
    /\ eye[e].hush > 0
    /\ ears' = {}
    /\ eye' = [eye EXCEPT ![e].hush = @ - 1, ![e].shut = @ + 1]
    /\ UNCHANGED lens

LensStopped(e) ==
    /\ eye[e].shut > 0
    /\ lens' = FALSE
    /\ eye' = [eye EXCEPT ![e] = Settled([eye[e] EXCEPT !.shut = @ - 1])]
    /\ UNCHANGED ears

CameraMoves ==
    \E e \in Eyes :
        \/ \E granted \in BOOLEAN : PermissionAnswered(e, granted)
        \/ ListenersAdded(e)
        \/ ListenersUndone(e)
        \/ \E ok \in BOOLEAN : StartAnswered(e, ok)
        \/ EarsRemoved(e)
        \/ LensStopped(e)

-----------------------------------------------------------------------------
(* When the last camera screen has gone and every chain has run out, the   *)
(* lens is off and nobody listens: leaving a scan screen at any moment of  *)
(* its start never leaves the camera running behind the other screens.     *)
EyeShut == (\A e \in Eyes : eye[e] = Gone) => ~lens /\ ears = {}
=============================================================================
