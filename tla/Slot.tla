--------------------------------- MODULE Slot ---------------------------------
(***************************************************************************)
(* Processes on the bare machine (hal/core/process.c, the process's entry  *)
(* qos/native/proc_entry.c, the flat-image loader): one slot at a fixed    *)
(* address, a launcher that binds the app's id, copies its image there and *)
(* queues its root actor on the kernel's harts, and the storage call a     *)
(* process makes through the launcher's image.  g_shared_live says the     *)
(* slot is in use; the root clears it after it has sent its result.        *)
(***************************************************************************)
EXTENDS Integers, FiniteSets, Sequences

CONSTANTS
  Apps, NoApp,
  Loads,     \* app -> does fpr_qaimg_load accept its image
  MaxPids, MaxCalls,
  HasDisk    \* Sys.bindStore was called

SlotBounds == MaxPids \in Nat /\ MaxCalls \in Nat /\ HasDisk \in BOOLEAN

Pids == 1 .. MaxPids
VARIABLES
  boundApp,   \* g_app_id
  image,      \* the app whose image lies in the slot
  winSet,     \* fpr_static_lo .. fpr_static_hi cover that image
  live,       \* g_shared_live
  nextPid,    \* g_next_pid
  lpc,        \* the launcher: <<"shell">>, <<"load" | "gate" | "enter", app>>, <<"wait", pid>>
  root,       \* pid -> the root actor: "none", "main", "call", "asked", "told", "reply", "exit", "dead"
  appOf,      \* pid -> the app it was launched for
  calls,      \* storage calls made
  rpc,        \* the storage actor's queue: <<pid, app named in the url>>
  wrote,      \* records written: <<pid, app>>
  inbox       \* the launcher's mailbox: results of pids
slvars == <<boundApp, image, winSet, live, nextPid, lpc, root, appOf, calls, rpc, wrote, inbox>>

SlotInit == /\ boundApp = NoApp /\ image = NoApp /\ winSet = FALSE /\ live = FALSE
            /\ nextPid = 1 /\ lpc = <<"shell">>
            /\ root = [p \in Pids |-> "none"] /\ appOf = [p \in Pids |-> NoApp]
            /\ calls = 0 /\ rpc = <<>> /\ wrote = {} /\ inbox = <<>>

(* -- the launcher: Sys.bindApp, then Sys.loadImageAt --------------------- *)
BindApp(a) ==
  /\ lpc = <<"shell">> /\ nextPid <= MaxPids
  /\ boundApp' = a /\ lpc' = <<"load", a>>
  /\ UNCHANGED <<image, winSet, live, nextPid, root, appOf, calls, rpc, wrote, inbox>>
(* the window is given up, the image checked and copied over the slot ... *)
LoadImage(a) ==
  /\ lpc = <<"load", a>>
  /\ IF Loads[a] THEN image' = a /\ winSet' = TRUE /\ lpc' = <<"gate", a>>
                 ELSE winSet' = FALSE /\ lpc' = <<"shell">> /\ UNCHANGED image
  /\ UNCHANGED <<boundApp, live, nextPid, root, appOf, calls, rpc, wrote, inbox>>
(* ... and only then is it asked whether the slot is in use. *)
LaunchGate(a) ==
  /\ lpc = <<"gate", a>>
  /\ IF live THEN lpc' = <<"shell">> /\ UNCHANGED <<live, nextPid, appOf>>
     ELSE /\ lpc' = <<"enter", nextPid>> /\ live' = TRUE /\ nextPid' = nextPid + 1
          /\ appOf' = [appOf EXCEPT ![nextPid] = a]
  /\ UNCHANGED <<boundApp, image, winSet, root, calls, rpc, wrote, inbox>>
EnterProcess(p) ==                      \* fpr_process_entry, shared plane: spawn_pid
  /\ lpc = <<"enter", p>> /\ lpc' = <<"wait", p>>
  /\ root' = [root EXCEPT ![p] = "main"]
  /\ UNCHANGED <<boundApp, image, winSet, live, nextPid, appOf, calls, rpc, wrote, inbox>>
LauncherReceive(p) ==                   \* receiveRes: the first Result there is
  /\ lpc = <<"wait", p>> /\ inbox # <<>>
  /\ inbox' = Tail(inbox) /\ lpc' = <<"shell">>
  /\ UNCHANGED <<boundApp, image, winSet, live, nextPid, root, appOf, calls, rpc, wrote>>

(* -- the process: Sys.storeReq, the root's end ---------------------------- *)
StoreCall(p) ==                         \* qos_store_call: the url is made of g_app_id
  /\ root[p] = "main" /\ calls < MaxCalls /\ calls' = calls + 1
  /\ IF HasDisk THEN rpc' = Append(rpc, <<p, boundApp>>) /\ root' = [root EXCEPT ![p] = "asked"]
                ELSE UNCHANGED <<rpc, root>>
  /\ UNCHANGED <<boundApp, image, winSet, live, nextPid, lpc, appOf, wrote, inbox>>
StorageServe ==                         \* the storage actor: the record, the Result
  /\ rpc # <<>> /\ rpc' = Tail(rpc)
  /\ wrote' = wrote \cup {Head(rpc)}
  /\ root' = [root EXCEPT ![Head(rpc)[1]] = IF @ = "asked" THEN "main" ELSE @]
  /\ UNCHANGED <<boundApp, image, winSet, live, nextPid, lpc, appOf, calls, inbox>>
(* mutant: the slot is declared quiescent before the result is on its way *)
RootEndsEarly(p) ==
  /\ \/ root[p] = "main" /\ live' = FALSE /\ root' = [root EXCEPT ![p] = "told"] /\ UNCHANGED inbox
     \/ root[p] = "told" /\ inbox' = Append(inbox, p) /\ root' = [root EXCEPT ![p] = "dead"] /\ UNCHANGED live
  /\ UNCHANGED <<boundApp, image, winSet, nextPid, lpc, appOf, calls, rpc, wrote>>
RootEnds(p) ==                          \* proc_root: result sent, on_exit, death
  /\ \/ root[p] = "main" /\ inbox' = Append(inbox, p) /\ root' = [root EXCEPT ![p] = "told"] /\ UNCHANGED live
     \/ root[p] = "told" /\ live' = FALSE /\ root' = [root EXCEPT ![p] = "exit"] /\ UNCHANGED inbox
     \/ root[p] = "exit" /\ root' = [root EXCEPT ![p] = "dead"] /\ UNCHANGED <<live, inbox>>
  /\ UNCHANGED <<boundApp, image, winSet, nextPid, lpc, appOf, calls, rpc, wrote>>

SlotNext == \/ \E a \in Apps : BindApp(a) \/ LoadImage(a) \/ LaunchGate(a)
            \/ \E p \in Pids : EnterProcess(p) \/ LauncherReceive(p) \/ StoreCall(p) \/ RootEnds(p)
            \/ StorageServe
SlotSpec == SlotInit /\ [][SlotNext]_slvars

(* A process runs its own image out of the slot, under its own statics      *)
(* window, until its result is sent; once that is on its way only a launcher *)
(* that has taken it may have loaded another over it (process.c: "the slot  *)
(* must not be reloaded under them").  The gate says so until then, one      *)
(* process has it, and what it stored went to its own app's file.            *)
Working(p) == root[p] \in {"main", "asked"}
Ending(p) == root[p] \in {"told", "exit"}
SlotKept ==
  /\ \A p \in Pids : Working(p) \/ (Ending(p) /\ (lpc = <<"wait", p>> \/ p \in {inbox[i] : i \in DOMAIN inbox}))
                        => image = appOf[p] /\ winSet
  /\ \A p \in Pids : Working(p) \/ root[p] = "told" => live
  /\ \A w \in wrote : w[2] = appOf[w[1]]
  /\ Cardinality({p \in Pids : Working(p) \/ root[p] = "told"}) <= 1
=============================================================================
