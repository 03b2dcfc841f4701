---------------------------- MODULE SharedStore -----------------------------
(***************************************************************************)
(* The durable state of the extension, which main and every cluster frame  *)
(* have a copy of (src/common/kafka-persistent-state-store.ts), the write  *)
(* mode that frames switch in it (src/renderer/kafka-write-settings.ts)    *)
(* and main's guard reads there (src/main/write-mode.ts), and the other    *)
(* settings of frames.                                                     *)
(*                                                                         *)
(* The host is external: it hands the whole document from a frame that has *)
(* changed it to main, and from main, when that changed it, to every frame *)
(* and to the disk; each message replaces the copy it reaches.  Messages   *)
(* between main and a frame keep their order.                              *)
(*                                                                         *)
(* A document has three keys: the targets whose write mode is on, one of   *)
(* the settings a frame saves, and an aggregate health snapshot, which is  *)
(* main's own.                                                             *)
(***************************************************************************)
EXTENDS FiniteSets, Naturals, Sequences

CONSTANTS
  Frame,      \* the open cluster frames
  Target,     \* Kafka targets
  MaxSaves,   \* bounds how often frames save something
  MaxHealth,  \* bounds how often main writes a snapshot
  MaxOpens    \* bounds how often a frame is opened anew

ASSUME StoreAssumption == {MaxSaves, MaxHealth, MaxOpens} \subseteq Nat

VARIABLES
  main,     \* main's copy
  copy,     \* copy[f]: the copy of frame f
  toMain,   \* toMain[f]: documents on their way to main
  toFrame,  \* toFrame[f]: documents on their way to f
  mode,     \* mode[f]: the targets whose write mode the pages of f show as on
  saves,    \* how often frames have saved
  opens     \* how often a frame was opened

storeVars == <<main, copy, toMain, toFrame, mode, saves, opens>>

(* KAFKA_WRITE_MODE_KEY is absent until it is set first. *)
Absent == [set |-> FALSE, targets |-> {}]
Empty == [write |-> Absent, setting |-> 0, health |-> 0]

Documents(d) ==
  /\ d.write.set \in BOOLEAN /\ d.write.targets \subseteq Target
  /\ d.setting \in 0..MaxSaves /\ d.health \in 0..MaxHealth

StoreTypeOK ==
  /\ Documents(main) /\ mode \in [Frame -> SUBSET Target] /\ saves \in 0..MaxSaves
  /\ \A f \in Frame : /\ Documents(copy[f]) /\ \A i \in DOMAIN toMain[f] : Documents(toMain[f][i])
                      /\ \A i \in DOMAIN toFrame[f] : Documents(toFrame[f][i])
  /\ opens \in 0..MaxOpens

(* Some target may have been switched on before. *)
StoreInit ==
  /\ main \in {Empty} \cup {[Empty EXCEPT !.write = [set |-> TRUE, targets |-> Target]]}
  /\ copy = [f \in Frame |-> main] /\ mode = [f \in Frame |-> main.write.targets]
  /\ toMain = [f \in Frame |-> <<>>] /\ toFrame = [f \in Frame |-> <<>>]
  /\ saves = 0 /\ opens = 0

-----------------------------------------------------------------------------
(* syncFromStorage(): a value that is absent leaves what the pages had. *)
Synced(f, document) == IF document.write.set THEN document.write.targets ELSE mode[f]

(* setItem() in a frame: the host sends its whole copy. *)
Saves(f, document) ==
  /\ saves < MaxSaves /\ saves' = saves + 1
  /\ copy' = [copy EXCEPT ![f] = document]
  /\ toMain' = [toMain EXCEPT ![f] = Append(@, document)]

(* set(): what the pages show is read anew, changed and saved. *)
Switches(f, t, on) ==
  LET now == Synced(f, copy[f])
      next == IF on THEN now \cup {t} ELSE now \ {t}
  IN
  /\ (t \in now) # on
  /\ Saves(f, [copy[f] EXCEPT !.write = [set |-> TRUE, targets |-> next]])
  /\ mode' = [mode EXCEPT ![f] = next]
  /\ UNCHANGED <<main, toFrame, opens>>

(* Another of the frame's stores saves: overview, connection, registry or connect settings. *)
SavesSetting(f) ==
  /\ Saves(f, [copy[f] EXCEPT !.setting = saves + 1])
  /\ UNCHANGED <<main, toFrame, mode, opens>>

-----------------------------------------------------------------------------
(* The host saves main's changed copy and sends it to all frames. *)
Relays(document) ==
  /\ main' = document
  /\ toFrame' = [f \in Frame |-> Append(toFrame[f], document)]

(* fromStore(): main keeps the values of its own keys. *)
KeepsOwn(document) == [document EXCEPT !.health = main.health]

MainReceives(f) ==
  /\ toMain[f] # <<>>
  /\ toMain' = [toMain EXCEPT ![f] = Tail(@)]
  /\ IF KeepsOwn(Head(toMain[f])) = main THEN UNCHANGED <<main, toFrame>>
     ELSE Relays(KeepsOwn(Head(toMain[f])))
  /\ UNCHANGED <<copy, mode, saves, opens>>

(* A health worker writes its snapshot. *)
MainSaves ==
  /\ main.health < MaxHealth
  /\ Relays([main EXCEPT !.health = @ + 1])
  /\ UNCHANGED <<copy, toMain, mode, saves, opens>>

(* The frame's copy is replaced; the watch of the write mode key tells the pages (refresh()). *)
Unwatched(f, document) == mode[f]
Watched(f, document) ==
  IF document.write # copy[f].write THEN Synced(f, document) ELSE mode[f]

FrameReceives(f) ==
  /\ toFrame[f] # <<>>
  /\ toFrame' = [toFrame EXCEPT ![f] = Tail(@)]
  /\ copy' = [copy EXCEPT ![f] = Head(toFrame[f])]
  /\ mode' = [mode EXCEPT ![f] = Watched(f, Head(toFrame[f]))]
  /\ UNCHANGED <<main, toMain, saves, opens>>

(* A frame is closed and another one opened, which loads the document. *)
Opens(f) ==
  /\ opens < MaxOpens /\ opens' = opens + 1
  /\ copy' = [copy EXCEPT ![f] = main] /\ toFrame' = [toFrame EXCEPT ![f] = <<>>]
  /\ mode' = [mode EXCEPT ![f] = main.write.targets]
  /\ UNCHANGED <<main, toMain, saves>>

Transmits(f) == MainReceives(f) \/ FrameReceives(f)

StoreNext ==
  \/ MainSaves
  \/ \E f \in Frame : SavesSetting(f) \/ Transmits(f) \/ Opens(f)
  \/ \E f \in Frame, t \in Target, on \in BOOLEAN : Switches(f, t, on)

StoreSpec == StoreInit /\ [][StoreNext]_storeVars

-----------------------------------------------------------------------------
(* Properties.                                                             *)

(* No document of a frame, however old the copy it was made from, takes a snapshot from main that
   it has written (SPEC-019, decision of 2026-10-27). *)
SnapshotKept == [][main'.health >= main.health]_storeVars

AtRest == \A f \in Frame : toMain[f] = <<>> /\ toFrame[f] = <<>>

(* When all messages have arrived, every frame has what main has, and its pages show as on the
   targets for which main lets writes through (SPEC-019, REQ-231), if the key is set at all. *)
FramesFollow ==
  AtRest => \A f \in Frame : copy[f] = main /\ (main.write.set => mode[f] = main.write.targets)

=============================================================================
