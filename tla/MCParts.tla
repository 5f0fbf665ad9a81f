------------------------------- MODULE MCParts -------------------------------
(***************************************************************************)
(* Small instances of five parts of the client.  They share nothing that   *)
(* their properties are about, so a behaviour is one of a single part      *)
(* while the others stay as they began.                                    *)
(***************************************************************************)
EXTENDS Frames, EditText, EventDispatch, ObjectUpdates, MessageStream

CONSTANTS window, button, label, panel, page, box     \* frames

VARIABLE part       \* the part that runs

(* Any operations; any after two that move frames in the tree, show or     *)
(* hide them; and, of frames that no input reaches, two that get another   *)
(* parent in the middle of each other, then show and hide.                 *)
MCAny == ScriptOps \X Frame
MCFirst == {"SetParent", "SetFrameLevel", "Hide", "Show"} \X Frame
MCScenes == {[created |-> <<window, label, button>>, ops |-> <<MCAny, MCAny>>],
             [created |-> <<label, button>>, ops |-> <<MCFirst, MCFirst, MCAny>>],
             [created |-> <<label, panel, page, box>>,
              ops |-> <<{<<"SetParent", box>>}, {<<"SetParent", panel>>}, {<<"SetParent", box>>},
                        {<<"Show", panel>>}, {<<"Hide", page>>}>>]}
MCEnabled == [f \in Frame |-> IF f = window THEN {"key", "mouse"}
                              ELSE IF f = button THEN {"mouse"} ELSE {}]
MCPlaces == {{window, button}, {}}
MCButtons == {button}
MCKeyHandlers == {window}

(* Colours and links beside each other and inside each other; the last two *)
(* are texts that the code does not cope with.                             *)
MCTexts == {<<"color", "link", "char", "char", "unlink", "restore">>,
            <<"link", "wide", "char", "unlink">>,
            <<"color", "char", "char", "restore">>,
            <<"link", "color", "char", "restore", "char", "unlink">>,
            <<"restore", "char">>}

(* Of the handlers that the code registers: those for keys of the console  *)
(* and of CSimpleTop, and those for the idle event of the game, the glue,  *)
(* the screen layers and the console's.                                    *)
MCEventOf == [console |-> "keydown", top |-> "keydown", game |-> "idle",
              glue |-> "idle", screen |-> "idle", gui |-> "idle"]
MCPriority == [console |-> 7, top |-> 1, game |-> 0, glue |-> 1, screen |-> 7, gui |-> 7]
MCRegistered == <<"screen", "console", "top", "glue">>
MCInitial ==
    [id \in Ids |->
        FoldLeft(LAMBDA q, h :
                    InsertAt(q, CHOOSE i \in 1..(Len(q) + 1) : IsPlace(q, h, i), h),
                 <<>>, SelectSeq(MCRegistered, LAMBDA h : EventOf[h] = id))]

(* Two objects of one type, one of them the client's own. *)
MCTypeOf == [player |-> "player", rival |-> "player", boar |-> "unit"]

partsVars == <<framesVars, editVars, eventVars, objectVars, streamVars, part>>

PartsInit ==
    /\ part \in {"frames", "edit", "events", "objects", "stream"}
    /\ FramesInit /\ EditInit /\ EventInit /\ ObjectInit /\ StreamInit
    /\ part # "frames" => Made = {label, button}

PartsNext ==
    /\ UNCHANGED part
    /\ \/ part = "frames" /\ FramesNext
          /\ UNCHANGED <<editVars, eventVars, objectVars, streamVars>>
       \/ part = "edit" /\ EditNext
          /\ UNCHANGED <<framesVars, eventVars, objectVars, streamVars>>
       \/ part = "events" /\ EventNext
          /\ UNCHANGED <<framesVars, editVars, objectVars, streamVars>>
       \/ part = "objects" /\ ObjectNext
          /\ UNCHANGED <<framesVars, editVars, eventVars, streamVars>>
       \/ part = "stream" /\ StreamNext
          /\ UNCHANGED <<framesVars, editVars, eventVars, objectVars>>

PartsSpec == PartsInit /\ [][PartsNext]_partsVars
=============================================================================
