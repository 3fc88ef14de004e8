----------------------------- MODULE PanelLayout -----------------------------
(***************************************************************************)
(* Width and collapsing of the panels at the sides of the page: the        *)
(* sidebar (components/sidebar-layout.tsx) and the git panel               *)
(* (AgentGitPanel.tsx).  Each keeps them in its state and in localStorage, *)
(* from which a reload or the next page reads them back.                   *)
(***************************************************************************)
EXTENDS Integers

CONSTANTS
    Min, Max, Default,  \* SIDEBAR_..., PANEL_..._WIDTH
    MaxDrag             \* bound on the distance of a drag

Widths == Min..Max
NaN == Min - 2        \* nothing is stored, or what is no number
Stored == {NaN} \cup ((Min - 1)..(Max + 1))
Idle == Min - 1

VARIABLES
    side,       \* 1 for the sidebar, at the left; -1 for the git panel
    mobile,     \* matchMedia("(max-width: 767px)")
    width, collapsed,
    storedWidth, storedCollapsed,
    drag        \* startRef: the width where the drag began, or Idle

vars == <<side, mobile, width, collapsed, storedWidth, storedCollapsed, drag>>

Clamp(w) == IF w < Min THEN Min ELSE IF w > Max THEN Max ELSE w

(* readStoredWidth, readStoredPanelWidth: nothing, or what is no number,    *)
(* gives the default, and a number of an earlier version is clamped.        *)
readStoredWidth(s) == IF s = NaN THEN Default ELSE Clamp(s)

(* The git panel always starts collapsed; the sidebar on a phone too.       *)
readStoredCollapsed == side = -1 \/ mobile \/ storedCollapsed

(* Mounting, with whatever an earlier visit left.                           *)
Mount ==
    /\ width' = readStoredWidth(storedWidth)
    /\ collapsed' = readStoredCollapsed
    /\ drag' = Idle
    /\ UNCHANGED <<side, mobile, storedWidth, storedCollapsed>>

Init ==
    /\ side \in {1, -1} /\ mobile \in BOOLEAN
    /\ storedWidth \in Stored /\ storedCollapsed = FALSE
    /\ width = readStoredWidth(storedWidth) /\ collapsed = readStoredCollapsed
    /\ drag = Idle

(* Mutant: the width before the move is stored.                             *)
MutSetWidth(w) == width' = Clamp(w) /\ storedWidth' = width

(* setWidth: clamped, kept and stored.                                      *)
setWidth(w) == width' = Clamp(w) /\ storedWidth' = Clamp(w)

(* Dragging the handle, which a collapsed panel does not show, nor the      *)
(* sidebar on a phone.                                                      *)
PointerDown ==
    /\ ~collapsed /\ (side = 1 => ~mobile) /\ drag = Idle
    /\ drag' = width
    /\ UNCHANGED <<side, mobile, width, collapsed, storedWidth, storedCollapsed>>

PointerMove(d) ==
    /\ drag # Idle
    /\ setWidth(drag + side * d)
    /\ UNCHANGED <<side, mobile, collapsed, storedCollapsed, drag>>

PointerUp ==
    /\ drag # Idle
    /\ drag' = Idle
    /\ UNCHANGED <<side, mobile, width, collapsed, storedWidth, storedCollapsed>>

(* toggle, on the collapse button: the sidebar stores it, on a phone too,   *)
(* where opening the overlay so overwrites what was chosen on a desktop;    *)
(* the git panel keeps it to itself.                                        *)
Toggle ==
    /\ drag = Idle
    /\ collapsed' = ~collapsed
    /\ storedCollapsed' = IF side = 1 THEN ~collapsed ELSE storedCollapsed
    /\ UNCHANGED <<side, mobile, width, storedWidth, drag>>

(* closeOnMobile, on every link of the sidebar: the state only.             *)
CloseOnMobile ==
    /\ side = 1 /\ ~collapsed
    /\ collapsed' = (mobile \/ collapsed)
    /\ UNCHANGED <<side, mobile, width, storedWidth, storedCollapsed, drag>>

(* The window crosses the breakpoint; the handle in use is let go.          *)
Resize ==
    /\ mobile' = ~mobile
    /\ drag' = Idle
    /\ UNCHANGED <<side, width, collapsed, storedWidth, storedCollapsed>>

Next ==
    \/ Mount \/ PointerDown \/ PointerUp \/ Toggle \/ CloseOnMobile \/ Resize
    \/ \E d \in -MaxDrag..MaxDrag : PointerMove(d)

Spec == Init /\ [][Next]_vars

----------------------------------------------------------------------------
TypeOK ==
    /\ side \in {1, -1} /\ mobile \in BOOLEAN /\ collapsed \in BOOLEAN
    /\ width \in Widths /\ storedWidth \in Stored
    /\ storedCollapsed \in BOOLEAN
    /\ drag \in Widths \cup {Idle}

(* The next visit looks like this one: what localStorage holds always gives *)
(* the width on the screen, whatever an earlier version had left there and  *)
(* wherever a drag began.                                                   *)
WidthRestored == readStoredWidth(storedWidth) = width

----------------------------------------------------------------------------
Inv == TypeOK /\ WidthRestored

=============================================================================
