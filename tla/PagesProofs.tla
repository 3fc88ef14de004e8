---------------------------- MODULE PagesProofs -----------------------------
(***************************************************************************)
(* Proofs about the dashboard's pages: session, panels, settings and the   *)
(* prompt bar of a thread.                                                 *)
(* A behaviour of Pages exercises one part; for each part that is proved   *)
(* about, its inductive invariant Inv is shown to hold at first and to be  *)
(* kept by each of its actions, and the properties of Pages follow, for    *)
(* every value of the constants.  EditorsProofs has the other parts.       *)
(***************************************************************************)
EXTENDS Pages, FunctionTheorems, FiniteSetTheorems, SequenceTheorems, TLAPS

(* The part that a behaviour exercises stays the same, and each step is one *)
(* of that part.                                                            *)
LEMMA OnePart ==
    ASSUME [Next]_vars
    PROVE  /\ focus' = focus
           /\ focus = "tree" => [Tree!Next]_treeVars
           /\ focus = "git" => [Git!Next]_gitVars
           /\ focus = "layout" => [Layout!Next]_layoutVars
           /\ focus = "profile" => [Profile!Next]_profileVars
           /\ focus = "team" => [Team!Next]_teamVars
           /\ focus = "access" => [Access!Next]_accessVars
           /\ focus = "azure" => [Azure!Next]_azureVars
           /\ focus = "login" => [Login!Next]_loginVars
           /\ focus = "repos" => [RepoEditors!Next]_reposVars
           /\ focus = "composer" => [Compose!Next]_composerVars
BY DEF Next, vars

----------------------------------------------------------------------------
(* Session                                                                  *)

(* The invariant of the session holds at first.                             *)
LEMMA LoginInit == Login!Init => Login!Inv
<1> SUFFICES ASSUME Login!Init PROVE Login!Inv
  OBVIOUS
<1>1. Login!TypeOK
  BY BoundAssumption DEF Login!Init, Login!TypeOK, Login!Themes, Login!Who, Login!Nobody
<1>2. Login!Flags
  BY BoundAssumption DEF Login!Init, Login!Flags, Login!resolveTheme
<1>3. Login!NothingComesBack
  BY BoundAssumption DEF Login!Init, Login!NothingComesBack, Login!TypeOK, Login!Flags, Login!Who,
        Login!Nobody
<1>4. Login!MenuHasStored
  BY BoundAssumption DEF Login!Init, Login!MenuHasStored, Login!TypeOK, Login!Themes, Login!Who, Login!Nobody
<1>5. Login!ThemeShown
  BY BoundAssumption DEF Login!Init, Login!ThemeShown, Login!Flags, Login!MenuHasStored,
      Login!resolveTheme, Login!TypeOK, Login!Themes, Login!Who, Login!Nobody
<1> QED
  BY <1>1, <1>2, <1>3, <1>4, <1>5 DEF Login!Inv

(* Every action of the session keeps its invariant.                         *)
LEMMA LoginStep ==
    ASSUME Login!Inv, [Login!Next]_loginVars
    PROVE  Login!Inv'
<1> USE BoundAssumption DEF Login!Inv, Login!auth, Login!look, Login!Click
<1>1. CASE Login!Answer
  <2>1. Login!TypeOK'
    BY <1>1 DEF Login!Answer, Login!TypeOK, Login!Themes, Login!Who, Login!Nobody
  <2>2. Login!Flags'
    BY <1>1 DEF Login!Answer, Login!Flags, Login!resolveTheme, Login!TypeOK, Login!Who
  <2>3. Login!NothingComesBack'
    BY <1>1 DEF Login!Answer, Login!NothingComesBack, Login!TypeOK, Login!Flags, Login!Who,
        Login!Nobody
  <2>4. Login!MenuHasStored'
    BY <1>1 DEF Login!Answer, Login!MenuHasStored, Login!TypeOK, Login!Themes, Login!Who, Login!Nobody
  <2>5. Login!ThemeShown'
    BY <1>1 DEF Login!Answer, Login!ThemeShown, Login!Flags, Login!MenuHasStored, Login!resolveTheme,
        Login!TypeOK, Login!Themes, Login!Who, Login!Nobody
  <2> QED
    BY <2>1, <2>2, <2>3, <2>4, <2>5
<1>2. CASE Login!Apply
  <2>1. Login!TypeOK'
    BY <1>2 DEF Login!Apply, Login!Render, Login!Redirect, Login!HasMenu, Login!TypeOK, Login!Themes, Login!Who, Login!Nobody
  <2>2. Login!Flags'
    BY <1>2 DEF Login!Apply, Login!Render, Login!Redirect, Login!HasMenu, Login!Flags,
        Login!resolveTheme
  <2>3. Login!NothingComesBack'
    BY <1>2 DEF Login!Apply, Login!Render, Login!Redirect, Login!HasMenu, Login!NothingComesBack,
        Login!TypeOK, Login!Flags, Login!Who,
        Login!Nobody
  <2>4. Login!MenuHasStored'
    BY <1>2 DEF Login!Apply, Login!Render, Login!Redirect, Login!HasMenu, Login!MenuHasStored,
        Login!TypeOK, Login!Themes, Login!Who, Login!Nobody
  <2>5. Login!ThemeShown'
    BY <1>2 DEF Login!Apply, Login!Render, Login!Redirect, Login!HasMenu, Login!ThemeShown,
        Login!Flags, Login!MenuHasStored, Login!resolveTheme, Login!TypeOK, Login!Themes, Login!Who, Login!Nobody
  <2> QED
    BY <2>1, <2>2, <2>3, <2>4, <2>5
<1>3. CASE Login!Refetch
  <2>1. Login!TypeOK'
    BY <1>3 DEF Login!Refetch, Login!TypeOK, Login!Themes, Login!Who, Login!Nobody
  <2>2. Login!Flags'
    BY <1>3 DEF Login!Refetch, Login!Flags, Login!resolveTheme
  <2>3. Login!NothingComesBack'
    BY <1>3 DEF Login!Refetch, Login!NothingComesBack, Login!TypeOK, Login!Flags, Login!Who,
        Login!Nobody
  <2>4. Login!MenuHasStored'
    BY <1>3 DEF Login!Refetch, Login!MenuHasStored, Login!TypeOK, Login!Themes, Login!Who, Login!Nobody
  <2>5. Login!ThemeShown'
    BY <1>3 DEF Login!Refetch, Login!ThemeShown, Login!Flags, Login!MenuHasStored,
        Login!resolveTheme, Login!TypeOK, Login!Themes, Login!Who, Login!Nobody
  <2> QED
    BY <2>1, <2>2, <2>3, <2>4, <2>5
<1>4. CASE Login!Expires
  <2>1. Login!TypeOK'
    BY <1>4 DEF Login!Expires, Login!TypeOK, Login!Themes, Login!Who, Login!Nobody
  <2>2. Login!Flags'
    BY <1>4 DEF Login!Expires, Login!Flags, Login!resolveTheme
  <2>3. Login!NothingComesBack'
    BY <1>4 DEF Login!Expires, Login!NothingComesBack, Login!TypeOK, Login!Flags, Login!Who,
        Login!Nobody
  <2>4. Login!MenuHasStored'
    BY <1>4 DEF Login!Expires, Login!MenuHasStored, Login!TypeOK, Login!Themes, Login!Who, Login!Nobody
  <2>5. Login!ThemeShown'
    BY <1>4 DEF Login!Expires, Login!ThemeShown, Login!Flags, Login!MenuHasStored,
        Login!resolveTheme, Login!TypeOK, Login!Themes, Login!Who, Login!Nobody
  <2> QED
    BY <2>1, <2>2, <2>3, <2>4, <2>5
<1>5. CASE Login!ToggleMenu
  <2>1. Login!TypeOK'
    BY <1>5 DEF Login!ToggleMenu, Login!TypeOK, Login!Themes, Login!Who, Login!Nobody
  <2>2. Login!Flags'
    BY <1>5 DEF Login!ToggleMenu, Login!Flags, Login!resolveTheme
  <2>3. Login!NothingComesBack'
    BY <1>5 DEF Login!ToggleMenu, Login!NothingComesBack, Login!TypeOK, Login!Flags, Login!Who,
        Login!Nobody
  <2>4. Login!MenuHasStored'
    BY <1>5 DEF Login!ToggleMenu, Login!MenuHasStored, Login!TypeOK, Login!Themes, Login!Who, Login!Nobody
  <2>5. Login!ThemeShown'
    BY <1>5 DEF Login!ToggleMenu, Login!ThemeShown, Login!Flags, Login!MenuHasStored,
        Login!resolveTheme, Login!TypeOK, Login!Themes, Login!Who, Login!Nobody
  <2> QED
    BY <2>1, <2>2, <2>3, <2>4, <2>5
<1>6. CASE Login!onLogout
  <2>1. Login!TypeOK'
    BY <1>6 DEF Login!onLogout, Login!MenuItems, Login!TypeOK, Login!Themes, Login!Who, Login!Nobody
  <2>2. Login!Flags'
    BY <1>6 DEF Login!onLogout, Login!MenuItems, Login!Flags, Login!resolveTheme
  <2>3. Login!NothingComesBack'
    BY <1>6 DEF Login!onLogout, Login!MenuItems, Login!NothingComesBack, Login!TypeOK, Login!Flags, Login!Who,
        Login!Nobody
  <2>4. Login!MenuHasStored'
    BY <1>6 DEF Login!onLogout, Login!MenuItems, Login!MenuHasStored, Login!TypeOK, Login!Themes, Login!Who, Login!Nobody
  <2>5. Login!ThemeShown'
    BY <1>6 DEF Login!onLogout, Login!MenuItems, Login!ThemeShown, Login!Flags, Login!MenuHasStored,
        Login!resolveTheme, Login!TypeOK, Login!Themes, Login!Who, Login!Nobody
  <2> QED
    BY <2>1, <2>2, <2>3, <2>4, <2>5
<1>7. CASE Login!LoggedOut
  <2>1. Login!TypeOK'
    BY <1>7 DEF Login!LoggedOut, Login!Render, Login!Redirect, Login!HasMenu, Login!TypeOK, Login!Themes,
        Login!Who, Login!Nobody
  <2>2. Login!Flags'
    BY <1>7 DEF Login!LoggedOut, Login!Render, Login!Redirect, Login!HasMenu, Login!Flags,
        Login!resolveTheme
  <2>3. Login!NothingComesBack'
    BY <1>7 DEF Login!LoggedOut, Login!Render, Login!Redirect, Login!HasMenu, Login!NothingComesBack,
        Login!TypeOK, Login!Flags, Login!Who,
        Login!Nobody
  <2>4. Login!MenuHasStored'
    BY <1>7 DEF Login!LoggedOut, Login!Render, Login!Redirect, Login!HasMenu, Login!MenuHasStored,
        Login!TypeOK, Login!Themes, Login!Who, Login!Nobody
  <2>5. Login!ThemeShown'
    BY <1>7 DEF Login!LoggedOut, Login!Render, Login!Redirect, Login!HasMenu, Login!ThemeShown,
        Login!Flags, Login!MenuHasStored, Login!resolveTheme, Login!TypeOK, Login!Themes, Login!Who, Login!Nobody
  <2> QED
    BY <2>1, <2>2, <2>3, <2>4, <2>5
<1>8. CASE Login!SystemChanges
  <2>1. Login!TypeOK'
    BY <1>8 DEF Login!SystemChanges, Login!TypeOK, Login!Themes, Login!Who, Login!Nobody
  <2>2. Login!Flags'
    BY <1>8 DEF Login!SystemChanges, Login!Flags, Login!resolveTheme
  <2>3. Login!NothingComesBack'
    BY <1>8 DEF Login!SystemChanges, Login!NothingComesBack, Login!TypeOK, Login!Flags, Login!Who,
        Login!Nobody
  <2>4. Login!MenuHasStored'
    BY <1>8 DEF Login!SystemChanges, Login!MenuHasStored, Login!TypeOK, Login!Themes, Login!Who, Login!Nobody
  <2>5. Login!ThemeShown'
    BY <1>8 DEF Login!SystemChanges, Login!ThemeShown, Login!Flags, Login!MenuHasStored,
        Login!resolveTheme, Login!TypeOK, Login!Themes, Login!Who, Login!Nobody
  <2> QED
    BY <2>1, <2>2, <2>3, <2>4, <2>5
<1>9. ASSUME NEW who \in {"user", "admin"}, Login!SignIn(who)
      PROVE  Login!Inv'
  <2>1. Login!TypeOK'
    BY <1>9 DEF Login!SignIn, Login!TypeOK, Login!Themes, Login!Who, Login!Nobody
  <2>2. Login!Flags'
    BY <1>9 DEF Login!SignIn, Login!Flags, Login!resolveTheme
  <2>3. Login!NothingComesBack'
    BY <1>9 DEF Login!SignIn, Login!NothingComesBack, Login!TypeOK, Login!Flags, Login!Who,
        Login!Nobody
  <2>4. Login!MenuHasStored'
    BY <1>9 DEF Login!SignIn, Login!MenuHasStored, Login!TypeOK, Login!Themes, Login!Who, Login!Nobody
  <2>5. Login!ThemeShown'
    BY <1>9 DEF Login!SignIn, Login!ThemeShown, Login!Flags, Login!MenuHasStored, Login!resolveTheme,
        Login!TypeOK, Login!Themes, Login!Who, Login!Nobody
  <2> QED
    BY <2>1, <2>2, <2>3, <2>4, <2>5
<1>10. ASSUME NEW r \in {"agents", "my-settings", "admin", "login"}, Login!Visit(r)
       PROVE  Login!Inv'
  <2>1. Login!TypeOK'
    <3>1. loginClicks' \in 0..MaxLoginClicks
      BY <1>10 DEF Login!Visit, Login!TypeOK
    <3>2. route' \in {"login", "agents", "my-settings", "admin"} /\ theme' \in Login!Themes \cup {"unmounted"}
      BY <1>10 DEF Login!Visit, Login!Render, Login!Redirect, Login!HasMenu, Login!TypeOK
    <3> QED
      BY <1>10, <3>1, <3>2 DEF Login!Visit, Login!TypeOK
  <2>2. Login!Flags'
    BY <1>10 DEF Login!Visit, Login!Render, Login!Redirect, Login!HasMenu, Login!Flags,
        Login!resolveTheme
  <2>3. Login!NothingComesBack'
    BY <1>10 DEF Login!Visit, Login!Render, Login!Redirect, Login!HasMenu, Login!NothingComesBack,
        Login!TypeOK, Login!Flags, Login!Who,
        Login!Nobody
  <2>4. Login!MenuHasStored'
    BY <1>10 DEF Login!Visit, Login!Render, Login!Redirect, Login!HasMenu, Login!MenuHasStored,
        Login!TypeOK, Login!Themes, Login!Who, Login!Nobody
  <2>5. Login!ThemeShown'
    BY <1>10 DEF Login!Visit, Login!Render, Login!Redirect, Login!HasMenu, Login!ThemeShown,
        Login!Flags, Login!MenuHasStored, Login!resolveTheme, Login!TypeOK, Login!Themes, Login!Who, Login!Nobody
  <2> QED
    BY <2>1, <2>2, <2>3, <2>4, <2>5
<1>11. ASSUME NEW t \in Login!Themes, Login!setTheme(t)
       PROVE  Login!Inv'
  <2>1. Login!TypeOK'
    BY <1>11 DEF Login!setTheme, Login!MenuItems, Login!TypeOK, Login!Themes, Login!Who, Login!Nobody
  <2>2. Login!Flags'
    BY <1>11 DEF Login!setTheme, Login!MenuItems, Login!Flags, Login!resolveTheme
  <2>3. Login!NothingComesBack'
    BY <1>11 DEF Login!setTheme, Login!MenuItems, Login!NothingComesBack, Login!TypeOK, Login!Flags, Login!Who,
        Login!Nobody
  <2>4. Login!MenuHasStored'
    BY <1>11 DEF Login!setTheme, Login!MenuItems, Login!MenuHasStored, Login!TypeOK, Login!Themes, Login!Who, Login!Nobody
  <2>5. Login!ThemeShown'
    BY <1>11 DEF Login!setTheme, Login!MenuItems, Login!ThemeShown, Login!Flags, Login!MenuHasStored,
        Login!resolveTheme, Login!TypeOK, Login!Themes, Login!Who, Login!Nobody
  <2> QED
    BY <2>1, <2>2, <2>3, <2>4, <2>5
<1>12. CASE UNCHANGED loginVars
  <2>1. Login!TypeOK'
    BY <1>12 DEF loginVars, Login!TypeOK, Login!Themes, Login!Who, Login!Nobody
  <2>2. Login!Flags'
    BY <1>12 DEF loginVars, Login!Flags, Login!resolveTheme
  <2>3. Login!NothingComesBack'
    BY <1>12 DEF loginVars, Login!NothingComesBack, Login!TypeOK, Login!Flags, Login!Who,
        Login!Nobody
  <2>4. Login!MenuHasStored'
    BY <1>12 DEF loginVars, Login!MenuHasStored, Login!TypeOK, Login!Themes, Login!Who, Login!Nobody
  <2>5. Login!ThemeShown'
    BY <1>12 DEF loginVars, Login!ThemeShown, Login!Flags, Login!MenuHasStored, Login!resolveTheme,
        Login!TypeOK, Login!Themes, Login!Who, Login!Nobody
  <2> QED
    BY <2>1, <2>2, <2>3, <2>4, <2>5
<1>13. CASE Login!AnswerFails
  <2>1. Login!TypeOK'
    BY <1>13 DEF Login!AnswerFails, Login!TypeOK, Login!Themes, Login!Who
  <2>2. Login!Flags'
    BY <1>13 DEF Login!AnswerFails, Login!Flags, Login!resolveTheme
  <2>3. Login!NothingComesBack'
    BY <1>13 DEF Login!AnswerFails, Login!NothingComesBack, Login!TypeOK, Login!Flags, Login!Who
  <2>4. Login!MenuHasStored'
    BY <1>13 DEF Login!AnswerFails, Login!MenuHasStored, Login!TypeOK, Login!Themes, Login!Who, Login!Nobody
  <2>5. Login!ThemeShown'
    BY <1>13 DEF Login!AnswerFails, Login!ThemeShown, Login!Flags, Login!MenuHasStored,
        Login!resolveTheme, Login!TypeOK, Login!Themes, Login!Who, Login!Nobody
  <2> QED
    BY <2>1, <2>2, <2>3, <2>4, <2>5
<1>14. CASE Login!LogoutFails
  <2>1. Login!TypeOK'
    BY <1>14 DEF Login!LogoutFails, Login!TypeOK, Login!Themes, Login!Who
  <2>2. Login!Flags'
    BY <1>14 DEF Login!LogoutFails, Login!Flags, Login!resolveTheme
  <2>3. Login!NothingComesBack'
    BY <1>14 DEF Login!LogoutFails, Login!NothingComesBack, Login!TypeOK, Login!Flags, Login!Who
  <2>4. Login!MenuHasStored'
    BY <1>14 DEF Login!LogoutFails, Login!MenuHasStored, Login!TypeOK, Login!Themes, Login!Who, Login!Nobody
  <2>5. Login!ThemeShown'
    BY <1>14 DEF Login!LogoutFails, Login!ThemeShown, Login!Flags, Login!MenuHasStored,
        Login!resolveTheme, Login!TypeOK, Login!Themes, Login!Who, Login!Nobody
  <2> QED
    BY <2>1, <2>2, <2>3, <2>4, <2>5
<1> QED
  BY <1>1, <1>2, <1>3, <1>4, <1>5, <1>6, <1>7, <1>8, <1>9, <1>10, <1>11, <1>12, <1>13, <1>14 DEF Login!Next

(* For all users, pages and orders of requests, answers and failures: after *)
(* a logout that was answered the page stays at the login page until the    *)
(* next sign-in, unless a session request of before the logout is answered  *)
(* by a user after it.                                                      *)
THEOREM SignedOutForGood == Spec => []SignedOutStaysOut
<1> DEFINE I == focus = "login" => Login!Inv
<1>1. Init => I
  BY LoginInit DEF Init
<1>2. I /\ [Next]_vars => I'
  BY OnePart, LoginStep
<1>3. I => SignedOutStaysOut
  BY DEF SignedOutStaysOut, Login!Inv, Login!NothingComesBack, Login!SignedOutStaysOut
<1> QED
  BY <1>1, <1>2, <1>3, PTL DEF Spec

----------------------------------------------------------------------------
(* The panels at the sides                                                  *)

(* The invariant of the panels at the sides holds at first.                 *)
LEMMA LayoutInit == Layout!Init => Layout!Inv
<1> SUFFICES ASSUME Layout!Init PROVE Layout!Inv
  OBVIOUS
<1>1. width \in Layout!Widths
  BY WidthAssumption DEF Layout!Init, Layout!readStoredWidth, Layout!Clamp, Layout!NaN, Layout!Stored,
      Layout!Widths
<1>2. layoutCollapsed \in BOOLEAN
  BY DEF Layout!Init, Layout!readStoredCollapsed
<1>3. Layout!TypeOK
  BY <1>1, <1>2 DEF Layout!Init, Layout!TypeOK
<1>4. Layout!WidthRestored
  BY DEF Layout!Init, Layout!WidthRestored
<1> QED
  BY <1>3, <1>4 DEF Layout!Inv

(* Every action of the panels at the sides keeps its invariant.             *)
LEMMA LayoutStep ==
    ASSUME Layout!Inv, [Layout!Next]_layoutVars
    PROVE  Layout!Inv'
<1> USE WidthAssumption DEF Layout!Inv
<1>1. CASE Layout!Mount
  <2>1. Layout!TypeOK'
    BY <1>1 DEF Layout!Mount, Layout!readStoredCollapsed, Layout!TypeOK, Layout!readStoredWidth,
        Layout!Clamp, Layout!NaN, Layout!Stored, Layout!Widths, Layout!Idle
  <2>2. Layout!WidthRestored'
    BY <1>1 DEF Layout!Mount, Layout!readStoredCollapsed, Layout!WidthRestored, Layout!TypeOK,
        Layout!readStoredWidth, Layout!Clamp, Layout!NaN, Layout!Stored, Layout!Widths, Layout!Idle
  <2> QED
    BY <2>1, <2>2
<1>2. CASE Layout!PointerDown
  <2>1. Layout!TypeOK'
    BY <1>2 DEF Layout!PointerDown, Layout!TypeOK, Layout!readStoredWidth, Layout!Clamp, Layout!NaN,
        Layout!Stored, Layout!Widths, Layout!Idle
  <2>2. Layout!WidthRestored'
    BY <1>2 DEF Layout!PointerDown, Layout!WidthRestored, Layout!TypeOK, Layout!readStoredWidth,
        Layout!Clamp, Layout!NaN, Layout!Stored, Layout!Widths, Layout!Idle
  <2> QED
    BY <2>1, <2>2
<1>3. CASE Layout!PointerUp
  <2>1. Layout!TypeOK'
    BY <1>3 DEF Layout!PointerUp, Layout!TypeOK, Layout!readStoredWidth, Layout!Clamp, Layout!NaN,
        Layout!Stored, Layout!Widths, Layout!Idle
  <2>2. Layout!WidthRestored'
    BY <1>3 DEF Layout!PointerUp, Layout!WidthRestored, Layout!TypeOK, Layout!readStoredWidth,
        Layout!Clamp, Layout!NaN, Layout!Stored, Layout!Widths, Layout!Idle
  <2> QED
    BY <2>1, <2>2
<1>4. CASE Layout!Toggle
  <2>1. Layout!TypeOK'
    BY <1>4 DEF Layout!Toggle, Layout!TypeOK, Layout!readStoredWidth, Layout!Clamp, Layout!NaN,
        Layout!Stored, Layout!Widths, Layout!Idle
  <2>2. Layout!WidthRestored'
    BY <1>4 DEF Layout!Toggle, Layout!WidthRestored, Layout!TypeOK, Layout!readStoredWidth,
        Layout!Clamp, Layout!NaN, Layout!Stored, Layout!Widths, Layout!Idle
  <2> QED
    BY <2>1, <2>2
<1>5. CASE Layout!CloseOnMobile
  <2>1. Layout!TypeOK'
    BY <1>5 DEF Layout!CloseOnMobile, Layout!TypeOK, Layout!readStoredWidth, Layout!Clamp,
        Layout!NaN, Layout!Stored, Layout!Widths, Layout!Idle
  <2>2. Layout!WidthRestored'
    BY <1>5 DEF Layout!CloseOnMobile, Layout!WidthRestored, Layout!TypeOK, Layout!readStoredWidth,
        Layout!Clamp, Layout!NaN, Layout!Stored, Layout!Widths, Layout!Idle
  <2> QED
    BY <2>1, <2>2
<1>6. CASE Layout!Resize
  <2>1. Layout!TypeOK'
    BY <1>6 DEF Layout!Resize, Layout!TypeOK, Layout!readStoredWidth, Layout!Clamp, Layout!NaN,
        Layout!Stored, Layout!Widths, Layout!Idle
  <2>2. Layout!WidthRestored'
    BY <1>6 DEF Layout!Resize, Layout!WidthRestored, Layout!TypeOK, Layout!readStoredWidth,
        Layout!Clamp, Layout!NaN, Layout!Stored, Layout!Widths, Layout!Idle
  <2> QED
    BY <2>1, <2>2
<1>7. ASSUME NEW d \in -MaxDrag..MaxDrag, Layout!PointerMove(d)
      PROVE  Layout!Inv'
  <2> DEFINE w == drag + side * d
  <2>1. w \in Int
    <3>1. side * d \in Int
      <4>1. CASE side = 1
        BY <1>7, <4>1
      <4>2. CASE side = -1
        BY <1>7, <4>2
      <4> QED
        BY <4>1, <4>2 DEF Layout!TypeOK
    <3>2. drag \in Int
      BY DEF Layout!TypeOK, Layout!Widths, Layout!Idle
    <3> QED
      BY <3>1, <3>2
  <2>2. Layout!Clamp(w) \in Layout!Widths
    <3> HIDE DEF w
    <3> QED
      BY <2>1 DEF Layout!Clamp, Layout!Widths
  <2>3. width' = Layout!Clamp(w) /\ storedWidth' = Layout!Clamp(w)
    BY <1>7 DEF Layout!PointerMove, Layout!setWidth
  <2> HIDE DEF w
  <2>4. Layout!TypeOK'
    BY <1>7, <2>2, <2>3 DEF Layout!PointerMove, Layout!TypeOK, Layout!Widths, Layout!Stored
  <2>5. Layout!WidthRestored'
    <3>1. width' \in Layout!Widths /\ storedWidth' = width'
      BY <2>2, <2>3
    <3> QED
      BY <3>1 DEF Layout!WidthRestored, Layout!readStoredWidth, Layout!Clamp, Layout!NaN, Layout!Widths
  <2> QED
    BY <2>4, <2>5
<1>8. CASE UNCHANGED layoutVars
  <2>1. Layout!TypeOK'
    BY <1>8 DEF layoutVars, Layout!TypeOK, Layout!readStoredWidth, Layout!Clamp, Layout!NaN,
        Layout!Stored, Layout!Widths, Layout!Idle
  <2>2. Layout!WidthRestored'
    BY <1>8 DEF layoutVars, Layout!WidthRestored, Layout!TypeOK, Layout!readStoredWidth,
        Layout!Clamp, Layout!NaN, Layout!Stored, Layout!Widths, Layout!Idle
  <2> QED
    BY <2>1, <2>2
<1> QED
  BY <1>1, <1>2, <1>3, <1>4, <1>5, <1>6, <1>7, <1>8 DEF Layout!Next

(* For all widths and drags, users and themes: what localStorage holds is   *)
(* what the screen shows.                                                   *)
THEOREM LayoutAlwaysKept == Spec => []LayoutKept
<1> DEFINE I == (focus = "layout" => Layout!Inv) /\ (focus = "login" => Login!Inv)
<1>1. Init => I
  BY LayoutInit, LoginInit DEF Init
<1>2. I /\ [Next]_vars => I'
  BY OnePart, LayoutStep, LoginStep
<1>3. I => LayoutKept
  BY DEF LayoutKept, Layout!Inv, Login!Inv
<1> QED
  BY <1>1, <1>2, <1>3, PTL DEF Spec

----------------------------------------------------------------------------
(* Team settings                                                            *)

(* The invariant of the team's settings holds at first.                     *)
LEMMA TeamInit == Team!Init => Team!Inv
<1> SUFFICES ASSUME Team!Init PROVE Team!Inv
  OBVIOUS
<1>1. Team!Pair("small", "low") \in Team!PairsThat
  BY DEF Team!PairsThat
<1>2. Team!Settled
  BY <1>1 DEF Team!Init, Team!Settled, Team!Settings
<1>3. Team!TypeOK
  <2>1. /\ \A r \in TeamRoles : stored.pair[r] \in Team!PairsThat /\ teamCache.pair[r] \in Team!PairsThat
        /\ draft \in 0..1 /\ teamClicks \in 0..MaxClicks
    BY <1>2, BoundAssumption DEF Team!Init, Team!Settled, Team!Settings
  <2> QED
    BY <2>1 DEF Team!Init, Team!TypeOK
<1> QED
  BY <1>2, <1>3 DEF Team!Init, Team!Inv, Team!SavesWhatIsShown, Team!PickersShowSettings

(* Every action of the team's settings keeps its invariant.                 *)
LEMMA TeamStep ==
    ASSUME Team!Inv, [Team!Next]_teamVars
    PROVE  Team!Inv'
<1> USE BoundAssumption DEF Team!Inv, Team!Click, Team!Enabled, Team!Save, Team!Picker
<1>1. CASE Team!LoadSettings
  <2>1. Team!TypeOK'
    BY <1>1 DEF Team!LoadSettings, Team!Resync, Team!TypeOK, Team!Settled, Team!Settings,
        Team!PairsThat, Team!Pair, Team!Models, Team!Efforts, Team!DefaultEffort
  <2>2. Team!Settled'
    BY <1>1 DEF Team!LoadSettings, Team!Resync, Team!Settled, Team!TypeOK, Team!Settings,
        Team!PairsThat, Team!Pair, Team!Models, Team!Efforts, Team!DefaultEffort
  <2>3. Team!SavesWhatIsShown'
    BY <1>1 DEF Team!LoadSettings, Team!Resync, Team!SavesWhatIsShown, Team!Settled,
        Team!PickersShowSettings, Team!Settings, Team!PairsThat, Team!Pair, Team!Models,
        Team!Efforts, Team!DefaultEffort
  <2>4. Team!PickersShowSettings'
    BY <1>1 DEF Team!LoadSettings, Team!Resync, Team!PickersShowSettings, Team!Settled,
        Team!SavesWhatIsShown, Team!Settings, Team!PairsThat, Team!Pair, Team!Models, Team!Efforts,
        Team!DefaultEffort
  <2> QED
    BY <2>1, <2>2, <2>3, <2>4
<1>2. CASE Team!LoadModels
  <2>1. Team!TypeOK'
    BY <1>2 DEF Team!LoadModels, Team!TypeOK, Team!Settled, Team!Settings, Team!PairsThat, Team!Pair,
        Team!Models, Team!Efforts, Team!DefaultEffort
  <2>2. Team!Settled'
    BY <1>2 DEF Team!LoadModels, Team!Settled, Team!TypeOK, Team!Settings, Team!PairsThat, Team!Pair,
        Team!Models, Team!Efforts, Team!DefaultEffort
  <2>3. Team!SavesWhatIsShown'
    BY <1>2 DEF Team!LoadModels, Team!SavesWhatIsShown, Team!Settled, Team!PickersShowSettings,
        Team!Settings, Team!PairsThat, Team!Pair, Team!Models, Team!Efforts, Team!DefaultEffort
  <2>4. Team!PickersShowSettings'
    BY <1>2 DEF Team!LoadModels, Team!PickersShowSettings, Team!Settled, Team!SavesWhatIsShown,
        Team!Settings, Team!PairsThat, Team!Pair, Team!Models, Team!Efforts, Team!DefaultEffort
  <2> QED
    BY <2>1, <2>2, <2>3, <2>4
<1>3. CASE Team!BlurRepo
  <2>1. Team!TypeOK'
    BY <1>3 DEF Team!BlurRepo, Team!TypeOK, Team!Settled, Team!Settings, Team!PairsThat, Team!Pair,
        Team!Models, Team!Efforts, Team!DefaultEffort
  <2>2. Team!Settled'
    BY <1>3 DEF Team!BlurRepo, Team!Settled, Team!TypeOK, Team!Settings, Team!PairsThat, Team!Pair,
        Team!Models, Team!Efforts, Team!DefaultEffort
  <2>3. Team!SavesWhatIsShown'
    BY <1>3 DEF Team!BlurRepo, Team!SavesWhatIsShown, Team!Settled, Team!PickersShowSettings,
        Team!Settings, Team!PairsThat, Team!Pair, Team!Models, Team!Efforts, Team!DefaultEffort
  <2>4. Team!PickersShowSettings'
    BY <1>3 DEF Team!BlurRepo, Team!PickersShowSettings, Team!Settled, Team!SavesWhatIsShown,
        Team!Settings, Team!PairsThat, Team!Pair, Team!Models, Team!Efforts, Team!DefaultEffort
  <2> QED
    BY <2>1, <2>2, <2>3, <2>4
<1>4. CASE Team!Saved
  <2>1. Team!TypeOK'
    BY <1>4 DEF Team!Saved, Team!Resync, Team!TypeOK, Team!Settled, Team!Settings, Team!PairsThat,
        Team!Pair, Team!Models, Team!Efforts, Team!DefaultEffort
  <2>2. Team!Settled'
    BY <1>4 DEF Team!Saved, Team!Resync, Team!Settled, Team!TypeOK, Team!Settings, Team!PairsThat,
        Team!Pair, Team!Models, Team!Efforts, Team!DefaultEffort
  <2>3. Team!SavesWhatIsShown'
    BY <1>4 DEF Team!Saved, Team!Resync, Team!SavesWhatIsShown, Team!Settled,
        Team!PickersShowSettings, Team!Settings, Team!PairsThat, Team!Pair, Team!Models,
        Team!Efforts, Team!DefaultEffort
  <2>4. Team!PickersShowSettings'
    BY <1>4 DEF Team!Saved, Team!Resync, Team!PickersShowSettings, Team!Settled,
        Team!SavesWhatIsShown, Team!Settings, Team!PairsThat, Team!Pair, Team!Models, Team!Efforts,
        Team!DefaultEffort
  <2> QED
    BY <2>1, <2>2, <2>3, <2>4
<1>5. CASE Team!SaveFails
  <2>1. Team!TypeOK'
    BY <1>5 DEF Team!SaveFails, Team!TypeOK, Team!Settled, Team!Settings, Team!PairsThat, Team!Pair,
        Team!Models, Team!Efforts, Team!DefaultEffort
  <2>2. Team!Settled'
    BY <1>5 DEF Team!SaveFails, Team!Settled, Team!TypeOK, Team!Settings, Team!PairsThat, Team!Pair,
        Team!Models, Team!Efforts, Team!DefaultEffort
  <2>3. Team!SavesWhatIsShown'
    BY <1>5 DEF Team!SaveFails, Team!SavesWhatIsShown, Team!Settled, Team!PickersShowSettings,
        Team!Settings, Team!PairsThat, Team!Pair, Team!Models, Team!Efforts, Team!DefaultEffort
  <2>4. Team!PickersShowSettings'
    BY <1>5 DEF Team!SaveFails, Team!PickersShowSettings, Team!Settled, Team!SavesWhatIsShown,
        Team!Settings, Team!PairsThat, Team!Pair, Team!Models, Team!Efforts, Team!DefaultEffort
  <2> QED
    BY <2>1, <2>2, <2>3, <2>4
<1>6. ASSUME NEW n \in 0..1, Team!TypeRepo(n)
      PROVE  Team!Inv'
  <2>1. Team!TypeOK'
    BY <1>6 DEF Team!TypeRepo, Team!TypeOK, Team!Settled, Team!Settings, Team!PairsThat, Team!Pair,
        Team!Models, Team!Efforts, Team!DefaultEffort
  <2>2. Team!Settled'
    BY <1>6 DEF Team!TypeRepo, Team!Settled, Team!TypeOK, Team!Settings, Team!PairsThat, Team!Pair,
        Team!Models, Team!Efforts, Team!DefaultEffort
  <2>3. Team!SavesWhatIsShown'
    BY <1>6 DEF Team!TypeRepo, Team!SavesWhatIsShown, Team!Settled, Team!PickersShowSettings,
        Team!Settings, Team!PairsThat, Team!Pair, Team!Models, Team!Efforts, Team!DefaultEffort
  <2>4. Team!PickersShowSettings'
    BY <1>6 DEF Team!TypeRepo, Team!PickersShowSettings, Team!Settled, Team!SavesWhatIsShown,
        Team!Settings, Team!PairsThat, Team!Pair, Team!Models, Team!Efforts, Team!DefaultEffort
  <2> QED
    BY <2>1, <2>2, <2>3, <2>4
<1>7. ASSUME NEW r \in TeamRoles, NEW m \in Team!Models, Team!handleModelChange(r, m)
      PROVE  Team!Inv'
  <2>1. Team!TypeOK'
    BY <1>7, SMTT(30) DEF Team!handleModelChange, Team!TypeOK, Team!Settled, Team!Settings, Team!PairsThat,
        Team!Pair, Team!Models, Team!Efforts, Team!DefaultEffort
  <2>2. Team!Settled'
    BY <1>7, SMTT(30) DEF Team!handleModelChange, Team!Settled, Team!TypeOK, Team!Settings, Team!PairsThat,
        Team!Pair, Team!Models, Team!Efforts, Team!DefaultEffort
  <2>3. Team!SavesWhatIsShown'
    BY <1>7 DEF Team!handleModelChange, Team!SavesWhatIsShown, Team!Settled,
        Team!PickersShowSettings, Team!Settings, Team!PairsThat, Team!Pair, Team!Models,
        Team!Efforts, Team!DefaultEffort
  <2>4. Team!PickersShowSettings'
    BY <1>7, SMTT(30) DEF Team!handleModelChange, Team!PickersShowSettings, Team!Settled,
        Team!SavesWhatIsShown, Team!Settings, Team!PairsThat, Team!Pair, Team!Models, Team!Efforts,
        Team!DefaultEffort
  <2> QED
    BY <2>1, <2>2, <2>3, <2>4
<1>8. ASSUME NEW r \in TeamRoles, NEW e \in {"low", "high"}, Team!handleEffortChange(r, e)
      PROVE  Team!Inv'
  <2>1. Team!TypeOK'
    BY <1>8 DEF Team!handleEffortChange, Team!TypeOK, Team!Settled, Team!Settings, Team!PairsThat,
        Team!Pair, Team!Models, Team!Efforts, Team!DefaultEffort
  <2>2. Team!Settled'
    BY <1>8 DEF Team!handleEffortChange, Team!Settled, Team!TypeOK, Team!Settings, Team!PairsThat,
        Team!Pair, Team!Models, Team!Efforts, Team!DefaultEffort
  <2>3. Team!SavesWhatIsShown'
    <3>1. teamLoaded /\ teamCache \in Team!Settings /\ DOMAIN shown = TeamRoles
          /\ shown \in [TeamRoles -> Team!PairsThat]
      BY <1>8 DEF Team!handleEffortChange, Team!Settled
    <3>2. [shown[r] EXCEPT !.effort = e] = Team!Pair(shown[r].model, e)
      BY <3>1 DEF Team!PairsThat, Team!Pair
    <3>3. shown' = [shown EXCEPT ![r] = Team!Pair(shown[r].model, e)]
      BY <1>8, <3>2 DEF Team!handleEffortChange
    <3>4. saving'.pair = [teamCache.pair EXCEPT ![r] = Team!Pair(shown[r].model, e)]
      BY <1>8, <3>1 DEF Team!handleEffortChange, Team!Settings
    <3>5. failed \/ shown = teamCache.pair
      BY <1>8, <3>1 DEF Team!handleEffortChange, Team!PickersShowSettings
    <3> QED
      BY <1>8, <3>1, <3>3, <3>4, <3>5 DEF Team!handleEffortChange, Team!SavesWhatIsShown
  <2>4. Team!PickersShowSettings'
    BY <1>8 DEF Team!handleEffortChange, Team!PickersShowSettings, Team!Settled,
        Team!SavesWhatIsShown, Team!Settings, Team!PairsThat, Team!Pair, Team!Models, Team!Efforts,
        Team!DefaultEffort
  <2> QED
    BY <2>1, <2>2, <2>3, <2>4
<1>9. ASSUME NEW r \in TeamRoles, NEW p \in Team!PairsThat, Team!OtherSaves(r, p)
      PROVE  Team!Inv'
  <2>1. Team!TypeOK'
    BY <1>9 DEF Team!OtherSaves, Team!TypeOK, Team!Settled, Team!Settings, Team!PairsThat, Team!Pair,
        Team!Models, Team!Efforts, Team!DefaultEffort
  <2>2. Team!Settled'
    BY <1>9 DEF Team!OtherSaves, Team!Settled, Team!TypeOK, Team!Settings, Team!PairsThat, Team!Pair,
        Team!Models, Team!Efforts, Team!DefaultEffort
  <2>3. Team!SavesWhatIsShown'
    BY <1>9 DEF Team!OtherSaves, Team!SavesWhatIsShown, Team!Settled, Team!PickersShowSettings,
        Team!Settings, Team!PairsThat, Team!Pair, Team!Models, Team!Efforts, Team!DefaultEffort
  <2>4. Team!PickersShowSettings'
    BY <1>9 DEF Team!OtherSaves, Team!PickersShowSettings, Team!Settled, Team!SavesWhatIsShown,
        Team!Settings, Team!PairsThat, Team!Pair, Team!Models, Team!Efforts, Team!DefaultEffort
  <2> QED
    BY <2>1, <2>2, <2>3, <2>4
<1>10. CASE UNCHANGED teamVars
  <2>1. Team!TypeOK'
    BY <1>10 DEF teamVars, Team!TypeOK, Team!Settled, Team!Settings, Team!PairsThat, Team!Pair,
        Team!Models, Team!Efforts, Team!DefaultEffort
  <2>2. Team!Settled'
    BY <1>10 DEF teamVars, Team!Settled, Team!TypeOK, Team!Settings, Team!PairsThat, Team!Pair,
        Team!Models, Team!Efforts, Team!DefaultEffort
  <2>3. Team!SavesWhatIsShown'
    BY <1>10 DEF teamVars, Team!SavesWhatIsShown, Team!Settled, Team!PickersShowSettings,
        Team!Settings, Team!PairsThat, Team!Pair, Team!Models, Team!Efforts, Team!DefaultEffort
  <2>4. Team!PickersShowSettings'
    BY <1>10 DEF teamVars, Team!PickersShowSettings, Team!Settled, Team!SavesWhatIsShown,
        Team!Settings, Team!PairsThat, Team!Pair, Team!Models, Team!Efforts, Team!DefaultEffort
  <2> QED
    BY <2>1, <2>2, <2>3, <2>4
<1> QED
  BY <1>1, <1>2, <1>3, <1>4, <1>5, <1>6, <1>7, <1>8, <1>9, <1>10 DEF Team!Next

(* For all sets of roles and models: between saves the pickers of the team  *)
(* defaults show what the settings say.                                     *)
THEOREM PickersAlwaysShow == Spec => []PickersShowSettings
<1> DEFINE I == focus = "team" => Team!Inv
<1>1. Init => I
  BY TeamInit DEF Init
<1>2. I /\ [Next]_vars => I'
  BY OnePart, TeamStep
<1>3. I => PickersShowSettings
  BY DEF PickersShowSettings, Team!Inv
<1> QED
  BY <1>1, <1>2, <1>3, PTL DEF Spec

----------------------------------------------------------------------------
(* The Azure DevOps pages                                                   *)

(* The invariant of the Azure DevOps pages holds at first.                  *)
LEMMA AzureInit == Azure!Init => Azure!Inv
<1> SUFFICES ASSUME Azure!Init PROVE Azure!Inv
  OBVIOUS
<1>1. PICK p \in Azure!Range(Projects) \cup {Azure!NoProject}, d \in Periods \cup {Azure!NoPeriod} :
          history = <<Azure!Search(p, d)>>
  BY DEF Azure!Init
<1>2. Azure!Urls
  BY <1>1 DEF Azure!Urls, Azure!Address, Azure!Search
<1>3. Azure!search = Azure!Search(p, d)
  BY <1>1 DEF Azure!search
<1>4. Azure!TypeOK
  BY <1>1, <1>3, BoundAssumption DEF Azure!Init, Azure!TypeOK, Azure!Search
<1> QED
  BY <1>2, <1>4 DEF Azure!Init, Azure!Inv, Azure!UrlNamesProject

(* Every action of the Azure DevOps pages keeps its invariant.              *)
LEMMA AzureStep ==
    ASSUME Azure!Inv, [Azure!Next]_azureVars
    PROVE  Azure!Inv'
<1> USE BoundAssumption DEF Azure!Inv, Azure!Move
<1>1. ASSUME NEW ok \in BOOLEAN, Azure!LoadProjects(ok)
      PROVE  Azure!Inv'
  <2>1. Azure!TypeOK'
    BY <1>1, ProjectAssumption DEF Azure!LoadProjects, Azure!DefaultProject, Azure!TypeOK,
        Azure!Urls, Azure!Address, Azure!NoProject, Azure!NoPeriod, Azure!Range
  <2>2. Azure!Urls'
    BY <1>1 DEF Azure!LoadProjects, Azure!DefaultProject, Azure!Urls, Azure!Address, Azure!TypeOK,
        Azure!Search, Azure!NoProject, Azure!NoPeriod, Azure!Range
  <2>3. Azure!UrlNamesProject'
    BY <1>1 DEF Azure!LoadProjects, Azure!DefaultProject, Azure!UrlNamesProject, Azure!TypeOK,
        Azure!Urls, Azure!Address, Azure!Search, Azure!search, Azure!NoProject
  <2> QED
    BY <2>1, <2>2, <2>3
<1>2. ASSUME NEW ok \in BOOLEAN, Azure!Load(ok)
      PROVE  Azure!Inv'
  <2>1. Azure!TypeOK'
    BY <1>2 DEF Azure!Load, Azure!key, Azure!activePeriod, Azure!search, Azure!TypeOK,
        Azure!Urls, Azure!Address, Azure!NoProject, Azure!NoPeriod, Azure!Range
  <2>2. Azure!Urls'
    BY <1>2 DEF Azure!Load, Azure!key, Azure!activePeriod, Azure!search, Azure!Urls,
        Azure!Address, Azure!TypeOK, Azure!Search, Azure!NoProject, Azure!NoPeriod, Azure!Range
  <2>3. Azure!UrlNamesProject'
    BY <1>2 DEF Azure!Load, Azure!key, Azure!activePeriod, Azure!search,
        Azure!UrlNamesProject, Azure!TypeOK, Azure!Urls, Azure!Address, Azure!Search, Azure!NoProject
  <2> QED
    BY <2>1, <2>2, <2>3
<1>3. ASSUME NEW p \in Azure!Range(Projects), Azure!SetProject(p)
      PROVE  Azure!Inv'
  <2>1. Azure!TypeOK'
    BY <1>3 DEF Azure!SetProject, Azure!ProjectSelect, Azure!activePeriod, Azure!search,
        Azure!TypeOK, Azure!Urls, Azure!Address, Azure!NoProject, Azure!NoPeriod, Azure!Range
  <2>2. Azure!Urls'
    <3> DEFINE url == Azure!Search(p, Azure!activePeriod)
    <3>1. Azure!activePeriod \in {"7d", "30d", "all"}
      BY DEF Azure!activePeriod
    <3>2. url \in Azure!Address
      BY <3>1 DEF Azure!Search, Azure!Address
    <3>3. history' = history \/ history' = Append(history, url)
      BY <1>3 DEF Azure!SetProject
    <3> HIDE DEF url
    <3> QED
      BY <3>2, <3>3 DEF Azure!Urls
  <2>3. Azure!UrlNamesProject'
    BY <1>3 DEF Azure!SetProject, Azure!ProjectSelect, Azure!activePeriod, Azure!search,
        Azure!UrlNamesProject, Azure!TypeOK, Azure!Urls, Azure!Address, Azure!Search, Azure!NoProject
  <2> QED
    BY <2>1, <2>2, <2>3
<1>4. ASSUME NEW d \in {"7d", "30d", "all"}, Azure!SetPeriod(d)
      PROVE  Azure!Inv'
  <2>1. Azure!TypeOK'
    BY <1>4 DEF Azure!SetPeriod, Azure!TypeOK, Azure!Urls, Azure!Address, Azure!NoProject,
        Azure!NoPeriod, Azure!Range
  <2>2. Azure!Urls'
    BY <1>4 DEF Azure!SetPeriod, Azure!Urls, Azure!Address, Azure!TypeOK, Azure!Search,
        Azure!NoProject, Azure!NoPeriod, Azure!Range
  <2>3. Azure!UrlNamesProject'
    BY <1>4 DEF Azure!SetPeriod, Azure!UrlNamesProject, Azure!TypeOK, Azure!Urls, Azure!Address,
        Azure!Search, Azure!search, Azure!NoProject
  <2> QED
    BY <2>1, <2>2, <2>3
<1>5. CASE Azure!Back
  <2>1. Azure!Urls' /\ history' # <<>>
    <3> DEFINE n == Len(history) - 1
    <3>1. n \in Nat /\ n > 0 /\ history' = [i \in 1..n |-> history[i]]
      BY <1>5 DEF Azure!Back, Azure!Urls
    <3> HIDE DEF n
    <3>2. \A i \in 1..n : history[i] \in Azure!Address
      BY <3>1 DEF Azure!Urls, n
    <3> QED
      BY <3>1, <3>2 DEF Azure!Urls
  <2>2. Azure!TypeOK'
    BY <1>5, <2>1 DEF Azure!Back, Azure!TypeOK
  <2>3. Azure!UrlNamesProject'
    BY <1>5 DEF Azure!Back, Azure!UrlNamesProject
  <2> QED
    BY <2>1, <2>2, <2>3
<1>6. CASE Azure!Reload
  <2>1. Azure!search \in Azure!Address
    BY DEF Azure!search, Azure!TypeOK, Azure!Urls
  <2>2. history' = <<Azure!search>> /\ project' = Azure!search.project
    BY <1>6 DEF Azure!Reload
  <2>3. Azure!search' = Azure!search
    BY <2>2 DEF Azure!search
  <2> HIDE DEF Azure!search
  <2>4. Azure!Urls' /\ history' # <<>>
    BY <2>1, <2>2 DEF Azure!Urls
  <2>5. Azure!TypeOK'
    BY <1>6, <2>1, <2>2, <2>4 DEF Azure!Reload, Azure!TypeOK, Azure!Address
  <2>6. Azure!UrlNamesProject'
    BY <2>2, <2>3 DEF Azure!UrlNamesProject
  <2> QED
    BY <2>4, <2>5, <2>6
<1>7. CASE UNCHANGED azureVars
  <2>1. Azure!TypeOK'
    BY <1>7 DEF azureVars, Azure!TypeOK, Azure!Urls, Azure!Address, Azure!NoProject, Azure!NoPeriod,
        Azure!Range
  <2>2. Azure!Urls'
    BY <1>7 DEF azureVars, Azure!Urls, Azure!Address, Azure!TypeOK, Azure!Search, Azure!NoProject,
        Azure!NoPeriod, Azure!Range
  <2>3. Azure!UrlNamesProject'
    BY <1>7 DEF azureVars, Azure!UrlNamesProject, Azure!TypeOK, Azure!Urls, Azure!Address,
        Azure!Search, Azure!search, Azure!NoProject
  <2> QED
    BY <2>1, <2>2, <2>3
<1> QED
  BY <1>1, <1>2, <1>3, <1>4, <1>5, <1>6, <1>7 DEF Azure!Next

(* For all projects and periods: the project on display is the one that the *)
(* address names.                                                           *)
THEOREM UrlAlwaysNames == Spec => []UrlNamesProject
<1> DEFINE I == focus = "azure" => Azure!Inv
<1>1. Init => I
  BY AzureInit DEF Init
<1>2. I /\ [Next]_vars => I'
  BY OnePart, AzureStep
<1>3. I => UrlNamesProject
  BY DEF UrlNamesProject, Azure!Inv
<1> QED
  BY <1>1, <1>2, <1>3, PTL DEF Spec

----------------------------------------------------------------------------
(* Credentials and repositories                                             *)

(* Division by the size of a page, as the provers need it.                  *)
LEMMA Quotient ==
    ASSUME NEW a \in Nat, NEW b \in Nat \ {0}
    PROVE  /\ a \div b \in Nat
           /\ (a \div b) * b <= a
           /\ a < (a \div b) * b + b
OBVIOUS

(* A product grows with its factor.                                         *)
LEMMA ProductGrows ==
    ASSUME NEW m \in Nat, NEW n \in Nat, NEW b \in Nat, m <= n
    PROVE  m * b \in Nat /\ m * b <= n * b
OBVIOUS

(* The pages: there are no more than repositories, or one; and all but the  *)
(* last are full, so that each page starts within the list.                 *)
LEMMA PagesThereAre ==
    ASSUME NEW n \in Nat, total = n
    PROVE  /\ Access!totalPages \in Nat \ {0}
           /\ Access!totalPages <= IF n = 0 THEN 1 ELSE n
           /\ n > 0 => (Access!totalPages - 1) * PageSize < n
<1> DEFINE P == PageSize
           q == (n + P - 1) \div P
<1>1. P \in Nat \ {0} /\ n + P - 1 \in Nat
  BY PageAssumption
<1>2. q \in Nat /\ q * P <= n + P - 1 /\ n + P - 1 < q * P + P
  BY <1>1, Quotient
<1>3. Access!totalPages = IF 1 > q THEN 1 ELSE q
  BY DEF Access!totalPages, Access!Most
<1> HIDE DEF q, P
<1>4. CASE q = 0
  BY <1>1, <1>2, <1>3, <1>4 DEF P
<1>5. CASE q # 0
  <2>1. q - 1 \in Nat /\ (q - 1) * P = q * P - P
    BY <1>1, <1>2, <1>5
  <2>2. (q - 1) * P <= n - 1
    BY <1>1, <1>2, <2>1
  <2>3. q - 1 <= (q - 1) * P
    BY <1>1, <2>1
  <2>4. Access!totalPages = q
    BY <1>2, <1>3, <1>5
  <2>5. (q - 1) * P \in Int
    BY <1>1, <2>1
  <2> QED
    BY <1>2, <1>5, <2>1, <2>2, <2>3, <2>4, <2>5 DEF P
<1> QED
  BY <1>4, <1>5

(* The invariant of credentials and repositories holds at first.            *)
LEMMA AccessInit == Access!Init => Access!Inv
<1> SUFFICES ASSUME Access!Init PROVE Access!Inv
  OBVIOUS
<1>1. Access!TypeOK
  BY BoundAssumption, PageAssumption DEF Access!Init, Access!TypeOK
<1>2. toggling \in [repo : 0..MaxRepos, on : BOOLEAN]
  BY PageAssumption DEF Access!Init
<1>3. Access!Asked
  BY <1>2 DEF Access!Init, Access!Asked
<1> QED
  BY <1>1, <1>3 DEF Access!Init, Access!Inv, Access!AloneIsRight, Access!SwitchesShown

(* A new request is alone if there is no other, and ends the peace of those *)
(* that were.                                                               *)
LEMMA AskKeeps ==
    ASSUME Access!Inv, NEW p \in Providers, NEW on \in BOOLEAN, Access!Ask(p, on),
           UNCHANGED <<toggling, switched>>
    PROVE  Access!Asked' /\ Access!AloneIsRight'
<1> DEFINE new == [provider |-> p, on |-> on, done |-> FALSE, data |-> {}, alone |-> requests = {}]
           old == Access!Alone(requests, FALSE)
<1>1. requests' = old \cup {new} /\ settled' = FALSE
  BY DEF Access!Ask
<1>2. old \subseteq Access!Requests /\ (\A q \in old : q.alone = FALSE) /\ (requests = {} => old = {})
  <2>1. \A q \in requests : q \in Access!Requests
    BY DEF Access!Inv, Access!Asked
  <2>2. \A q \in requests : [q EXCEPT !.alone = FALSE] \in Access!Requests /\ [q EXCEPT !.alone = FALSE].alone = FALSE
    BY <2>1 DEF Access!Requests
  <2> QED
    BY <2>2 DEF Access!Alone
<1>3. new \in Access!Requests
  BY DEF Access!Requests
<1>4. new.done = FALSE /\ (new.alone => requests = {})
  OBVIOUS
<1> HIDE DEF new, old
<1>5. Access!Asked'
  BY <1>1, <1>2, <1>3 DEF Access!Asked, Access!Inv
<1>6. Access!AloneIsRight'
  BY <1>1, <1>2, <1>4 DEF Access!AloneIsRight
<1> QED
  BY <1>5, <1>6

(* Every action of credentials and repositories keeps its invariant.        *)
LEMMA AccessStep ==
    ASSUME Access!Inv, [Access!Next]_accessVars
    PROVE  Access!Inv'
<1> USE BoundAssumption, PageAssumption DEF Access!Inv, Access!Click, Access!credVars, Access!repoVars
<1>1. ASSUME NEW p \in Providers, Access!TypeKeys(p)
      PROVE  Access!Inv'
  <2>1. Access!TypeOK'
    BY <1>1 DEF Access!TypeKeys, Access!TypeOK, Access!Asked, Access!Requests
  <2>2. Access!Asked'
    BY <1>1 DEF Access!TypeKeys, Access!Asked, Access!TypeOK, Access!Requests
  <2>3. Access!AloneIsRight'
    BY <1>1 DEF Access!TypeKeys, Access!AloneIsRight, Access!TypeOK, Access!Asked, Access!Requests
  <2>4. Access!SwitchesShown'
    BY <1>1 DEF Access!TypeKeys, Access!SwitchesShown
  <2> QED
    BY <2>1, <2>2, <2>3, <2>4
<1>2. ASSUME NEW p \in Providers, Access!Connect(p)
      PROVE  Access!Inv'
  <2>1. Access!TypeOK'
    BY <1>2 DEF Access!Connect, Access!Ask, Access!MayConnect, Access!TypeOK, Access!Asked,
        Access!Requests
  <2>2. Access!Asked' /\ Access!AloneIsRight'
    BY <1>2, AskKeeps DEF Access!Connect
  <2>3. Access!SwitchesShown'
    BY <1>2 DEF Access!Connect, Access!Ask, Access!MayConnect, Access!SwitchesShown
  <2> QED
    BY <2>1, <2>2, <2>3
<1>3. ASSUME NEW p \in Providers, Access!Disconnect(p)
      PROVE  Access!Inv'
  <2>1. Access!TypeOK'
    BY <1>3 DEF Access!Disconnect, Access!Ask, Access!MayDisconnect, Access!TypeOK, Access!Asked,
        Access!Requests
  <2>2. Access!Asked' /\ Access!AloneIsRight'
    BY <1>3, AskKeeps DEF Access!Disconnect
  <2>3. Access!SwitchesShown'
    BY <1>3 DEF Access!Disconnect, Access!Ask, Access!MayDisconnect, Access!SwitchesShown
  <2> QED
    BY <2>1, <2>2, <2>3
<1>4. ASSUME NEW q \in requests, Access!Perform(q)
      PROVE  Access!Inv'
  <2>1. Access!TypeOK'
    BY <1>4 DEF Access!Perform, Access!TypeOK, Access!Asked, Access!Requests
  <2>2. Access!Asked'
    <3> DEFINE new == IF q.on THEN connected \cup {q.provider} ELSE connected \ {q.provider}
               rec == [q EXCEPT !.done = TRUE, !.data = new]
    <3>1. q \in Access!Requests /\ new \in SUBSET Providers
      BY <1>4 DEF Access!Asked, Access!TypeOK, Access!Requests
    <3>2. requests' = (requests \ {q}) \cup {rec}
      BY <1>4 DEF Access!Perform
    <3> HIDE DEF new
    <3>3. rec \in Access!Requests
      BY <3>1 DEF Access!Requests
    <3> HIDE DEF rec
    <3> QED
      BY <1>4, <3>2, <3>3 DEF Access!Perform, Access!Asked
  <2>3. Access!AloneIsRight'
    BY <1>4 DEF Access!Perform, Access!AloneIsRight, Access!TypeOK, Access!Asked, Access!Requests
  <2>4. Access!SwitchesShown'
    BY <1>4 DEF Access!Perform, Access!SwitchesShown
  <2> QED
    BY <2>1, <2>2, <2>3, <2>4
<1>5. ASSUME NEW q \in requests, Access!onSuccess(q)
      PROVE  Access!Inv'
  <2>1. Access!TypeOK'
    BY <1>5 DEF Access!onSuccess, Access!TypeOK, Access!Asked, Access!Requests
  <2>2. Access!Asked'
    BY <1>5 DEF Access!onSuccess, Access!Asked, Access!TypeOK, Access!Requests
  <2>3. Access!AloneIsRight'
    BY <1>5 DEF Access!onSuccess, Access!AloneIsRight, Access!TypeOK, Access!Asked, Access!Requests
  <2>4. Access!SwitchesShown'
    BY <1>5 DEF Access!onSuccess, Access!SwitchesShown
  <2> QED
    BY <2>1, <2>2, <2>3, <2>4
<1>6. ASSUME NEW q \in requests, Access!onError(q)
      PROVE  Access!Inv'
  <2>1. Access!TypeOK'
    BY <1>6 DEF Access!onError, Access!TypeOK, Access!Asked, Access!Requests
  <2>2. Access!Asked'
    BY <1>6 DEF Access!onError, Access!Asked, Access!TypeOK, Access!Requests
  <2>3. Access!AloneIsRight'
    BY <1>6 DEF Access!onError, Access!AloneIsRight, Access!TypeOK, Access!Asked, Access!Requests
  <2>4. Access!SwitchesShown'
    BY <1>6 DEF Access!onError, Access!SwitchesShown
  <2> QED
    BY <2>1, <2>2, <2>3, <2>4
<1>7. CASE Access!Prev
  <2>1. Access!TypeOK'
    BY <1>7 DEF Access!Prev, Access!Most, Access!TypeOK, Access!Asked, Access!Requests
  <2>2. Access!Asked'
    BY <1>7 DEF Access!Prev, Access!Most, Access!Asked, Access!TypeOK, Access!Requests
  <2>3. Access!AloneIsRight'
    BY <1>7 DEF Access!Prev, Access!Most, Access!AloneIsRight, Access!TypeOK, Access!Asked,
        Access!Requests
  <2>4. Access!SwitchesShown'
    BY <1>7 DEF Access!Prev, Access!Most, Access!SwitchesShown
  <2> QED
    BY <2>1, <2>2, <2>3, <2>4
<1>8. CASE Access!PageNext
  <2>1. Access!TypeOK'
    <3>1. total \in Nat /\ total <= MaxRepos
      BY DEF Access!TypeOK
    <3>2. Access!totalPages \in Nat \ {0} /\ Access!totalPages <= MaxRepos + 1
      BY <3>1, PagesThereAre
    <3>3. accessPage' \in 0..MaxRepos
      BY <1>8, <3>2 DEF Access!PageNext, Access!Least, Access!TypeOK
    <3> QED
      BY <1>8, <3>3 DEF Access!PageNext, Access!TypeOK
  <2>2. Access!Asked'
    BY <1>8 DEF Access!PageNext, Access!Least, Access!Asked, Access!TypeOK, Access!Requests
  <2>3. Access!AloneIsRight'
    BY <1>8 DEF Access!PageNext, Access!Least, Access!AloneIsRight, Access!TypeOK, Access!Asked,
        Access!Requests
  <2>4. Access!SwitchesShown'
    BY <1>8 DEF Access!PageNext, Access!Least, Access!SwitchesShown
  <2> QED
    BY <2>1, <2>2, <2>3, <2>4
<1>9. ASSUME NEW n \in 0..MaxRepos, Access!LoadRepos(n)
      PROVE  Access!Inv'
  <2>1. Access!TypeOK'
    BY <1>9 DEF Access!LoadRepos, Access!TypeOK, Access!Asked, Access!Requests
  <2>2. Access!Asked'
    BY <1>9 DEF Access!LoadRepos, Access!Asked, Access!TypeOK, Access!Requests
  <2>3. Access!AloneIsRight'
    BY <1>9 DEF Access!LoadRepos, Access!AloneIsRight, Access!TypeOK, Access!Asked, Access!Requests
  <2>4. Access!SwitchesShown'
    BY <1>9 DEF Access!LoadRepos, Access!SwitchesShown
  <2> QED
    BY <2>1, <2>2, <2>3, <2>4
<1>10. ASSUME NEW n \in 0..MaxRepos, Access!OtherOwner(n)
       PROVE  Access!Inv'
  <2>1. Access!TypeOK'
    BY <1>10 DEF Access!OtherOwner, Access!TypeOK, Access!Asked, Access!Requests
  <2>2. Access!Asked'
    BY <1>10 DEF Access!OtherOwner, Access!Asked, Access!TypeOK, Access!Requests
  <2>3. Access!AloneIsRight'
    BY <1>10 DEF Access!OtherOwner, Access!AloneIsRight, Access!TypeOK, Access!Asked, Access!Requests
  <2>4. Access!SwitchesShown'
    BY <1>10 DEF Access!OtherOwner, Access!SwitchesShown
  <2> QED
    BY <2>1, <2>2, <2>3, <2>4
<1>11. ASSUME NEW r \in 1..MaxRepos, Access!Toggle(r)
       PROVE  Access!Inv'
  <2>1. Access!TypeOK'
    BY <1>11 DEF Access!Toggle, Access!TypeOK, Access!Asked, Access!Requests
  <2>2. Access!Asked'
    <3> DEFINE on == r \notin shownEnabled
    <3>1. on \in BOOLEAN /\ r \in 0..MaxRepos
      OBVIOUS
    <3>2. toggling' = [repo |-> r, on |-> on] /\ switched' = FALSE /\ UNCHANGED <<requests, settled>>
      BY <1>11 DEF Access!Toggle
    <3> HIDE DEF on
    <3> QED
      BY <3>1, <3>2 DEF Access!Asked
  <2>3. Access!AloneIsRight'
    BY <1>11 DEF Access!Toggle, Access!AloneIsRight, Access!TypeOK, Access!Asked, Access!Requests
  <2>4. Access!SwitchesShown'
    BY <1>11 DEF Access!Toggle, Access!SwitchesShown
  <2> QED
    BY <2>1, <2>2, <2>3, <2>4
<1>12. ASSUME NEW done \in BOOLEAN, NEW answered \in BOOLEAN, Access!Toggled(done, answered)
       PROVE  Access!Inv'
  <2>1. Access!TypeOK'
    <3>1. toggling.repo \in 1..MaxRepos
      BY <1>12 DEF Access!Toggled, Access!Asked
    <3>2. enabled' \subseteq 1..MaxRepos /\ shownEnabled' \subseteq 1..MaxRepos
      BY <1>12, <3>1 DEF Access!Toggled, Access!TypeOK
    <3> QED
      BY <1>12, <3>2 DEF Access!Toggled, Access!TypeOK
  <2>2. Access!Asked'
    BY <1>12 DEF Access!Toggled, Access!Asked, Access!TypeOK, Access!Requests
  <2>3. Access!AloneIsRight'
    BY <1>12 DEF Access!Toggled, Access!AloneIsRight, Access!TypeOK, Access!Asked, Access!Requests
  <2>4. Access!SwitchesShown'
    BY <1>12 DEF Access!Toggled, Access!SwitchesShown
  <2> QED
    BY <2>1, <2>2, <2>3, <2>4
<1>13. CASE UNCHANGED accessVars
  <2>1. Access!TypeOK'
    BY <1>13 DEF accessVars, Access!TypeOK, Access!Asked, Access!Requests
  <2>2. Access!Asked'
    BY <1>13 DEF accessVars, Access!Asked, Access!TypeOK, Access!Requests
  <2>3. Access!AloneIsRight'
    BY <1>13 DEF accessVars, Access!AloneIsRight, Access!TypeOK, Access!Asked, Access!Requests
  <2>4. Access!SwitchesShown'
    BY <1>13 DEF accessVars, Access!SwitchesShown
  <2> QED
    BY <2>1, <2>2, <2>3, <2>4
<1> QED
  BY <1>1, <1>2, <1>3, <1>4, <1>5, <1>6, <1>7, <1>8, <1>9, <1>10, <1>11, <1>12, <1>13 DEF Access!Next

(* The page on display starts before the end of the list, and ends after    *)
(* its start.                                                               *)
LEMMA NoEmptyPage ==
    ASSUME Access!TypeOK
    PROVE  Access!PageNotEmpty
<1> SUFFICES ASSUME total > 0
             PROVE  Access!pageRepos # {} /\ Access!pageRepos \subseteq 1..total
  BY DEF Access!PageNotEmpty
<1> DEFINE pages == Access!totalPages
           here == Access!safePage
           start == here * PageSize
<1>1. total \in Nat /\ accessPage \in Nat /\ PageSize \in Nat \ {0}
  BY PageAssumption DEF Access!TypeOK
<1>2. pages \in Nat \ {0} /\ (pages - 1) * PageSize < total
  BY <1>1, PagesThereAre
<1>3. here \in Nat /\ here <= pages - 1
  BY <1>1, <1>2 DEF Access!safePage, Access!Least
<1> HIDE DEF pages, here
<1>4. start \in Nat /\ start <= (pages - 1) * PageSize
  BY <1>1, <1>2, <1>3, ProductGrows
<1>5. start < total
  <2>1. (pages - 1) * PageSize \in Int
    BY <1>1, <1>2
  <2> HIDE DEF start
  <2> QED
    BY <1>1, <1>2, <1>4, <2>1
<1>6. Access!pageRepos = (start + 1)..(IF start + PageSize < total THEN start + PageSize ELSE total)
  BY DEF Access!pageRepos, Access!pageStart, Access!pageEnd, Access!Least, here
<1> HIDE DEF start
<1>7. start + 1 \in Access!pageRepos
  BY <1>1, <1>4, <1>5, <1>6
<1>8. Access!pageRepos \subseteq 1..total
  <2> SUFFICES ASSUME NEW r \in Access!pageRepos PROVE r \in 1..total
    OBVIOUS
  <2>1. start + PageSize \in Nat
    BY <1>1, <1>4
  <2> QED
    BY <1>1, <1>4, <1>6, <2>1
<1> QED
  BY <1>7, <1>8

(* For all providers, numbers of repositories and sizes of a page: after a  *)
(* request that was alone and answered the credentials on display are those *)
(* that are stored, after a switch that was answered the repositories are,  *)
(* whatever failed or got lost before, and no page is empty.                *)
THEOREM AccessAlwaysShown == Spec => []AccessShown
<1> DEFINE I == focus = "access" => Access!Inv
<1>1. Init => I
  BY AccessInit DEF Init
<1>2. I /\ [Next]_vars => I'
  BY OnePart, AccessStep
<1>3. I => AccessShown
  <2> SUFFICES ASSUME focus = "access", Access!Inv PROVE AccessShown
    BY DEF AccessShown
  <2>1. Access!AccessShown
    BY DEF Access!Inv, Access!AloneIsRight, Access!SwitchesShown, Access!AccessShown
  <2> QED
    BY <2>1, NoEmptyPage DEF AccessShown, Access!Inv
<1> QED
  BY <1>1, <1>2, <1>3, PTL DEF Spec

----------------------------------------------------------------------------
(* The profile pages                                                        *)

(* The models and efforts on offer.                                         *)
LEMMA ModelFacts ==
    /\ \A m \in Profile!ModelIds : Profile!Efforts[m] \subseteq Profile!EffortIds /\ Profile!DefaultEffort[m] \in Profile!Efforts[m]
    /\ Profile!TeamModel \in Profile!ModelIds /\ Profile!TeamEffort \in Profile!Efforts[Profile!TeamModel]
    /\ Profile!Unset \notin Profile!ModelIds /\ Profile!Unset \notin Profile!EffortIds
    /\ Profile!Models[1] \in Profile!ModelIds
BY DEF Profile!ModelIds, Profile!EffortIds, Profile!Efforts, Profile!DefaultEffort, Profile!TeamModel, Profile!TeamEffort,
    Profile!Unset, Profile!Models

(* A profile falls back on the agent's pair and then on the team's: what    *)
(* comes out is a pair again, it fits if the profile does, and names a      *)
(* model if the agent's does or the options are there.                      *)
LEMMA FallsBack ==
    ASSUME NEW c \in Profile!Profiles, NEW o \in BOOLEAN, NEW r \in Profile!Roles,
           NEW p, p = [model |-> Profile!Or(c.pair[r].model, Profile!Or(c.pair["agent"].model, IF o THEN Profile!TeamModel ELSE Profile!Unset)),
                       effort |-> Profile!Or(c.pair[r].effort, Profile!Or(c.pair["agent"].effort, IF o THEN Profile!TeamEffort ELSE Profile!Unset))]
    PROVE  /\ p \in Profile!Pair
           /\ (c.pair["agent"].model # Profile!Unset \/ o) => p.model # Profile!Unset
           /\ Profile!Fits(c) => Profile!FitsPair(p)
           /\ Profile!Fits(c) /\ c.pair[r].model # Profile!Unset => p = c.pair[r]
<1> DEFINE own == c.pair[r]
           agent == c.pair["agent"]
<1>1. "agent" \in Profile!Roles /\ own \in Profile!Pair /\ agent \in Profile!Pair
  BY DEF Profile!Profiles, Profile!Roles
<1>2. Profile!Fits(c) => Profile!FitsPair(own) /\ Profile!FitsPair(agent)
  BY <1>1 DEF Profile!Fits
<1>3. /\ own.model \in Profile!ModelIds \cup {Profile!Unset} /\ own.effort \in Profile!EffortIds \cup {Profile!Unset}
      /\ agent.model \in Profile!ModelIds \cup {Profile!Unset} /\ agent.effort \in Profile!EffortIds \cup {Profile!Unset}
      /\ own = [model |-> own.model, effort |-> own.effort]
  BY <1>1 DEF Profile!Pair
<1> HIDE DEF own, agent
<1>4. p = [model |-> Profile!Or(own.model, Profile!Or(agent.model, IF o THEN Profile!TeamModel ELSE Profile!Unset)),
           effort |-> Profile!Or(own.effort, Profile!Or(agent.effort, IF o THEN Profile!TeamEffort ELSE Profile!Unset))]
  BY DEF own, agent
<1> DEFINE model == Profile!Or(own.model, Profile!Or(agent.model, IF o THEN Profile!TeamModel ELSE Profile!Unset))
           effort == Profile!Or(own.effort, Profile!Or(agent.effort, IF o THEN Profile!TeamEffort ELSE Profile!Unset))
<1>5. /\ model \in Profile!ModelIds \cup {Profile!Unset} /\ effort \in Profile!EffortIds \cup {Profile!Unset}
      /\ (agent.model # Profile!Unset \/ o) => model # Profile!Unset
  BY <1>3, ModelFacts DEF Profile!Or
<1>6. Profile!FitsPair(own) /\ Profile!FitsPair(agent)
        => IF model = Profile!Unset THEN effort = Profile!Unset ELSE effort \in Profile!Efforts[model]
  BY <1>3, ModelFacts DEF Profile!Or, Profile!FitsPair
<1>7. Profile!FitsPair(own) /\ own.model # Profile!Unset => model = own.model /\ effort = own.effort
  BY <1>3, ModelFacts DEF Profile!Or, Profile!FitsPair
<1>8. p = [model |-> model, effort |-> effort]
  BY <1>4
<1> HIDE DEF model, effort
<1>9. p \in Profile!Pair /\ p.model = model /\ p.effort = effort
  BY <1>5, <1>8 DEF Profile!Pair
<1>10. (c.pair["agent"].model # Profile!Unset \/ o) => p.model # Profile!Unset
  BY <1>5, <1>9 DEF agent
<1>11. Profile!Fits(c) => Profile!FitsPair(p)
  BY <1>2, <1>6, <1>9 DEF Profile!FitsPair
<1>12. Profile!Fits(c) /\ own.model # Profile!Unset => p = own
  BY <1>2, <1>3, <1>7, <1>8
<1> QED
  BY <1>9, <1>10, <1>11, <1>12 DEF own

(* What the form takes from a profile.                                      *)
LEMMA FillsForm ==
    ASSUME NEW c \in Profile!Profiles, NEW o \in BOOLEAN
    PROVE  /\ Profile!Filled(c, o) \in Profile!FormFields
           /\ c.pair["agent"].model # Profile!Unset \/ o => \A r \in Profile!Roles : Profile!Filled(c, o).pair[r].model # Profile!Unset
           /\ Profile!Fits(c) => \A r \in Profile!Roles : Profile!FitsPair(Profile!Filled(c, o).pair[r])
<1> DEFINE p(r) == [model |-> Profile!Or(c.pair[r].model, Profile!Or(c.pair["agent"].model, IF o THEN Profile!TeamModel ELSE Profile!Unset)),
                    effort |-> Profile!Or(c.pair[r].effort, Profile!Or(c.pair["agent"].effort, IF o THEN Profile!TeamEffort ELSE Profile!Unset))]
<1>1. Profile!Filled(c, o) = [pair |-> [r \in Profile!Roles |-> p(r)], repo |-> c.repo]
  BY DEF Profile!Filled
<1>2. \A r \in Profile!Roles : /\ p(r) \in Profile!Pair
                               /\ c.pair["agent"].model # Profile!Unset \/ o => p(r).model # Profile!Unset
                               /\ Profile!Fits(c) => Profile!FitsPair(p(r))
  BY FallsBack
<1>3. c.repo \in 0..1
  BY DEF Profile!Profiles
<1> HIDE DEF p
<1>4. \A r \in Profile!Roles : Profile!Filled(c, o).pair[r] = p(r)
  BY <1>1
<1>5. Profile!Filled(c, o) \in Profile!FormFields
  BY <1>1, <1>2, <1>3 DEF Profile!FormFields
<1> QED
  BY <1>2, <1>4, <1>5

(* A save starts from the cached profile.                                   *)
LEMMA StartsFromCache ==
    ASSUME cache \in Profile!Profiles, options \in BOOLEAN
    PROVE  /\ Profile!buildProfileUpdate \in Profile!Profiles
           /\ Profile!buildProfileUpdate.repo = cache.repo /\ Profile!buildProfileUpdate.prs = cache.prs
           /\ Profile!buildProfileUpdate.drafts = cache.drafts
           /\ Profile!Fits(cache) => Profile!Fits(Profile!buildProfileUpdate)
           /\ Profile!Fits(cache) => \A r \in Profile!Roles :
                  cache.pair[r].model # Profile!Unset => Profile!buildProfileUpdate.pair[r] = cache.pair[r]
<1> DEFINE p(r) == [model |-> Profile!Or(cache.pair[r].model, Profile!Or(cache.pair["agent"].model, IF options THEN Profile!TeamModel ELSE Profile!Unset)),
                    effort |-> Profile!Or(cache.pair[r].effort, Profile!Or(cache.pair["agent"].effort, IF options THEN Profile!TeamEffort ELSE Profile!Unset))]
<1>1. Profile!buildProfileUpdate = [pair |-> [r \in Profile!Roles |-> p(r)], repo |-> cache.repo, prs |-> cache.prs, drafts |-> cache.drafts]
  BY DEF Profile!buildProfileUpdate, Profile!fallbackModel, Profile!fallbackEffort
<1>2. \A r \in Profile!Roles : /\ p(r) \in Profile!Pair
                               /\ Profile!Fits(cache) => Profile!FitsPair(p(r))
                               /\ Profile!Fits(cache) /\ cache.pair[r].model # Profile!Unset => p(r) = cache.pair[r]
  BY FallsBack
<1>3. cache.repo \in 0..1 /\ cache.prs \in BOOLEAN /\ cache.drafts \in {"null", "true", "false"}
  BY DEF Profile!Profiles
<1> HIDE DEF p
<1>4. \A r \in Profile!Roles : Profile!buildProfileUpdate.pair[r] = p(r)
  BY <1>1
<1>5. Profile!buildProfileUpdate \in Profile!Profiles
  BY <1>1, <1>2, <1>3 DEF Profile!Profiles
<1>6. /\ Profile!buildProfileUpdate.repo = cache.repo /\ Profile!buildProfileUpdate.prs = cache.prs
      /\ Profile!buildProfileUpdate.drafts = cache.drafts
  BY <1>1
<1>7. Profile!Fits(cache) => Profile!Fits(Profile!buildProfileUpdate)
  <2> SUFFICES ASSUME Profile!Fits(cache), NEW r \in Profile!Roles PROVE Profile!FitsPair(Profile!buildProfileUpdate.pair[r])
    BY DEF Profile!Fits
  <2> QED
    BY <1>2, <1>4
<1> QED
  BY <1>2, <1>4, <1>5, <1>6, <1>7

(* The effects on the efforts: models stay, and with the options every      *)
(* effort is one of its model's.                                            *)
LEMMA SnapsEfforts ==
    ASSUME NEW f \in Profile!FormFields, NEW o \in BOOLEAN
    PROVE  /\ Profile!Snap(f, o) \in Profile!FormFields
           /\ \A r \in Profile!Roles : Profile!Snap(f, o).pair[r].model = f.pair[r].model
           /\ ~o => Profile!Snap(f, o) = f
           /\ o => \A r \in Profile!Roles : f.pair[r].model # Profile!Unset => Profile!FitsPair(Profile!Snap(f, o).pair[r])
<1>1. CASE ~o
  BY <1>1 DEF Profile!Snap
<1>2. CASE o
  <2> DEFINE m(r) == Profile!currentModel(f, r)
             p(r) == IF f.pair[r].effort \in Profile!Efforts[m(r)] THEN f.pair[r]
                     ELSE [f.pair[r] EXCEPT !.effort = Profile!DefaultEffort[m(r)]]
  <2>1. Profile!Snap(f, o) = [f EXCEPT !.pair = [r \in Profile!Roles |-> p(r)]]
    BY <1>2 DEF Profile!Snap
  <2>2. ASSUME NEW r \in Profile!Roles
        PROVE  /\ p(r) \in Profile!Pair /\ p(r).model = f.pair[r].model
               /\ f.pair[r].model # Profile!Unset => Profile!FitsPair(p(r))
    <3>1. f.pair[r] \in Profile!Pair
      BY DEF Profile!FormFields
    <3>2. m(r) \in Profile!ModelIds /\ (f.pair[r].model # Profile!Unset => m(r) = f.pair[r].model)
      BY <3>1, ModelFacts DEF Profile!currentModel, Profile!Pair
    <3> HIDE DEF m
    <3>3. Profile!DefaultEffort[m(r)] \in Profile!Efforts[m(r)] /\ Profile!Efforts[m(r)] \subseteq Profile!EffortIds
      BY <3>2, ModelFacts
    <3>4. p(r) \in Profile!Pair /\ p(r).model = f.pair[r].model /\ p(r).effort \in Profile!Efforts[m(r)]
      BY <3>1, <3>3 DEF Profile!Pair
    <3> HIDE DEF p
    <3> QED
      BY <3>2, <3>4 DEF Profile!FitsPair
  <2> HIDE DEF p
  <2>3. Profile!Snap(f, o) \in Profile!FormFields /\ \A r \in Profile!Roles : Profile!Snap(f, o).pair[r] = p(r)
    BY <2>1, <2>2 DEF Profile!FormFields
  <2> QED
    BY <1>2, <2>2, <2>3
<1> QED
  BY <1>1, <1>2

(* The effects of the page keep what is known of its form.                  *)
LEMMA EffectsKeepForm ==
    ASSUME NEW f \in Profile!FormFields, NEW c \in Profile!Profiles, NEW l \in BOOLEAN, NEW o \in BOOLEAN,
           NEW i \in BOOLEAN,
           i => \A r \in Profile!Roles : f.pair[r].model # Profile!Unset,
           ~i /\ ~o => f.pair = Profile!EmptyForm.pair,
           initialized' = (i \/ Profile!MayFill(c, l, o)),
           form' = Profile!Snap(IF ~i /\ Profile!MayFill(c, l, o) THEN Profile!Filled(c, o) ELSE f, o)
    PROVE  /\ form' \in Profile!FormFields /\ initialized' \in BOOLEAN
           /\ initialized' => \A r \in Profile!Roles : form'.pair[r].model # Profile!Unset
           /\ ~initialized' /\ ~o => form'.pair = Profile!EmptyForm.pair
           /\ l /\ o => initialized'
           /\ Profile!Fits(c) /\ (~o => \A r \in Profile!Roles : f.pair[r].model # Profile!Unset => Profile!FitsPair(f.pair[r]))
                => \A r \in Profile!Roles : form'.pair[r].model # Profile!Unset => Profile!FitsPair(form'.pair[r])
<1> DEFINE may == Profile!MayFill(c, l, o)
           g == IF ~i /\ may THEN Profile!Filled(c, o) ELSE f
<1>1. form' = Profile!Snap(g, o) /\ initialized' = (i \/ may)
  OBVIOUS
<1>2. (may => c.pair["agent"].model # Profile!Unset \/ o) /\ (l /\ o => may)
  BY DEF Profile!MayFill
<1>3. may \in BOOLEAN
  BY DEF Profile!MayFill
<1> HIDE DEF may
<1>4. /\ g \in Profile!FormFields
      /\ i \/ may => \A r \in Profile!Roles : g.pair[r].model # Profile!Unset
      /\ ~(i \/ may) => g = f
      /\ Profile!Fits(c) /\ (~o => \A r \in Profile!Roles : f.pair[r].model # Profile!Unset => Profile!FitsPair(f.pair[r])) /\ ~o
            => \A r \in Profile!Roles : g.pair[r].model # Profile!Unset => Profile!FitsPair(g.pair[r])
  <2>1. CASE ~i /\ may
    BY <1>2, <2>1, FillsForm
  <2>2. CASE ~(~i /\ may)
    BY <2>2
  <2> QED
    BY <2>1, <2>2
<1> HIDE DEF g
<1>5. /\ Profile!Snap(g, o) \in Profile!FormFields
      /\ \A r \in Profile!Roles : Profile!Snap(g, o).pair[r].model = g.pair[r].model
      /\ ~o => Profile!Snap(g, o) = g
      /\ o => \A r \in Profile!Roles : g.pair[r].model # Profile!Unset => Profile!FitsPair(Profile!Snap(g, o).pair[r])
  BY <1>4, SnapsEfforts
<1>6. form' \in Profile!FormFields /\ initialized' \in BOOLEAN
  BY <1>1, <1>5
<1>7. initialized' => \A r \in Profile!Roles : form'.pair[r].model # Profile!Unset
  BY <1>1, <1>4, <1>5
<1>8. ~initialized' /\ ~o => form'.pair = Profile!EmptyForm.pair
  BY <1>1, <1>4, <1>5
<1>9. l /\ o => initialized'
  BY <1>1, <1>2
<1>10. ASSUME Profile!Fits(c), ~o => \A r \in Profile!Roles : f.pair[r].model # Profile!Unset => Profile!FitsPair(f.pair[r]),
              NEW r \in Profile!Roles, form'.pair[r].model # Profile!Unset
       PROVE  Profile!FitsPair(form'.pair[r])
  BY <1>1, <1>4, <1>5, <1>10
<1> QED
  BY <1>6, <1>7, <1>8, <1>9, <1>10

(* The effects of an answer, on whichever page.                             *)
LEMMA AnswerKeepsForm ==
    ASSUME Profile!TypeOK, Profile!Fields, Profile!FormNames, Profile!AllFit,
           NEW c \in Profile!Profiles, NEW l \in BOOLEAN, NEW o \in BOOLEAN, options => o,
           Profile!EffectsIfThere(c, l, o)
    PROVE  /\ form' \in Profile!FormFields /\ initialized' \in BOOLEAN
           /\ initialized' => page = "cloud-agents" /\ \A r \in Profile!Roles : form'.pair[r].model # Profile!Unset
           /\ ~initialized' /\ ~o => form'.pair = Profile!EmptyForm.pair
           /\ page = "cloud-agents" /\ l /\ o => initialized'
           /\ ~premature /\ Profile!Fits(c)
                => \A r \in Profile!Roles : form'.pair[r].model # Profile!Unset => Profile!FitsPair(form'.pair[r])
<1>1. initialized \in BOOLEAN /\ options \in BOOLEAN /\ form \in Profile!FormFields
  BY DEF Profile!TypeOK, Profile!Fields
<1>2. CASE page = "cloud-agents"
  <2>1. /\ initialized' = (initialized \/ Profile!MayFill(c, l, o))
        /\ form' = Profile!Snap(IF ~initialized /\ Profile!MayFill(c, l, o) THEN Profile!Filled(c, o) ELSE form, o)
    BY <1>2 DEF Profile!EffectsIfThere, Profile!Effects
  <2>2. /\ initialized => \A r \in Profile!Roles : form.pair[r].model # Profile!Unset
        /\ ~initialized /\ ~o => form.pair = Profile!EmptyForm.pair
    BY DEF Profile!FormNames
  <2>3. ~premature => \A r \in Profile!Roles : form.pair[r].model # Profile!Unset => Profile!FitsPair(form.pair[r])
    BY DEF Profile!AllFit
  <2> QED
    BY <1>1, <1>2, <2>1, <2>2, <2>3, EffectsKeepForm
<1>3. CASE page # "cloud-agents"
  <2>1. UNCHANGED <<initialized, form>>
    BY <1>3 DEF Profile!EffectsIfThere, Profile!Elsewhere
  <2> QED
    BY <1>1, <1>3, <2>1 DEF Profile!FormNames, Profile!AllFit
<1> QED
  BY <1>2, <1>3

(* The effects of a change of the form.                                     *)
LEMMA EditKeepsForm ==
    ASSUME Profile!TypeOK, Profile!Fields, Profile!FormNames, Profile!AllFit, page = "cloud-agents",
           NEW f \in Profile!FormFields, options \/ f.pair = form.pair,
           \A r \in Profile!Roles : form.pair[r].model # Profile!Unset => f.pair[r].model # Profile!Unset,
           Profile!Effects(f, cache, loaded, options), UNCHANGED <<page, options, loaded, cache, server, get, wanted, saves, premature>>
    PROVE  /\ initialized' \in BOOLEAN
           /\ Profile!Fields' /\ Profile!FormNames' /\ Profile!AllFit'
<1>1. initialized \in BOOLEAN /\ options \in BOOLEAN /\ loaded \in BOOLEAN /\ form \in Profile!FormFields /\ cache \in Profile!Profiles
  BY DEF Profile!TypeOK, Profile!Fields
<1>2. /\ initialized' = (initialized \/ Profile!MayFill(cache, loaded, options))
      /\ form' = Profile!Snap(IF ~initialized /\ Profile!MayFill(cache, loaded, options) THEN Profile!Filled(cache, options) ELSE f, options)
  BY DEF Profile!Effects
<1>3. /\ initialized => \A r \in Profile!Roles : f.pair[r].model # Profile!Unset
      /\ ~initialized /\ ~options => f.pair = Profile!EmptyForm.pair
  BY DEF Profile!FormNames
<1>4. ~premature /\ ~options => \A r \in Profile!Roles : f.pair[r].model # Profile!Unset => Profile!FitsPair(f.pair[r])
  BY DEF Profile!AllFit
<1>5. ~premature => Profile!Fits(cache)
  BY DEF Profile!AllFit
<1>6. /\ form' \in Profile!FormFields /\ initialized' \in BOOLEAN
      /\ initialized' => \A r \in Profile!Roles : form'.pair[r].model # Profile!Unset
      /\ ~initialized' /\ ~options => form'.pair = Profile!EmptyForm.pair
      /\ loaded /\ options => initialized'
      /\ ~premature => \A r \in Profile!Roles : form'.pair[r].model # Profile!Unset => Profile!FitsPair(form'.pair[r])
  BY <1>1, <1>2, <1>3, <1>4, <1>5, EffectsKeepForm
<1>7. Profile!Fields'
  BY <1>6 DEF Profile!Fields
<1>8. Profile!FormNames'
  BY <1>6 DEF Profile!FormNames
<1>9. Profile!AllFit'
  BY <1>6 DEF Profile!AllFit, Profile!Fits
<1> QED
  BY <1>6, <1>7, <1>8, <1>9

(* The component counts its saves as these proofs do.                       *)
LEMMA SameFinite == ASSUME NEW S PROVE Profile!IsFiniteSet(S) = IsFiniteSet(S)
BY DEF Profile!IsFiniteSet, IsFiniteSet

(* Likewise for how many there are.                                         *)
LEMMA SameCardinality == ASSUME NEW S PROVE Profile!Cardinality(S) = Cardinality(S)
BY DEF Profile!Cardinality, Cardinality

(* The image of a finite set is no larger.                                  *)
LEMMA ImageIsNoLarger ==
    ASSUME NEW S, IsFiniteSet(S), NEW T, NEW f \in [S -> T], T = {f[x] : x \in S}
    PROVE  IsFiniteSet(T) /\ Cardinality(T) <= Cardinality(S)
<1>1. f \in Surjection(S, T)
  BY DEF Surjection
<1> QED
  BY <1>1, FS_Surjection

(* Marking the saves that are on their way makes them no more, and changes  *)
(* no profile.                                                              *)
LEMMA MarksSaves ==
    ASSUME Profile!Fields, Profile!SavesFinite, NEW S, NEW f \in [saves -> S], S = {f[s] : s \in saves},
           \A s \in saves : f[s] = [s EXCEPT !.here = FALSE] \/ f[s] = [s EXCEPT !.last = FALSE]
    PROVE  /\ IsFiniteSet(S) /\ Cardinality(S) <= Cardinality(saves)
           /\ S \subseteq Profile!Saves
           /\ \A s \in saves : f[s].body = s.body /\ f[s].stored = s.stored
<1>1. IsFiniteSet(S) /\ Cardinality(S) <= Cardinality(saves)
  BY ImageIsNoLarger, SameFinite DEF Profile!SavesFinite
<1>2. ASSUME NEW s \in saves PROVE f[s] \in Profile!Saves /\ f[s].body = s.body /\ f[s].stored = s.stored
  <2>1. s \in Profile!Saves
    BY DEF Profile!Fields
  <2>2. CASE f[s] = [s EXCEPT !.here = FALSE]
    BY <2>1, <2>2 DEF Profile!Saves
  <2>3. CASE f[s] = [s EXCEPT !.last = FALSE]
    BY <2>1, <2>3 DEF Profile!Saves
  <2> QED
    BY <2>2, <2>3
<1> QED
  BY <1>1, <1>2

(* A save that is sent with what the page knows and one change keeps what   *)
(* the user wants, if it is the only one and the profile is known.          *)
LEMMA SendKeeps ==
    ASSUME Profile!Inv, NEW body \in Profile!Profiles, NEW want \in Profile!Profiles, Profile!Send(body, want),
           UNCHANGED <<server, cache, loaded, get, options, page, initialized, form>>, clicks' \in 0..MaxClicks,
           premature' \in BOOLEAN, premature => premature', ~premature' => Profile!Fits(body),
           ~crossed /\ ~saveFailed /\ ~premature /\ saves = {} /\ loaded /\ cache = server =>
               /\ body.prs = want.prs /\ body.drafts = want.drafts /\ body.repo = want.repo
               /\ \A r \in Profile!Roles : want.pair[r].model # Profile!Unset => body.pair[r] = want.pair[r]
    PROVE  Profile!Inv'
<1> DEFINE m == [s \in saves |-> [s EXCEPT !.last = FALSE]]
           marked == {m[s] : s \in saves}
           new == [body |-> body, here |-> TRUE, last |-> TRUE, stored |-> FALSE, n |-> clicks]
<1>1. /\ saves' = marked \cup {new} /\ wanted' = want /\ error' = FALSE /\ Cardinality(saves) < 2
      /\ saveFailed' = saveFailed /\ crossed' = (crossed \/ saves # {} \/ ~loaded \/ cache # server)
  BY SameCardinality DEF Profile!Send
<1>2. /\ IsFiniteSet(marked) /\ Cardinality(marked) <= Cardinality(saves) /\ marked \subseteq Profile!Saves
      /\ \A x \in marked : \E y \in saves : x.body = y.body
  <2>1. m \in [saves -> marked] /\ \A s \in saves : m[s] = [s EXCEPT !.last = FALSE]
    OBVIOUS
  <2>2. marked = {m[s] : s \in saves} /\ Profile!Fields /\ Profile!SavesFinite
    BY DEF Profile!Inv
  <2> HIDE DEF m, marked
  <2>3. \A s \in saves : m[s] = [s EXCEPT !.here = FALSE] \/ m[s] = [s EXCEPT !.last = FALSE]
    BY <2>1, Zenon
  <2>4. /\ IsFiniteSet(marked) /\ Cardinality(marked) <= Cardinality(saves) /\ marked \subseteq Profile!Saves
        /\ \A s \in saves : m[s].body = s.body
    BY <2>1, <2>2, <2>3, MarksSaves, Zenon
  <2> QED
    BY <2>2, <2>4, Zenon
<1>3. new \in Profile!Saves /\ new.body = body /\ new.stored = FALSE
  <2>1. clicks \in Nat
    BY DEF Profile!Inv, Profile!TypeOK
  <2> QED
    BY <2>1 DEF Profile!Saves
<1>4. saves = {} => marked = {}
  OBVIOUS
<1> HIDE DEF marked, new
<1>5. IsFiniteSet(saves') /\ Cardinality(saves') <= 2
  <2>1. Cardinality(marked) \in Nat /\ Cardinality(saves) \in Nat
    BY <1>2, FS_CardinalityType, SameFinite DEF Profile!Inv, Profile!SavesFinite
  <2>2. /\ IsFiniteSet(marked \cup {new})
        /\ Cardinality(marked \cup {new}) = Cardinality(marked) \/ Cardinality(marked \cup {new}) = Cardinality(marked) + 1
    BY <1>2, FS_AddElement
  <2> QED
    BY <1>1, <1>2, <2>1, <2>2
<1>6. crossed' \in BOOLEAN
  BY <1>1, Zenon DEF Profile!Inv, Profile!TypeOK
<1>7. Profile!TypeOK'
  <2>1. Profile!Cardinality(saves') <= 2
    BY <1>5, SameCardinality
  <2>2. \A x \in {server, cache, form} : DOMAIN x.pair = Profile!Roles
    BY DEF Profile!Inv, Profile!TypeOK
  <2>3. {loaded, options, initialized, error, saveFailed, crossed, premature}' \subseteq BOOLEAN
    BY <1>1, <1>6 DEF Profile!Inv, Profile!TypeOK
  <2> QED
    BY <2>1, <2>2, <2>3 DEF Profile!Inv, Profile!TypeOK
<1>8. Profile!SavesFinite'
  BY <1>5, SameFinite DEF Profile!SavesFinite
<1>9. Profile!Fields'
  BY <1>1, <1>2, <1>3 DEF Profile!Inv, Profile!Fields
<1>10. Profile!FormNames'
  BY DEF Profile!Inv, Profile!FormNames
<1>11. ~crossed' => ~crossed /\ saves = {} /\ loaded /\ cache = server /\ saves' = {new}
  BY <1>1, <1>4
<1>12. Profile!AllFit'
  <2>1. \A x \in saves' : x = new \/ \E y \in saves : x.body = y.body
    BY <1>1, <1>2
  <2> QED
    BY <1>3, <2>1 DEF Profile!Inv, Profile!AllFit, Profile!Fits
<1>13. Profile!OneSave'
  BY <1>1, <1>3, <1>11 DEF Profile!OneSave, Profile!Keeps
<1> QED
  BY <1>7, <1>8, <1>9, <1>10, <1>12, <1>13 DEF Profile!Inv

(* No request, and the empty profile, which fits.                           *)
LEMMA NothingAsked ==
    /\ Profile!NoGet \in [stage : {"idle", "asked", "answered"}, data : Profile!Profiles]
    /\ Profile!Fits(Profile!NoGet.data) /\ Profile!NoGet.data = Profile!Empty
<1>1. Profile!Empty \in Profile!Profiles
  BY DEF Profile!Empty, Profile!Pairs, Profile!Pair, Profile!Profiles
<1>2. Profile!Fits(Profile!Empty)
  BY DEF Profile!Fits, Profile!FitsPair, Profile!Empty, Profile!Pairs
<1>3. Profile!NoGet = [stage |-> "idle", data |-> Profile!Empty]
  BY DEF Profile!NoGet
<1> QED
  BY <1>1, <1>2, <1>3

(* The invariant of the profile pages holds at first.                       *)
LEMMA ProfileInit == Profile!Init => Profile!Inv
<1> SUFFICES ASSUME Profile!Init PROVE Profile!Inv
  OBVIOUS
<1>1. Profile!Fields
  <2>1. Profile!Empty \in Profile!Profiles /\ Profile!EmptyForm \in Profile!FormFields
    BY DEF Profile!Empty, Profile!EmptyForm, Profile!Pairs, Profile!Pair, Profile!Profiles, Profile!FormFields
  <2>2. server \in Profile!Profiles
    <3> DEFINE pairs == Profile!Pairs("large", "high")
               one == 1
               yes == TRUE
    <3>1. pairs \in [Profile!Roles -> Profile!Pair] /\ one \in 0..1 /\ yes \in BOOLEAN
      BY DEF Profile!Pairs, Profile!Pair, Profile!ModelIds, Profile!EffortIds
    <3>2. server = Profile!Empty \/ server = [Profile!Empty EXCEPT !.pair = pairs, !.repo = one, !.prs = yes, !.drafts = "true"]
      BY DEF Profile!Init
    <3> HIDE DEF pairs, one, yes
    <3> QED
      BY <2>1, <3>1, <3>2 DEF Profile!Profiles
  <2> QED
    BY <2>1, <2>2, NothingAsked DEF Profile!Init, Profile!Fields
<1>2. Profile!SavesFinite
  BY FS_EmptySet, SameFinite DEF Profile!Init, Profile!SavesFinite
<1>3. Profile!FormNames
  BY BoundAssumption DEF Profile!Init, Profile!FormNames, Profile!EmptyForm
<1>4. Profile!AllFit
  <2>1. Profile!Fits(server)
    <3>1. \A r \in Profile!Roles : \/ server.pair[r] = [model |-> Profile!Unset, effort |-> Profile!Unset]
                                   \/ server.pair[r] = [model |-> "large", effort |-> "high"]
      <4> DEFINE pairs == Profile!Pairs("large", "high")
                 one == 1
                 yes == TRUE
                 none == Profile!Pairs(Profile!Unset, Profile!Unset)
      <4>1. \/ server = Profile!Empty
            \/ server = [Profile!Empty EXCEPT !.pair = pairs, !.repo = one, !.prs = yes, !.drafts = "true"]
        BY DEF Profile!Init
      <4>2. Profile!Empty \in Profile!Profiles
        BY DEF Profile!Empty, Profile!Pairs, Profile!Pair, Profile!Profiles
      <4>3. Profile!Empty.pair = none
        BY DEF Profile!Empty
      <4> HIDE DEF pairs, one, yes, none
      <4>4. server = Profile!Empty => server.pair = none
        BY <4>3
      <4>5. server = [Profile!Empty EXCEPT !.pair = pairs, !.repo = one, !.prs = yes, !.drafts = "true"] => server.pair = pairs
        BY <4>2 DEF Profile!Profiles
      <4> QED
        BY <4>1, <4>4, <4>5 DEF pairs, none, Profile!Pairs
    <3>2. "high" \in Profile!Efforts["large"] /\ "large" # Profile!Unset
      BY DEF Profile!Efforts, Profile!Unset
    <3> QED
      BY <3>1, <3>2 DEF Profile!Fits, Profile!FitsPair
  <2>2. Profile!Fits(Profile!Empty) /\ \A r \in Profile!Roles : Profile!EmptyForm.pair[r].model = Profile!Unset
    BY DEF Profile!Fits, Profile!FitsPair, Profile!Empty, Profile!EmptyForm, Profile!Pairs
  <2> QED
    BY <2>1, <2>2, NothingAsked DEF Profile!Init, Profile!AllFit
<1>5. Profile!OneSave
  BY BoundAssumption DEF Profile!Init, Profile!OneSave, Profile!Keeps
<1>6. Profile!TypeOK
  <2>1. \A x \in {server, cache, form} : DOMAIN x.pair = Profile!Roles
    BY <1>1 DEF Profile!Fields, Profile!Profiles, Profile!FormFields
  <2>2. Profile!Cardinality(saves) <= 2
    BY FS_EmptySet, SameCardinality DEF Profile!Init
  <2>3. clicks \in 0..MaxClicks
    BY BoundAssumption DEF Profile!Init
  <2> QED
    BY <2>1, <2>2, <2>3 DEF Profile!Init, Profile!TypeOK
<1> QED
  BY <1>1, <1>2, <1>3, <1>4, <1>5, <1>6 DEF Profile!Inv

(* Every action of the profile pages keeps its invariant.                   *)
LEMMA ProfileStep ==
    ASSUME Profile!Inv, [Profile!Next]_profileVars
    PROVE  Profile!Inv'
<1> USE BoundAssumption DEF Profile!Inv, Profile!Click, Profile!data, Profile!ghosts
<1>1. CASE Profile!LoadProfile
  <2>1. Profile!Fields'
    <3> DEFINE c == get.data
               l == TRUE
               o == options
    <3>1. c \in Profile!Profiles /\ l \in BOOLEAN /\ o \in BOOLEAN /\ (options => o)
      BY DEF Profile!Fields, Profile!TypeOK, Profile!Saves
    <3>2. Profile!EffectsIfThere(c, l, o) /\ cache' = c /\ loaded' = l /\ options' = o /\ UNCHANGED <<page, premature, wanted, server>>
      BY <1>1 DEF Profile!LoadProfile
    <3> HIDE DEF c, l, o

    <3>3. form' \in Profile!FormFields
      BY <3>1, <3>2, AnswerKeepsForm
    <3>4. saves' \subseteq saves
      BY <1>1 DEF Profile!LoadProfile
    <3>5. get' = Profile!NoGet
      BY <1>1 DEF Profile!LoadProfile
    <3> QED
      BY <3>1, <3>2, <3>3, <3>4, <3>5, NothingAsked DEF Profile!Fields
  <2>2. Profile!SavesFinite'
    BY <1>1 DEF Profile!LoadProfile, Profile!SavesFinite
  <2>3. Profile!FormNames'
    <3> DEFINE c == get.data
               l == TRUE
               o == options
    <3>1. c \in Profile!Profiles /\ l \in BOOLEAN /\ o \in BOOLEAN /\ (options => o)
      BY DEF Profile!Fields, Profile!TypeOK, Profile!Saves
    <3>2. Profile!EffectsIfThere(c, l, o) /\ cache' = c /\ loaded' = l /\ options' = o /\ UNCHANGED <<page, premature, wanted, server>>
      BY <1>1 DEF Profile!LoadProfile
    <3> HIDE DEF c, l, o

    <3> QED
      BY <3>1, <3>2, AnswerKeepsForm DEF Profile!FormNames
  <2>4. Profile!AllFit'
    <3> DEFINE c == get.data
               l == TRUE
               o == options
    <3>1. c \in Profile!Profiles /\ l \in BOOLEAN /\ o \in BOOLEAN /\ (options => o)
      BY DEF Profile!Fields, Profile!TypeOK, Profile!Saves
    <3>2. Profile!EffectsIfThere(c, l, o) /\ cache' = c /\ loaded' = l /\ options' = o /\ UNCHANGED <<page, premature, wanted, server>>
      BY <1>1 DEF Profile!LoadProfile
    <3> HIDE DEF c, l, o

    <3>3. ~premature => Profile!Fits(c)
      BY DEF c, Profile!AllFit
    <3>4. saves' \subseteq saves
      BY <1>1 DEF Profile!LoadProfile
    <3>5. ~premature => \A r \in Profile!Roles : form'.pair[r].model # Profile!Unset => Profile!FitsPair(form'.pair[r])
      BY <3>1, <3>2, <3>3, AnswerKeepsForm
    <3>6. get' = Profile!NoGet
      BY <1>1 DEF Profile!LoadProfile
    <3> QED
      BY <3>2, <3>3, <3>4, <3>5, <3>6, NothingAsked DEF Profile!AllFit
  <2>5. Profile!OneSave'
    BY <1>1 DEF Profile!LoadProfile, Profile!OneSave, Profile!Keeps
  <2>6. Profile!TypeOK'
    <3>1. (page \in {"none", "my-settings", "cloud-agents"})'
      BY <1>1 DEF Profile!LoadProfile, Profile!TypeOK
    <3>2. (\A x \in {server, cache, form} : DOMAIN x.pair = Profile!Roles)'
      BY <2>1 DEF Profile!Fields, Profile!Profiles, Profile!FormFields
    <3>3. ({loaded, options, initialized, error, saveFailed, crossed, premature} \subseteq BOOLEAN)'
      <4> DEFINE c == get.data
                 l == TRUE
                 o == options
      <4>1. c \in Profile!Profiles /\ l \in BOOLEAN /\ o \in BOOLEAN /\ (options => o)
      BY DEF Profile!Fields, Profile!TypeOK, Profile!Saves
      <4>2. Profile!EffectsIfThere(c, l, o) /\ cache' = c /\ loaded' = l /\ options' = o /\ UNCHANGED <<page, premature, wanted, server>>
      BY <1>1 DEF Profile!LoadProfile
      <4> HIDE DEF c, l, o

      <4>3. initialized' \in BOOLEAN
      BY <4>1, <4>2, AnswerKeepsForm
      <4>4. UNCHANGED <<error, saveFailed, crossed, premature>>
      BY <1>1 DEF Profile!LoadProfile
      <4> QED
      BY <4>1, <4>2, <4>3, <4>4 DEF Profile!TypeOK
    <3>4. (Profile!Cardinality(saves) <= 2)'
      BY <1>1 DEF Profile!LoadProfile, Profile!TypeOK
    <3>5. (clicks \in 0..MaxClicks)'
      BY <1>1 DEF Profile!LoadProfile, Profile!TypeOK
    <3> QED
      BY <3>1, <3>2, <3>3, <3>4, <3>5 DEF Profile!TypeOK
  <2> QED
    BY <2>1, <2>2, <2>3, <2>4, <2>5, <2>6
<1>2. CASE Profile!LoadOptions
  <2>1. Profile!Fields'
    <3> DEFINE c == cache
               l == loaded
               o == TRUE
    <3>1. c \in Profile!Profiles /\ l \in BOOLEAN /\ o \in BOOLEAN /\ (options => o)
      BY DEF Profile!Fields, Profile!TypeOK, Profile!Saves
    <3>2. Profile!EffectsIfThere(c, l, o) /\ cache' = c /\ loaded' = l /\ options' = o /\ UNCHANGED <<page, premature, wanted, server, get>>
      BY <1>2 DEF Profile!LoadOptions
    <3> HIDE DEF c, l, o

    <3>3. form' \in Profile!FormFields
      BY <3>1, <3>2, AnswerKeepsForm
    <3>4. saves' \subseteq saves
      BY <1>2 DEF Profile!LoadOptions
    <3> QED
      BY <3>1, <3>2, <3>3, <3>4 DEF Profile!Fields
  <2>2. Profile!SavesFinite'
    BY <1>2 DEF Profile!LoadOptions, Profile!SavesFinite
  <2>3. Profile!FormNames'
    <3> DEFINE c == cache
               l == loaded
               o == TRUE
    <3>1. c \in Profile!Profiles /\ l \in BOOLEAN /\ o \in BOOLEAN /\ (options => o)
      BY DEF Profile!Fields, Profile!TypeOK, Profile!Saves
    <3>2. Profile!EffectsIfThere(c, l, o) /\ cache' = c /\ loaded' = l /\ options' = o /\ UNCHANGED <<page, premature, wanted, server, get>>
      BY <1>2 DEF Profile!LoadOptions
    <3> HIDE DEF c, l, o

    <3> QED
      BY <3>1, <3>2, AnswerKeepsForm DEF Profile!FormNames
  <2>4. Profile!AllFit'
    <3> DEFINE c == cache
               l == loaded
               o == TRUE
    <3>1. c \in Profile!Profiles /\ l \in BOOLEAN /\ o \in BOOLEAN /\ (options => o)
      BY DEF Profile!Fields, Profile!TypeOK, Profile!Saves
    <3>2. Profile!EffectsIfThere(c, l, o) /\ cache' = c /\ loaded' = l /\ options' = o /\ UNCHANGED <<page, premature, wanted, server, get>>
      BY <1>2 DEF Profile!LoadOptions
    <3> HIDE DEF c, l, o

    <3>3. ~premature => Profile!Fits(c)
      BY DEF c, Profile!AllFit
    <3>4. saves' \subseteq saves
      BY <1>2 DEF Profile!LoadOptions
    <3>5. ~premature => \A r \in Profile!Roles : form'.pair[r].model # Profile!Unset => Profile!FitsPair(form'.pair[r])
      BY <3>1, <3>2, <3>3, AnswerKeepsForm
    <3> QED
      BY <3>2, <3>3, <3>4, <3>5 DEF Profile!AllFit, Profile!Fits
  <2>5. Profile!OneSave'
    BY <1>2 DEF Profile!LoadOptions, Profile!OneSave, Profile!Keeps
  <2>6. Profile!TypeOK'
    <3>1. (page \in {"none", "my-settings", "cloud-agents"})'
      BY <1>2 DEF Profile!LoadOptions, Profile!TypeOK
    <3>2. (\A x \in {server, cache, form} : DOMAIN x.pair = Profile!Roles)'
      BY <2>1 DEF Profile!Fields, Profile!Profiles, Profile!FormFields
    <3>3. ({loaded, options, initialized, error, saveFailed, crossed, premature} \subseteq BOOLEAN)'
      <4> DEFINE c == cache
                 l == loaded
                 o == TRUE
      <4>1. c \in Profile!Profiles /\ l \in BOOLEAN /\ o \in BOOLEAN /\ (options => o)
      BY DEF Profile!Fields, Profile!TypeOK, Profile!Saves
      <4>2. Profile!EffectsIfThere(c, l, o) /\ cache' = c /\ loaded' = l /\ options' = o /\ UNCHANGED <<page, premature, wanted, server>>
      BY <1>2 DEF Profile!LoadOptions
      <4> HIDE DEF c, l, o

      <4>3. initialized' \in BOOLEAN
      BY <4>1, <4>2, AnswerKeepsForm
      <4>4. UNCHANGED <<error, saveFailed, crossed, premature>>
      BY <1>2 DEF Profile!LoadOptions
      <4> QED
      BY <4>1, <4>2, <4>3, <4>4 DEF Profile!TypeOK
    <3>4. (Profile!Cardinality(saves) <= 2)'
      BY <1>2 DEF Profile!LoadOptions, Profile!TypeOK
    <3>5. (clicks \in 0..MaxClicks)'
      BY <1>2 DEF Profile!LoadOptions, Profile!TypeOK
    <3> QED
      BY <3>1, <3>2, <3>3, <3>4, <3>5 DEF Profile!TypeOK
  <2> QED
    BY <2>1, <2>2, <2>3, <2>4, <2>5, <2>6
<1>3. CASE Profile!SwitchPrs
  <2> DEFINE on == ~(loaded /\ cache.prs)
             body == [Profile!buildProfileUpdate EXCEPT !.prs = on]
             want == [wanted EXCEPT !.prs = on]
  <2>1. on \in BOOLEAN
    BY DEF Profile!fromChoice, Profile!Fields, Profile!FormFields
  <2>2. cache \in Profile!Profiles /\ options \in BOOLEAN /\ wanted \in Profile!Profiles
    BY DEF Profile!Fields, Profile!TypeOK
  <2>3. /\ Profile!Send(body, want) /\ UNCHANGED <<server, cache, loaded, get, options, page, initialized, form>>
        /\ clicks < MaxClicks /\ clicks' = clicks + 1
    BY <1>3 DEF Profile!SwitchPrs
  <2> HIDE DEF on
  <2>4. /\ body \in Profile!Profiles
        /\ body.pair = Profile!buildProfileUpdate.pair /\ body.repo = cache.repo /\ body.drafts = cache.drafts /\ body.prs = on
    BY <2>1, <2>2, StartsFromCache DEF Profile!Profiles
  <2>5. /\ want \in Profile!Profiles
        /\ want.pair = wanted.pair /\ want.repo = wanted.repo /\ want.drafts = wanted.drafts /\ want.prs = on
    BY <2>1, <2>2 DEF Profile!Profiles
  <2>6. premature' = premature /\ premature \in BOOLEAN /\ (~premature => Profile!Fits(body))
    <3>1. ~premature => Profile!Fits(Profile!buildProfileUpdate)
      BY <2>2, StartsFromCache DEF Profile!AllFit
    <3> HIDE DEF body
    <3> QED
      BY <1>3, <2>4, <3>1 DEF Profile!SwitchPrs, Profile!TypeOK, Profile!Fits

  <2> HIDE DEF body, want
  <2>7. clicks' \in 0..MaxClicks
    BY <2>3 DEF Profile!TypeOK
  <2>8. ASSUME ~crossed, ~saveFailed, ~premature, saves = {}, loaded, cache = server
        PROVE  /\ body.prs = want.prs /\ body.drafts = want.drafts /\ body.repo = want.repo
               /\ \A r \in Profile!Roles : want.pair[r].model # Profile!Unset => body.pair[r] = want.pair[r]
    <3>1. Profile!Keeps(cache) /\ Profile!Fits(cache)
      BY <2>8 DEF Profile!OneSave, Profile!AllFit
    <3>2. \A r \in Profile!Roles : cache.pair[r].model # Profile!Unset => Profile!buildProfileUpdate.pair[r] = cache.pair[r]
      BY <2>2, <3>1, StartsFromCache
    <3> QED
      BY <2>4, <2>5, <2>8, <3>1, <3>2 DEF Profile!Keeps
  <2> QED
    BY <2>3, <2>4, <2>5, <2>6, <2>7, <2>8, SendKeeps
<1>4. CASE Profile!persistDefaults
  <2> DEFINE pair == form.pair
             repo == form.repo
             body == [Profile!buildProfileUpdate EXCEPT !.pair = pair, !.repo = repo]
             want == [wanted EXCEPT !.pair = pair, !.repo = repo]
  <2>1. pair \in [Profile!Roles -> Profile!Pair] /\ repo \in 0..1
    BY DEF Profile!fromChoice, Profile!Fields, Profile!FormFields
  <2>2. cache \in Profile!Profiles /\ options \in BOOLEAN /\ wanted \in Profile!Profiles
    BY DEF Profile!Fields, Profile!TypeOK
  <2>3. /\ Profile!Send(body, want) /\ UNCHANGED <<server, cache, loaded, get, options, page, initialized, form>>
        /\ clicks < MaxClicks /\ clicks' = clicks + 1
    BY <1>4 DEF Profile!persistDefaults
  <2> HIDE DEF pair, repo
  <2>4. /\ body \in Profile!Profiles
        /\ body.pair = pair /\ body.repo = repo /\ body.drafts = cache.drafts /\ body.prs = cache.prs
    BY <2>1, <2>2, StartsFromCache DEF Profile!Profiles
  <2>5. /\ want \in Profile!Profiles
        /\ want.pair = pair /\ want.repo = repo /\ want.drafts = wanted.drafts /\ want.prs = wanted.prs
    BY <2>1, <2>2 DEF Profile!Profiles
  <2>6. premature' = (premature \/ ~initialized) /\ premature' \in BOOLEAN /\ (~premature' => Profile!Fits(body))
    <3>1. premature' = (premature \/ ~initialized)
      BY <1>4 DEF Profile!persistDefaults
    <3>2. ~premature /\ initialized => \A r \in Profile!Roles : Profile!FitsPair(pair[r])
      BY DEF pair, Profile!AllFit, Profile!FormNames
    <3> HIDE DEF body
    <3> QED
      BY <2>4, <3>1, <3>2 DEF Profile!TypeOK, Profile!Fits
  <2> HIDE DEF body, want
  <2>7. clicks' \in 0..MaxClicks
    BY <2>3 DEF Profile!TypeOK
  <2>8. ASSUME ~crossed, ~saveFailed, ~premature, saves = {}, loaded, cache = server
        PROVE  /\ body.prs = want.prs /\ body.drafts = want.drafts /\ body.repo = want.repo
               /\ \A r \in Profile!Roles : want.pair[r].model # Profile!Unset => body.pair[r] = want.pair[r]
    <3>1. Profile!Keeps(cache) /\ Profile!Fits(cache)
      BY <2>8 DEF Profile!OneSave, Profile!AllFit
    <3>2. \A r \in Profile!Roles : cache.pair[r].model # Profile!Unset => Profile!buildProfileUpdate.pair[r] = cache.pair[r]
      BY <2>2, <3>1, StartsFromCache
    <3> QED
      BY <2>4, <2>5, <2>8, <3>1, <3>2 DEF Profile!Keeps
  <2> QED
    BY <2>3, <2>4, <2>5, <2>6, <2>7, <2>8, SendKeeps
<1>5. ASSUME NEW p \in {"my-settings", "cloud-agents"}, Profile!Visit(p)
      PROVE  Profile!Inv'
  <2> DEFINE i == FALSE
  <2>1. cache \in Profile!Profiles /\ loaded \in BOOLEAN /\ options \in BOOLEAN /\ i \in BOOLEAN /\ ~i
    BY DEF Profile!Fields, Profile!TypeOK
  <2>2. Profile!EmptyForm \in Profile!FormFields /\ \A r \in Profile!Roles : Profile!EmptyForm.pair[r].model = Profile!Unset
    BY DEF Profile!EmptyForm, Profile!Pairs, Profile!FormFields, Profile!Pair
  <2>3. p = "cloud-agents" => /\ initialized' = (i \/ Profile!MayFill(cache, loaded, options))
             /\ form' = Profile!Snap(IF ~i /\ Profile!MayFill(cache, loaded, options) THEN Profile!Filled(cache, options) ELSE Profile!EmptyForm, options)
    <3>1. Profile!MayFill(cache, loaded, options) \in BOOLEAN
      BY DEF Profile!MayFill
    <3>2. p = "cloud-agents" => /\ initialized' = Profile!MayFill(cache, loaded, options)
               /\ form' = Profile!Snap(IF Profile!MayFill(cache, loaded, options) THEN Profile!Filled(cache, options) ELSE Profile!EmptyForm, options)
      BY <1>5 DEF Profile!Visit
    <3> QED
      BY <3>1, <3>2
  <2>4. p # "cloud-agents" => initialized' = FALSE /\ form' = Profile!EmptyForm
    BY <1>5 DEF Profile!Visit
  <2>5. page' = p /\ UNCHANGED <<server, cache, loaded, get, options, wanted, saveFailed, crossed, premature>>
    BY <1>5 DEF Profile!Visit
  <2>6. ~premature => Profile!Fits(cache)
    BY DEF Profile!AllFit
  <2> HIDE DEF i
  <2>7. /\ form' \in Profile!FormFields /\ initialized' \in BOOLEAN
        /\ initialized' => p = "cloud-agents" /\ \A r \in Profile!Roles : form'.pair[r].model # Profile!Unset
        /\ ~initialized' /\ ~options => form'.pair = Profile!EmptyForm.pair
        /\ p = "cloud-agents" /\ loaded /\ options => initialized'
        /\ ~premature => \A r \in Profile!Roles : form'.pair[r].model # Profile!Unset => Profile!FitsPair(form'.pair[r])
    <3>1. CASE p = "cloud-agents"
      BY <2>1, <2>2, <2>3, <2>6, <3>1, EffectsKeepForm
    <3>2. CASE p # "cloud-agents"
      BY <2>2, <2>4, <3>2
    <3> QED
      BY <3>1, <3>2

  <2> DEFINE m == [s \in saves |-> [s EXCEPT !.here = FALSE]]
             marked == {m[s] : s \in saves}
  <2>8. saves' = marked
    BY <1>5 DEF Profile!Visit
  <2>9. m \in [saves -> marked] /\ \A s \in saves : m[s] = [s EXCEPT !.here = FALSE]
    OBVIOUS
  <2> HIDE DEF m
  <2>10. /\ IsFiniteSet(marked) /\ Cardinality(marked) <= Cardinality(saves) /\ marked \subseteq Profile!Saves
        /\ \A s \in saves : m[s].body = s.body /\ m[s].stored = s.stored
    <3>1. marked = {m[s] : s \in saves}
      OBVIOUS
    <3> HIDE DEF marked
    <3>2. \A s \in saves : m[s] = [s EXCEPT !.here = FALSE] \/ m[s] = [s EXCEPT !.last = FALSE]
      BY <2>9, Zenon
    <3> QED
      BY <2>9, <3>1, <3>2, MarksSaves, Zenon
  <2> HIDE DEF marked
  <2>11. Profile!Fields'
    BY <2>5, <2>7, <2>8, <2>10 DEF Profile!Fields
  <2>12. Profile!SavesFinite'
    BY <2>8, <2>10, SameFinite DEF Profile!SavesFinite
  <2>13. Profile!FormNames'
    BY <2>5, <2>7 DEF Profile!FormNames
  <2>14. Profile!AllFit'
    BY <2>5, <2>7, <2>8, <2>10 DEF Profile!AllFit, Profile!Fits, marked
  <2>15. Profile!OneSave'
    BY <2>5, <2>8, <2>10 DEF Profile!OneSave, Profile!Keeps, marked
  <2>16. Profile!TypeOK'
    <3>1. (\A x \in {server, cache, form} : DOMAIN x.pair = Profile!Roles)'
      BY <2>11 DEF Profile!Fields, Profile!Profiles, Profile!FormFields
    <3>2. Profile!Cardinality(saves') <= 2
      <4>1. Cardinality(saves) \in Nat /\ Cardinality(marked) \in Nat
        BY <2>10, FS_CardinalityType, SameFinite DEF Profile!SavesFinite
      <4> QED
        BY <2>8, <2>10, <4>1, SameCardinality DEF Profile!TypeOK
    <3>3. clicks' \in 0..MaxClicks
      BY <1>5 DEF Profile!Visit, Profile!TypeOK
    <3>4. {loaded, options, initialized, error, saveFailed, crossed, premature}' \subseteq BOOLEAN
      BY <1>5, <2>5, <2>7 DEF Profile!Visit, Profile!TypeOK
    <3> QED
      BY <2>5, <3>1, <3>2, <3>3, <3>4 DEF Profile!TypeOK
  <2> QED
    BY <2>11, <2>12, <2>13, <2>14, <2>15, <2>16
<1>6. ASSUME NEW c \in Profile!Choices, Profile!handleDraftChoiceChange(c)
      PROVE  Profile!Inv'
  <2> DEFINE v == Profile!fromChoice(c)
             body == [Profile!buildProfileUpdate EXCEPT !.drafts = v]
             want == [wanted EXCEPT !.drafts = v]
  <2>1. v \in {"null", "true", "false"}
    BY DEF Profile!fromChoice, Profile!Fields, Profile!FormFields
  <2>2. cache \in Profile!Profiles /\ options \in BOOLEAN /\ wanted \in Profile!Profiles
    BY DEF Profile!Fields, Profile!TypeOK
  <2>3. /\ Profile!Send(body, want) /\ UNCHANGED <<server, cache, loaded, get, options, page, initialized, form>>
        /\ clicks < MaxClicks /\ clicks' = clicks + 1
    BY <1>6 DEF Profile!handleDraftChoiceChange
  <2> HIDE DEF v
  <2>4. /\ body \in Profile!Profiles
        /\ body.pair = Profile!buildProfileUpdate.pair /\ body.repo = cache.repo /\ body.drafts = v /\ body.prs = cache.prs
    BY <2>1, <2>2, StartsFromCache DEF Profile!Profiles
  <2>5. /\ want \in Profile!Profiles
        /\ want.pair = wanted.pair /\ want.repo = wanted.repo /\ want.drafts = v /\ want.prs = wanted.prs
    BY <2>1, <2>2 DEF Profile!Profiles
  <2>6. premature' = premature /\ premature \in BOOLEAN /\ (~premature => Profile!Fits(body))
    <3>1. ~premature => Profile!Fits(Profile!buildProfileUpdate)
      BY <2>2, StartsFromCache DEF Profile!AllFit
    <3> HIDE DEF body
    <3> QED
      BY <1>6, <2>4, <3>1 DEF Profile!handleDraftChoiceChange, Profile!TypeOK, Profile!Fits

  <2> HIDE DEF body, want
  <2>7. clicks' \in 0..MaxClicks
    BY <2>3 DEF Profile!TypeOK
  <2>8. ASSUME ~crossed, ~saveFailed, ~premature, saves = {}, loaded, cache = server
        PROVE  /\ body.prs = want.prs /\ body.drafts = want.drafts /\ body.repo = want.repo
               /\ \A r \in Profile!Roles : want.pair[r].model # Profile!Unset => body.pair[r] = want.pair[r]
    <3>1. Profile!Keeps(cache) /\ Profile!Fits(cache)
      BY <2>8 DEF Profile!OneSave, Profile!AllFit
    <3>2. \A r \in Profile!Roles : cache.pair[r].model # Profile!Unset => Profile!buildProfileUpdate.pair[r] = cache.pair[r]
      BY <2>2, <3>1, StartsFromCache
    <3> QED
      BY <2>4, <2>5, <2>8, <3>1, <3>2 DEF Profile!Keeps
  <2> QED
    BY <2>3, <2>4, <2>5, <2>6, <2>7, <2>8, SendKeeps
<1>7. ASSUME NEW n \in 0..1, Profile!TypeRepo(n)
      PROVE  Profile!Inv'
  <2> DEFINE f == [form EXCEPT !.repo = n]
  <2>1. f \in Profile!FormFields /\ \A t \in Profile!Roles : form.pair[t].model # Profile!Unset => f.pair[t].model # Profile!Unset
    BY ModelFacts DEF Profile!Fields, Profile!FormFields, Profile!Pair
  <2>2. options \/ f.pair = form.pair
    BY <1>7 DEF Profile!TypeRepo, Profile!Fields, Profile!FormFields
  <2>3. /\ page = "cloud-agents" /\ Profile!Effects(f, cache, loaded, options)
        /\ UNCHANGED <<page, options, loaded, cache, server, get, wanted, saves, saveFailed, crossed, premature, error>>
    BY <1>7 DEF Profile!TypeRepo
  <2> HIDE DEF f
  <2>4. initialized' \in BOOLEAN /\ Profile!Fields' /\ Profile!FormNames' /\ Profile!AllFit'
    BY <2>1, <2>2, <2>3, EditKeepsForm
  <2>5. Profile!SavesFinite' /\ Profile!OneSave'
    BY <2>3 DEF Profile!SavesFinite, Profile!OneSave, Profile!Keeps
  <2>6. clicks' \in 0..MaxClicks
    BY <1>7 DEF Profile!TypeRepo, Profile!TypeOK
  <2>7. Profile!TypeOK'
    <3>1. (\A x \in {server, cache, form} : DOMAIN x.pair = Profile!Roles)'
      BY <2>4 DEF Profile!Fields, Profile!Profiles, Profile!FormFields
    <3> QED
      BY <2>3, <2>4, <2>6, <3>1 DEF Profile!TypeOK
  <2> QED
    BY <2>4, <2>5, <2>7
<1>8. ASSUME NEW r \in Profile!Roles, NEW m \in Profile!ModelIds, Profile!PickModel(r, m)
      PROVE  Profile!Inv'
  <2> DEFINE f == [form EXCEPT !.pair[r].model = m]
  <2>1. f \in Profile!FormFields /\ \A t \in Profile!Roles : form.pair[t].model # Profile!Unset => f.pair[t].model # Profile!Unset
    BY ModelFacts DEF Profile!Fields, Profile!FormFields, Profile!Pair
  <2>2. options \/ f.pair = form.pair
    BY <1>8 DEF Profile!PickModel, Profile!Fields, Profile!FormFields
  <2>3. /\ page = "cloud-agents" /\ Profile!Effects(f, cache, loaded, options)
        /\ UNCHANGED <<page, options, loaded, cache, server, get, wanted, saves, saveFailed, crossed, premature, error>>
    BY <1>8 DEF Profile!PickModel
  <2> HIDE DEF f
  <2>4. initialized' \in BOOLEAN /\ Profile!Fields' /\ Profile!FormNames' /\ Profile!AllFit'
    BY <2>1, <2>2, <2>3, EditKeepsForm
  <2>5. Profile!SavesFinite' /\ Profile!OneSave'
    BY <2>3 DEF Profile!SavesFinite, Profile!OneSave, Profile!Keeps
  <2>6. clicks' \in 0..MaxClicks
    BY <1>8 DEF Profile!PickModel, Profile!TypeOK
  <2>7. Profile!TypeOK'
    <3>1. (\A x \in {server, cache, form} : DOMAIN x.pair = Profile!Roles)'
      BY <2>4 DEF Profile!Fields, Profile!Profiles, Profile!FormFields
    <3> QED
      BY <2>3, <2>4, <2>6, <3>1 DEF Profile!TypeOK
  <2> QED
    BY <2>4, <2>5, <2>7
<1>9. ASSUME NEW r \in Profile!Roles, NEW e \in Profile!EffortIds, Profile!PickEffort(r, e)
      PROVE  Profile!Inv'
  <2> DEFINE f == [form EXCEPT !.pair[r].effort = e]
  <2>1. f \in Profile!FormFields /\ \A t \in Profile!Roles : form.pair[t].model # Profile!Unset => f.pair[t].model # Profile!Unset
    BY ModelFacts DEF Profile!Fields, Profile!FormFields, Profile!Pair
  <2>2. options \/ f.pair = form.pair
    BY <1>9 DEF Profile!PickEffort, Profile!Fields, Profile!FormFields
  <2>3. /\ page = "cloud-agents" /\ Profile!Effects(f, cache, loaded, options)
        /\ UNCHANGED <<page, options, loaded, cache, server, get, wanted, saves, saveFailed, crossed, premature, error>>
    BY <1>9 DEF Profile!PickEffort
  <2> HIDE DEF f
  <2>4. initialized' \in BOOLEAN /\ Profile!Fields' /\ Profile!FormNames' /\ Profile!AllFit'
    BY <2>1, <2>2, <2>3, EditKeepsForm
  <2>5. Profile!SavesFinite' /\ Profile!OneSave'
    BY <2>3 DEF Profile!SavesFinite, Profile!OneSave, Profile!Keeps
  <2>6. clicks' \in 0..MaxClicks
    BY <1>9 DEF Profile!PickEffort, Profile!TypeOK
  <2>7. Profile!TypeOK'
    <3>1. (\A x \in {server, cache, form} : DOMAIN x.pair = Profile!Roles)'
      BY <2>4 DEF Profile!Fields, Profile!Profiles, Profile!FormFields
    <3> QED
      BY <2>3, <2>4, <2>6, <3>1 DEF Profile!TypeOK
  <2> QED
    BY <2>4, <2>5, <2>7
<1>10. ASSUME NEW s \in saves, Profile!Store(s)
       PROVE  Profile!Inv'
  <2>1. Profile!Fields'
    <3>1. s \in Profile!Saves /\ saves' = (saves \ {s}) \cup {[s EXCEPT !.stored = TRUE]} /\ server' = s.body
      BY <1>10 DEF Profile!Store, Profile!Fields
    <3>2. [s EXCEPT !.stored = TRUE] \in Profile!Saves /\ s.body \in Profile!Profiles
      BY <3>1 DEF Profile!Saves
    <3> QED
      BY <1>10, <3>1, <3>2 DEF Profile!Store, Profile!Fields
  <2>2. Profile!SavesFinite'
    <3>1. IsFiniteSet(saves \ {s})
      BY FS_RemoveElement, SameFinite DEF Profile!SavesFinite
    <3>2. IsFiniteSet((saves \ {s}) \cup {[s EXCEPT !.stored = TRUE]})
      BY <3>1, FS_AddElement
    <3> QED
      BY <1>10, <3>2, SameFinite DEF Profile!Store, Profile!SavesFinite
  <2>3. Profile!FormNames'
    BY <1>10 DEF Profile!Store, Profile!FormNames, Profile!EmptyForm
  <2>4. Profile!AllFit'
    <3> DEFINE new == [s EXCEPT !.stored = TRUE]
    <3>1. new.body = s.body /\ new.stored
      BY DEF Profile!Fields, Profile!Saves
    <3>2. saves' = (saves \ {s}) \cup {new} /\ server' = s.body /\ UNCHANGED <<cache, get, form, saveFailed, crossed, premature, wanted>>
      BY <1>10 DEF Profile!Store
    <3> HIDE DEF new

    <3> QED
      BY <3>1, <3>2 DEF Profile!AllFit, Profile!Fits
  <2>5. Profile!OneSave'
    <3> DEFINE new == [s EXCEPT !.stored = TRUE]
    <3>1. new.body = s.body /\ new.stored
      BY DEF Profile!Fields, Profile!Saves
    <3>2. saves' = (saves \ {s}) \cup {new} /\ server' = s.body /\ UNCHANGED <<cache, get, form, saveFailed, crossed, premature, wanted>>
      BY <1>10 DEF Profile!Store
    <3> HIDE DEF new

    <3> QED
      BY <3>1, <3>2 DEF Profile!OneSave, Profile!Keeps
  <2>6. Profile!TypeOK'
    <3>1. (page \in {"none", "my-settings", "cloud-agents"})'
      BY <1>10 DEF Profile!Store, Profile!TypeOK
    <3>2. (\A x \in {server, cache, form} : DOMAIN x.pair = Profile!Roles)'
      BY <2>1 DEF Profile!Fields, Profile!Profiles, Profile!FormFields
    <3>3. ({loaded, options, initialized, error, saveFailed, crossed, premature} \subseteq BOOLEAN)'
      BY <1>10 DEF Profile!Store, Profile!TypeOK
    <3>4. (Profile!Cardinality(saves) <= 2)'
      <4> DEFINE new == [s EXCEPT !.stored = TRUE]
      <4>1. Cardinality(saves) \in Nat /\ IsFiniteSet(saves \ {s}) /\ Cardinality(saves \ {s}) = Cardinality(saves) - 1
        BY FS_RemoveElement, FS_CardinalityType, SameFinite DEF Profile!SavesFinite
      <4>2. saves' = (saves \ {s}) \cup {new}
        BY <1>10 DEF Profile!Store
      <4> HIDE DEF new
      <4>3. Cardinality((saves \ {s}) \cup {new}) <= Cardinality(saves)
        <5> DEFINE rest == saves \ {s}
        <5>1. IsFiniteSet(rest) /\ Cardinality(rest) = Cardinality(saves) - 1
          BY <4>1
        <5> HIDE DEF rest
        <5>2. Cardinality(rest \cup {new}) = Cardinality(rest) \/ Cardinality(rest \cup {new}) = Cardinality(rest) + 1
          BY <5>1, FS_AddElement
        <5>3. Cardinality(rest \cup {new}) <= Cardinality(saves)
          BY <4>1, <5>1, <5>2
        <5> QED
          BY <5>3 DEF rest
      <4>4. Cardinality((saves \ {s}) \cup {new}) \in Nat
        BY <4>1, FS_AddElement, FS_CardinalityType
      <4> QED
        BY <4>1, <4>2, <4>3, <4>4, SameCardinality DEF Profile!TypeOK
    <3>5. (clicks \in 0..MaxClicks)'
      BY <1>10 DEF Profile!Store, Profile!TypeOK
    <3> QED
      BY <3>1, <3>2, <3>3, <3>4, <3>5 DEF Profile!TypeOK
  <2> QED
    BY <2>1, <2>2, <2>3, <2>4, <2>5, <2>6
<1>11. ASSUME NEW s \in saves, Profile!Saved(s)
       PROVE  Profile!Inv'
  <2>1. Profile!Fields'
    <3> DEFINE c == s.body
               l == TRUE
               o == options
    <3>1. c \in Profile!Profiles /\ l \in BOOLEAN /\ o \in BOOLEAN /\ (options => o)
      BY DEF Profile!Fields, Profile!TypeOK, Profile!Saves
    <3>2. Profile!EffectsIfThere(c, l, o) /\ cache' = c /\ loaded' = l /\ options' = o /\ UNCHANGED <<page, premature, wanted, server, get>>
      BY <1>11 DEF Profile!Saved
    <3> HIDE DEF c, l, o

    <3>3. form' \in Profile!FormFields
      BY <3>1, <3>2, AnswerKeepsForm
    <3>4. saves' \subseteq saves
      BY <1>11 DEF Profile!Saved
    <3> QED
      BY <3>1, <3>2, <3>3, <3>4 DEF Profile!Fields
  <2>2. Profile!SavesFinite'
    BY <1>11, FS_RemoveElement, SameFinite DEF Profile!Saved, Profile!SavesFinite
  <2>3. Profile!FormNames'
    <3> DEFINE c == s.body
               l == TRUE
               o == options
    <3>1. c \in Profile!Profiles /\ l \in BOOLEAN /\ o \in BOOLEAN /\ (options => o)
      BY DEF Profile!Fields, Profile!TypeOK, Profile!Saves
    <3>2. Profile!EffectsIfThere(c, l, o) /\ cache' = c /\ loaded' = l /\ options' = o /\ UNCHANGED <<page, premature, wanted, server, get>>
      BY <1>11 DEF Profile!Saved
    <3> HIDE DEF c, l, o

    <3> QED
      BY <3>1, <3>2, AnswerKeepsForm DEF Profile!FormNames
  <2>4. Profile!AllFit'
    <3> DEFINE c == s.body
               l == TRUE
               o == options
    <3>1. c \in Profile!Profiles /\ l \in BOOLEAN /\ o \in BOOLEAN /\ (options => o)
      BY DEF Profile!Fields, Profile!TypeOK, Profile!Saves
    <3>2. Profile!EffectsIfThere(c, l, o) /\ cache' = c /\ loaded' = l /\ options' = o /\ UNCHANGED <<page, premature, wanted, server, get>>
      BY <1>11 DEF Profile!Saved
    <3> HIDE DEF c, l, o

    <3>3. ~premature => Profile!Fits(c)
      BY DEF c, Profile!AllFit
    <3>4. saves' \subseteq saves
      BY <1>11 DEF Profile!Saved
    <3>5. ~premature => \A r \in Profile!Roles : form'.pair[r].model # Profile!Unset => Profile!FitsPair(form'.pair[r])
      BY <3>1, <3>2, <3>3, AnswerKeepsForm
    <3> QED
      BY <3>2, <3>3, <3>4, <3>5 DEF Profile!AllFit, Profile!Fits
  <2>5. Profile!OneSave'
    BY <1>11 DEF Profile!Saved, Profile!OneSave, Profile!Keeps
  <2>6. Profile!TypeOK'
    <3>1. (page \in {"none", "my-settings", "cloud-agents"})'
      BY <1>11 DEF Profile!Saved, Profile!TypeOK
    <3>2. (\A x \in {server, cache, form} : DOMAIN x.pair = Profile!Roles)'
      BY <2>1 DEF Profile!Fields, Profile!Profiles, Profile!FormFields
    <3>3. ({loaded, options, initialized, error, saveFailed, crossed, premature} \subseteq BOOLEAN)'
      <4> DEFINE c == s.body
                 l == TRUE
                 o == options
      <4>1. c \in Profile!Profiles /\ l \in BOOLEAN /\ o \in BOOLEAN /\ (options => o)
      BY DEF Profile!Fields, Profile!TypeOK, Profile!Saves
      <4>2. Profile!EffectsIfThere(c, l, o) /\ cache' = c /\ loaded' = l /\ options' = o /\ UNCHANGED <<page, premature, wanted, server>>
      BY <1>11 DEF Profile!Saved
      <4> HIDE DEF c, l, o

      <4>3. initialized' \in BOOLEAN
      BY <4>1, <4>2, AnswerKeepsForm
      <4>4. UNCHANGED <<error, saveFailed, crossed, premature>>
      BY <1>11 DEF Profile!Saved
      <4> QED
      BY <4>1, <4>2, <4>3, <4>4 DEF Profile!TypeOK
    <3>4. (Profile!Cardinality(saves) <= 2)'
      <4>1. Cardinality(saves) \in Nat /\ Cardinality(saves \ {s}) <= Cardinality(saves) /\ Cardinality(saves \ {s}) \in Nat
        BY FS_RemoveElement, FS_CardinalityType, SameFinite DEF Profile!SavesFinite
      <4> QED
        BY <1>11, <4>1, SameCardinality DEF Profile!Saved, Profile!TypeOK
    <3>5. (clicks \in 0..MaxClicks)'
      BY <1>11 DEF Profile!Saved, Profile!TypeOK
    <3> QED
      BY <3>1, <3>2, <3>3, <3>4, <3>5 DEF Profile!TypeOK
  <2> QED
    BY <2>1, <2>2, <2>3, <2>4, <2>5, <2>6
<1>12. ASSUME NEW s \in saves, Profile!SaveFails(s)
       PROVE  Profile!Inv'
  <2>1. Profile!Fields'
    BY <1>12 DEF Profile!SaveFails, Profile!Fields
  <2>2. Profile!SavesFinite'
    BY <1>12, FS_RemoveElement, SameFinite DEF Profile!SaveFails, Profile!SavesFinite
  <2>3. Profile!FormNames'
    BY <1>12 DEF Profile!SaveFails, Profile!FormNames, Profile!EmptyForm
  <2>4. Profile!AllFit'
    BY <1>12 DEF Profile!SaveFails, Profile!AllFit, Profile!Fits
  <2>5. Profile!OneSave'
    BY <1>12 DEF Profile!SaveFails, Profile!OneSave, Profile!Keeps
  <2>6. Profile!TypeOK'
    <3>1. (page \in {"none", "my-settings", "cloud-agents"})'
      BY <1>12 DEF Profile!SaveFails, Profile!TypeOK
    <3>2. (\A x \in {server, cache, form} : DOMAIN x.pair = Profile!Roles)'
      BY <2>1 DEF Profile!Fields, Profile!Profiles, Profile!FormFields
    <3>3. ({loaded, options, initialized, error, saveFailed, crossed, premature} \subseteq BOOLEAN)'
      <4>1. s.here \in BOOLEAN
        BY DEF Profile!Fields, Profile!Saves
      <4> QED
        BY <1>12, <4>1 DEF Profile!SaveFails, Profile!TypeOK
    <3>4. (Profile!Cardinality(saves) <= 2)'
      <4>1. Cardinality(saves) \in Nat /\ Cardinality(saves \ {s}) <= Cardinality(saves) /\ Cardinality(saves \ {s}) \in Nat
        BY FS_RemoveElement, FS_CardinalityType, SameFinite DEF Profile!SavesFinite
      <4> QED
        BY <1>12, <4>1, SameCardinality DEF Profile!SaveFails, Profile!TypeOK
    <3>5. (clicks \in 0..MaxClicks)'
      BY <1>12 DEF Profile!SaveFails, Profile!TypeOK
    <3> QED
      BY <3>1, <3>2, <3>3, <3>4, <3>5 DEF Profile!TypeOK
  <2> QED
    BY <2>1, <2>2, <2>3, <2>4, <2>5, <2>6
<1>13. CASE UNCHANGED profileVars
  <2>1. Profile!Fields'
    BY <1>13 DEF profileVars, Profile!Fields
  <2>2. Profile!SavesFinite'
    BY <1>13 DEF profileVars, Profile!SavesFinite
  <2>3. Profile!FormNames'
    BY <1>13 DEF profileVars, Profile!FormNames, Profile!EmptyForm
  <2>4. Profile!AllFit'
    BY <1>13 DEF profileVars, Profile!AllFit, Profile!Fits
  <2>5. Profile!OneSave'
    BY <1>13 DEF profileVars, Profile!OneSave, Profile!Keeps
  <2>6. Profile!TypeOK'
    <3>1. (page \in {"none", "my-settings", "cloud-agents"})'
      BY <1>13 DEF profileVars, Profile!TypeOK
    <3>2. (\A x \in {server, cache, form} : DOMAIN x.pair = Profile!Roles)'
      BY <1>13 DEF profileVars, Profile!TypeOK
    <3>3. ({loaded, options, initialized, error, saveFailed, crossed, premature} \subseteq BOOLEAN)'
      BY <1>13 DEF profileVars, Profile!TypeOK
    <3>4. (Profile!Cardinality(saves) <= 2)'
      BY <1>13 DEF profileVars, Profile!TypeOK
    <3>5. (clicks \in 0..MaxClicks)'
      BY <1>13 DEF profileVars, Profile!TypeOK
    <3> QED
      BY <3>1, <3>2, <3>3, <3>4, <3>5 DEF Profile!TypeOK
  <2> QED
    BY <2>1, <2>2, <2>3, <2>4, <2>5, <2>6
<1>14. CASE Profile!AskProfile
  <2>1. get' \in [stage : {"idle", "asked", "answered"}, data : Profile!Profiles] /\ get'.data = get.data
    BY <1>14 DEF Profile!AskProfile, Profile!Fields
  <2>2. UNCHANGED <<server, cache, loaded, options, page, initialized, form, saves, error, wanted, saveFailed, crossed, premature, clicks>>
    BY <1>14 DEF Profile!AskProfile
  <2>3. Profile!Fields'
    BY <2>1, <2>2 DEF Profile!Fields
  <2>4. Profile!SavesFinite' /\ Profile!FormNames'
    BY <2>2 DEF Profile!SavesFinite, Profile!FormNames
  <2>5. Profile!AllFit' /\ Profile!OneSave'
    BY <2>1, <2>2 DEF Profile!AllFit, Profile!Fits, Profile!OneSave, Profile!Keeps
  <2>6. Profile!TypeOK'
    BY <2>2 DEF Profile!TypeOK
  <2> QED
    BY <2>3, <2>4, <2>5, <2>6
<1>15. CASE Profile!AnswerProfile
  <2>1. get' \in [stage : {"idle", "asked", "answered"}, data : Profile!Profiles] /\ (~premature => Profile!Fits(get'.data))
    <3>1. get' = [stage |-> "answered", data |-> server] \/ get' = Profile!NoGet
      BY <1>15 DEF Profile!AnswerProfile
    <3> QED
      BY <3>1, NothingAsked DEF Profile!Fields, Profile!AllFit
  <2>2. UNCHANGED <<server, cache, loaded, options, page, initialized, form, saves, error, wanted, saveFailed, crossed, premature, clicks>>
    BY <1>15 DEF Profile!AnswerProfile
  <2>3. Profile!Fields'
    BY <2>1, <2>2 DEF Profile!Fields
  <2>4. Profile!SavesFinite' /\ Profile!FormNames'
    BY <2>2 DEF Profile!SavesFinite, Profile!FormNames
  <2>5. Profile!AllFit' /\ Profile!OneSave'
    BY <2>1, <2>2 DEF Profile!AllFit, Profile!Fits, Profile!OneSave, Profile!Keeps
  <2>6. Profile!TypeOK'
    BY <2>2 DEF Profile!TypeOK
  <2> QED
    BY <2>3, <2>4, <2>5, <2>6
<1> QED
  BY <1>1, <1>2, <1>3, <1>4, <1>5, <1>6, <1>7, <1>8, <1>9, <1>10, <1>11, <1>12, <1>13, <1>14, <1>15 DEF Profile!Next

(* For all roles, models and efforts and all late answers: saves that do    *)
(* not cross, of pages that know the stored profile, keep what the other    *)
(* page saved; and what is saved, crossing and failing saves included, has  *)
(* efforts that the models have.                                            *)
THEOREM ProfileAlwaysKept == Spec => []ProfileKept
<1> DEFINE I == focus = "profile" => Profile!Inv
<1>1. Init => I
  BY ProfileInit DEF Init
<1>2. I /\ [Next]_vars => I'
  BY OnePart, ProfileStep
<1>3. I => ProfileKept
  <2> SUFFICES ASSUME focus = "profile", Profile!Inv PROVE Profile!SerialKeeps /\ Profile!EffortFits
    BY DEF ProfileKept
  <2>1. Profile!SerialKeeps
    BY DEF Profile!Inv, Profile!OneSave, Profile!FieldsKept, Profile!SerialKeeps
  <2>2. Profile!EffortFits
    BY DEF Profile!Inv, Profile!AllFit, Profile!Fits, Profile!FitsPair, Profile!EffortFits
  <2> QED
    BY <2>1, <2>2
<1> QED
  BY <1>1, <1>2, <1>3, PTL DEF Spec

----------------------------------------------------------------------------
(* Editors of a repository's prompt                                         *)

(* What the server makes of a call: its repository's record changes to      *)
(* another record, and the records of the others stay.                      *)
LEMMA ServedRecords ==
    ASSUME RepoEditors!TypeOK, RepoEditors!Calls, NEW c \in calls
    PROVE  /\ c.repo \in PromptRepos
           /\ RepoEditors!Served(c) \in [PromptRepos -> RepoEditors!Records]
           /\ \A r \in PromptRepos \ {c.repo} : RepoEditors!Served(c)[r] = reposServer[r]
           /\ reposServer[c.repo].on /\ c.kind \in {"analyze", "save", "cancel"} =>
                RepoEditors!Served(c)[c.repo].on
<1>1. c.repo \in PromptRepos /\ c.prompt \in Prompts \cup {0} /\ reposServer \in [PromptRepos -> RepoEditors!Records]
  BY DEF RepoEditors!TypeOK, RepoEditors!Calls
<1> DEFINE rec == CASE c.kind = "create" -> IF reposServer[c.repo].on THEN reposServer[c.repo] ELSE RepoEditors!Blank
                    [] c.kind = "remove" -> RepoEditors!Absent
                    [] ~reposServer[c.repo].on -> reposServer[c.repo]
                    [] c.kind = "save" -> [reposServer[c.repo] EXCEPT !.prompt = c.prompt]
                    [] OTHER -> [reposServer[c.repo] EXCEPT !.running = (c.kind = "analyze")]
<1>2. RepoEditors!Served(c) = [reposServer EXCEPT ![c.repo] = rec]
  BY DEF RepoEditors!Served
<1>3. rec \in RepoEditors!Records
  BY <1>1 DEF RepoEditors!Records, RepoEditors!Blank, RepoEditors!Absent
<1>4. reposServer[c.repo].on /\ c.kind \in {"analyze", "save", "cancel"} => rec.on
  BY <1>1 DEF RepoEditors!Records
<1> HIDE DEF rec
<1> QED
  BY <1>1, <1>2, <1>3, <1>4

(* The invariant of the prompt editors holds at first.                      *)
LEMMA RepoEditorsInit == RepoEditors!Init => RepoEditors!Inv
<1> SUFFICES ASSUME RepoEditors!Init PROVE RepoEditors!Inv
  OBVIOUS
<1>1. RepoEditors!Absent \in RepoEditors!Records
  BY DEF RepoEditors!Absent, RepoEditors!Records
<1>2. RepoEditors!Blank \in RepoEditors!Records
  BY <1>1 DEF RepoEditors!Blank, RepoEditors!Records
<1>3. \A p \in Prompts : [RepoEditors!Blank EXCEPT !.prompt = p] \in RepoEditors!Records
  BY <1>2 DEF RepoEditors!Records
<1>6. reposServer \in [PromptRepos -> RepoEditors!Records] /\ detail \in [PromptRepos -> RepoEditors!Records]
  BY <1>1, <1>2, <1>3 DEF RepoEditors!Init, RepoEditors!Missing
<1>4. RepoEditors!TypeOK
  BY <1>6, BoundAssumption DEF RepoEditors!Init, RepoEditors!TypeOK
<1>5. RepoEditors!Known /\ RepoEditors!Gone
  BY DEF RepoEditors!Init, RepoEditors!Known, RepoEditors!Gone, RepoEditors!Missing, RepoEditors!Absent
<1> QED
  BY <1>4, <1>5 DEF RepoEditors!Init, RepoEditors!Inv, RepoEditors!Calls, RepoEditors!Synced,
      RepoEditors!Deps, RepoEditors!Loaded, RepoEditors!DraftIsOfRepo

(* Every action of the prompt editors keeps its invariant.                  *)
LEMMA RepoEditorsStep ==
    ASSUME RepoEditors!Inv, [RepoEditors!Next]_reposVars
    PROVE  RepoEditors!Inv'
<1> USE BoundAssumption, RepoAssumption DEF RepoEditors!Inv, RepoEditors!Click, RepoEditors!queries,
    RepoEditors!editor, RepoEditors!Mutate, RepoEditors!Pressed
<1>1. CASE RepoEditors!PollList
  <2>1. RepoEditors!TypeOK'
    BY <1>1 DEF RepoEditors!PollList, RepoEditors!TypeOK, RepoEditors!Calls, RepoEditors!Absent,
        RepoEditors!Records
  <2>2. RepoEditors!Calls'
    BY <1>1 DEF RepoEditors!PollList, RepoEditors!Calls, RepoEditors!TypeOK, RepoEditors!Absent,
        RepoEditors!Records
  <2>3. RepoEditors!Synced'
    BY <1>1 DEF RepoEditors!PollList, RepoEditors!Synced, RepoEditors!TypeOK, RepoEditors!Absent,
        RepoEditors!Records
  <2>4. RepoEditors!DraftIsOfRepo'
    BY <1>1 DEF RepoEditors!PollList, RepoEditors!DraftIsOfRepo, RepoEditors!Synced,
        RepoEditors!TypeOK, RepoEditors!Absent, RepoEditors!Records
  <2>5. RepoEditors!Known'
    BY <1>1 DEF RepoEditors!PollList, RepoEditors!Known, RepoEditors!TypeOK, RepoEditors!Calls,
        RepoEditors!Gone, RepoEditors!Fresh, RepoEditors!Absent, RepoEditors!Records
  <2>6. RepoEditors!Gone'
    BY <1>1 DEF RepoEditors!PollList, RepoEditors!Gone, RepoEditors!TypeOK, RepoEditors!Calls,
        RepoEditors!Absent, RepoEditors!Records
  <2> QED
    BY <2>1, <2>2, <2>3, <2>4, <2>5, <2>6
<1>2. CASE RepoEditors!PollDetail
  <2>1. RepoEditors!TypeOK'
    BY <1>2 DEF RepoEditors!PollDetail, RepoEditors!Loaded, RepoEditors!UpToDate, RepoEditors!TypeOK,
        RepoEditors!Calls, RepoEditors!Absent, RepoEditors!Records
  <2>2. RepoEditors!Calls'
    BY <1>2 DEF RepoEditors!PollDetail, RepoEditors!Loaded, RepoEditors!UpToDate, RepoEditors!Calls,
        RepoEditors!TypeOK, RepoEditors!Absent, RepoEditors!Records
  <2>3. RepoEditors!Synced'
    BY <1>2 DEF RepoEditors!PollDetail, RepoEditors!Loaded, RepoEditors!UpToDate, RepoEditors!Synced,
        RepoEditors!TypeOK, RepoEditors!Absent, RepoEditors!Records
  <2>4. RepoEditors!DraftIsOfRepo'
    BY <1>2 DEF RepoEditors!PollDetail, RepoEditors!Loaded, RepoEditors!UpToDate,
        RepoEditors!DraftIsOfRepo, RepoEditors!Synced, RepoEditors!TypeOK, RepoEditors!Absent,
        RepoEditors!Records
  <2>5. RepoEditors!Known'
    BY <1>2 DEF RepoEditors!PollDetail, RepoEditors!Loaded, RepoEditors!UpToDate, RepoEditors!Known,
        RepoEditors!TypeOK, RepoEditors!Calls, RepoEditors!Gone, RepoEditors!Fresh,
        RepoEditors!Absent, RepoEditors!Records
  <2>6. RepoEditors!Gone'
    BY <1>2 DEF RepoEditors!PollDetail, RepoEditors!Loaded, RepoEditors!UpToDate, RepoEditors!Gone,
        RepoEditors!TypeOK, RepoEditors!Calls, RepoEditors!Absent, RepoEditors!Records
  <2> QED
    BY <2>1, <2>2, <2>3, <2>4, <2>5, <2>6
<1>3. CASE RepoEditors!handleAdd
  <2>1. RepoEditors!TypeOK'
    BY <1>3 DEF RepoEditors!handleAdd, RepoEditors!canAdd, RepoEditors!TypeOK, RepoEditors!Calls,
        RepoEditors!Absent, RepoEditors!Records
  <2>2. RepoEditors!Calls'
    BY <1>3 DEF RepoEditors!handleAdd, RepoEditors!canAdd, RepoEditors!Calls, RepoEditors!TypeOK,
        RepoEditors!Absent, RepoEditors!Records
  <2>3. RepoEditors!Synced'
    BY <1>3 DEF RepoEditors!handleAdd, RepoEditors!canAdd, RepoEditors!Synced, RepoEditors!TypeOK,
        RepoEditors!Absent, RepoEditors!Records
  <2>4. RepoEditors!DraftIsOfRepo'
    BY <1>3 DEF RepoEditors!handleAdd, RepoEditors!canAdd, RepoEditors!DraftIsOfRepo,
        RepoEditors!Synced, RepoEditors!TypeOK, RepoEditors!Absent, RepoEditors!Records
  <2>5. RepoEditors!Known'
    BY <1>3 DEF RepoEditors!handleAdd, RepoEditors!canAdd, RepoEditors!Known, RepoEditors!TypeOK,
        RepoEditors!Calls, RepoEditors!Gone, RepoEditors!Fresh, RepoEditors!Absent,
        RepoEditors!Records
  <2>6. RepoEditors!Gone'
    BY <1>3 DEF RepoEditors!handleAdd, RepoEditors!canAdd, RepoEditors!Gone, RepoEditors!TypeOK,
        RepoEditors!Calls, RepoEditors!Absent, RepoEditors!Records
  <2> QED
    BY <2>1, <2>2, <2>3, <2>4, <2>5, <2>6
<1>4. CASE RepoEditors!AnalyzeButton
  <2>1. RepoEditors!TypeOK'
    BY <1>4 DEF RepoEditors!AnalyzeButton, RepoEditors!active, RepoEditors!Loaded,
        RepoEditors!TypeOK, RepoEditors!Calls, RepoEditors!Absent, RepoEditors!Records
  <2>2. RepoEditors!Calls'
    BY <1>4 DEF RepoEditors!AnalyzeButton, RepoEditors!active, RepoEditors!Loaded, RepoEditors!Calls,
        RepoEditors!TypeOK, RepoEditors!Absent, RepoEditors!Records
  <2>3. RepoEditors!Synced'
    BY <1>4 DEF RepoEditors!AnalyzeButton, RepoEditors!active, RepoEditors!Loaded,
        RepoEditors!Synced, RepoEditors!TypeOK, RepoEditors!Absent, RepoEditors!Records
  <2>4. RepoEditors!DraftIsOfRepo'
    BY <1>4 DEF RepoEditors!AnalyzeButton, RepoEditors!active, RepoEditors!Loaded,
        RepoEditors!DraftIsOfRepo, RepoEditors!Synced, RepoEditors!TypeOK, RepoEditors!Absent,
        RepoEditors!Records
  <2>5. RepoEditors!Known'
    BY <1>4 DEF RepoEditors!AnalyzeButton, RepoEditors!active, RepoEditors!Loaded, RepoEditors!Known,
        RepoEditors!TypeOK, RepoEditors!Calls, RepoEditors!Gone, RepoEditors!Fresh,
        RepoEditors!Absent, RepoEditors!Records
  <2>6. RepoEditors!Gone'
    BY <1>4 DEF RepoEditors!AnalyzeButton, RepoEditors!active, RepoEditors!Loaded, RepoEditors!Gone,
        RepoEditors!TypeOK, RepoEditors!Calls, RepoEditors!Absent, RepoEditors!Records
  <2> QED
    BY <2>1, <2>2, <2>3, <2>4, <2>5, <2>6
<1>5. CASE RepoEditors!CancelButton
  <2>1. RepoEditors!TypeOK'
    BY <1>5 DEF RepoEditors!CancelButton, RepoEditors!active, RepoEditors!Loaded, RepoEditors!TypeOK,
        RepoEditors!Calls, RepoEditors!Absent, RepoEditors!Records
  <2>2. RepoEditors!Calls'
    BY <1>5 DEF RepoEditors!CancelButton, RepoEditors!active, RepoEditors!Loaded, RepoEditors!Calls,
        RepoEditors!TypeOK, RepoEditors!Absent, RepoEditors!Records
  <2>3. RepoEditors!Synced'
    BY <1>5 DEF RepoEditors!CancelButton, RepoEditors!active, RepoEditors!Loaded, RepoEditors!Synced,
        RepoEditors!TypeOK, RepoEditors!Absent, RepoEditors!Records
  <2>4. RepoEditors!DraftIsOfRepo'
    BY <1>5 DEF RepoEditors!CancelButton, RepoEditors!active, RepoEditors!Loaded,
        RepoEditors!DraftIsOfRepo, RepoEditors!Synced, RepoEditors!TypeOK, RepoEditors!Absent,
        RepoEditors!Records
  <2>5. RepoEditors!Known'
    BY <1>5 DEF RepoEditors!CancelButton, RepoEditors!active, RepoEditors!Loaded, RepoEditors!Known,
        RepoEditors!TypeOK, RepoEditors!Calls, RepoEditors!Gone, RepoEditors!Fresh,
        RepoEditors!Absent, RepoEditors!Records
  <2>6. RepoEditors!Gone'
    BY <1>5 DEF RepoEditors!CancelButton, RepoEditors!active, RepoEditors!Loaded, RepoEditors!Gone,
        RepoEditors!TypeOK, RepoEditors!Calls, RepoEditors!Absent, RepoEditors!Records
  <2> QED
    BY <2>1, <2>2, <2>3, <2>4, <2>5, <2>6
<1>6. CASE RepoEditors!SaveButton
  <2>1. RepoEditors!TypeOK'
    BY <1>6 DEF RepoEditors!SaveButton, RepoEditors!active, RepoEditors!Loaded, RepoEditors!TypeOK,
        RepoEditors!Calls, RepoEditors!Absent, RepoEditors!Records
  <2>2. RepoEditors!Calls'
    BY <1>6 DEF RepoEditors!SaveButton, RepoEditors!active, RepoEditors!Loaded, RepoEditors!Calls,
        RepoEditors!TypeOK, RepoEditors!Absent, RepoEditors!Records
  <2>3. RepoEditors!Synced'
    BY <1>6 DEF RepoEditors!SaveButton, RepoEditors!active, RepoEditors!Loaded, RepoEditors!Synced,
        RepoEditors!TypeOK, RepoEditors!Absent, RepoEditors!Records
  <2>4. RepoEditors!DraftIsOfRepo'
    BY <1>6 DEF RepoEditors!SaveButton, RepoEditors!active, RepoEditors!Loaded,
        RepoEditors!DraftIsOfRepo, RepoEditors!Synced, RepoEditors!TypeOK, RepoEditors!Absent,
        RepoEditors!Records
  <2>5. RepoEditors!Known'
    BY <1>6 DEF RepoEditors!SaveButton, RepoEditors!active, RepoEditors!Loaded, RepoEditors!Known,
        RepoEditors!TypeOK, RepoEditors!Calls, RepoEditors!Gone, RepoEditors!Fresh,
        RepoEditors!Absent, RepoEditors!Records
  <2>6. RepoEditors!Gone'
    BY <1>6 DEF RepoEditors!SaveButton, RepoEditors!active, RepoEditors!Loaded, RepoEditors!Gone,
        RepoEditors!TypeOK, RepoEditors!Calls, RepoEditors!Absent, RepoEditors!Records
  <2> QED
    BY <2>1, <2>2, <2>3, <2>4, <2>5, <2>6
<1>7. CASE RepoEditors!RemoveButton
  <2>1. RepoEditors!TypeOK'
    BY <1>7 DEF RepoEditors!RemoveButton, RepoEditors!active, RepoEditors!Loaded, RepoEditors!TypeOK,
        RepoEditors!Calls, RepoEditors!Absent, RepoEditors!Records
  <2>2. RepoEditors!Calls'
    BY <1>7 DEF RepoEditors!RemoveButton, RepoEditors!active, RepoEditors!Loaded, RepoEditors!Calls,
        RepoEditors!TypeOK, RepoEditors!Absent, RepoEditors!Records
  <2>3. RepoEditors!Synced'
    BY <1>7 DEF RepoEditors!RemoveButton, RepoEditors!active, RepoEditors!Loaded, RepoEditors!Synced,
        RepoEditors!TypeOK, RepoEditors!Absent, RepoEditors!Records
  <2>4. RepoEditors!DraftIsOfRepo'
    BY <1>7 DEF RepoEditors!RemoveButton, RepoEditors!active, RepoEditors!Loaded,
        RepoEditors!DraftIsOfRepo, RepoEditors!Synced, RepoEditors!TypeOK, RepoEditors!Absent,
        RepoEditors!Records
  <2>5. RepoEditors!Known'
    BY <1>7 DEF RepoEditors!RemoveButton, RepoEditors!active, RepoEditors!Loaded, RepoEditors!Known,
        RepoEditors!TypeOK, RepoEditors!Calls, RepoEditors!Gone, RepoEditors!Fresh,
        RepoEditors!Absent, RepoEditors!Records
  <2>6. RepoEditors!Gone'
    BY <1>7 DEF RepoEditors!RemoveButton, RepoEditors!active, RepoEditors!Loaded, RepoEditors!Gone,
        RepoEditors!TypeOK, RepoEditors!Calls, RepoEditors!Absent, RepoEditors!Records
  <2> QED
    BY <2>1, <2>2, <2>3, <2>4, <2>5, <2>6
<1>8. ASSUME NEW l \in listAsked, RepoEditors!ListAnswer(l)
      PROVE  RepoEditors!Inv'
  <2>1. RepoEditors!TypeOK'
    BY <1>8 DEF RepoEditors!ListAnswer, RepoEditors!TypeOK, RepoEditors!Calls, RepoEditors!Absent,
        RepoEditors!Records
  <2>2. RepoEditors!Calls'
    BY <1>8 DEF RepoEditors!ListAnswer, RepoEditors!Calls, RepoEditors!TypeOK, RepoEditors!Absent,
        RepoEditors!Records
  <2>3. RepoEditors!Synced'
    BY <1>8 DEF RepoEditors!ListAnswer, RepoEditors!Synced, RepoEditors!TypeOK, RepoEditors!Absent,
        RepoEditors!Records
  <2>4. RepoEditors!DraftIsOfRepo'
    BY <1>8 DEF RepoEditors!ListAnswer, RepoEditors!DraftIsOfRepo, RepoEditors!Synced,
        RepoEditors!TypeOK, RepoEditors!Absent, RepoEditors!Records
  <2>5. RepoEditors!Known'
    BY <1>8 DEF RepoEditors!ListAnswer, RepoEditors!Known, RepoEditors!TypeOK, RepoEditors!Calls,
        RepoEditors!Gone, RepoEditors!Fresh, RepoEditors!Absent, RepoEditors!Records
  <2>6. RepoEditors!Gone'
    BY <1>8 DEF RepoEditors!ListAnswer, RepoEditors!Gone, RepoEditors!TypeOK, RepoEditors!Calls,
        RepoEditors!Absent, RepoEditors!Records
  <2> QED
    BY <2>1, <2>2, <2>3, <2>4, <2>5, <2>6
<1>9. ASSUME NEW r \in PromptRepos, RepoEditors!DetailAnswer(r)
      PROVE  RepoEditors!Inv'
  <2>1. RepoEditors!TypeOK'
    BY <1>9 DEF RepoEditors!DetailAnswer, RepoEditors!Sync, RepoEditors!Deps, RepoEditors!Loaded,
        RepoEditors!TypeOK, RepoEditors!Calls, RepoEditors!Absent, RepoEditors!Records
  <2>2. RepoEditors!Calls'
    BY <1>9 DEF RepoEditors!DetailAnswer, RepoEditors!Sync, RepoEditors!Deps, RepoEditors!Loaded,
        RepoEditors!Calls, RepoEditors!TypeOK, RepoEditors!Absent, RepoEditors!Records
  <2>3. RepoEditors!Synced'
    BY <1>9 DEF RepoEditors!DetailAnswer, RepoEditors!Sync, RepoEditors!Deps, RepoEditors!Loaded,
        RepoEditors!Synced, RepoEditors!TypeOK, RepoEditors!Absent, RepoEditors!Records
  <2>4. RepoEditors!DraftIsOfRepo'
    BY <1>9 DEF RepoEditors!DetailAnswer, RepoEditors!Sync, RepoEditors!Deps, RepoEditors!Loaded,
        RepoEditors!DraftIsOfRepo, RepoEditors!Synced, RepoEditors!TypeOK, RepoEditors!Absent,
        RepoEditors!Records
  <2>5. RepoEditors!Known'
    BY <1>9 DEF RepoEditors!DetailAnswer, RepoEditors!Sync, RepoEditors!Deps, RepoEditors!Loaded,
        RepoEditors!Known, RepoEditors!TypeOK, RepoEditors!Calls, RepoEditors!Gone,
        RepoEditors!Fresh, RepoEditors!Absent, RepoEditors!Records
  <2>6. RepoEditors!Gone'
    BY <1>9 DEF RepoEditors!DetailAnswer, RepoEditors!Sync, RepoEditors!Deps, RepoEditors!Loaded,
        RepoEditors!Gone, RepoEditors!TypeOK, RepoEditors!Calls, RepoEditors!Absent,
        RepoEditors!Records
  <2> QED
    BY <2>1, <2>2, <2>3, <2>4, <2>5, <2>6
<1>10. ASSUME NEW r \in PromptRepos, NEW old \in BOOLEAN, RepoEditors!SelectRow(r, old)
       PROVE  RepoEditors!Inv'
  <2>1. RepoEditors!TypeOK'
    <3>1. asked' \in [PromptRepos -> RepoEditors!Records] /\ behind' \subseteq PromptRepos
      BY <1>10 DEF RepoEditors!SelectRow, RepoEditors!UpToDate, RepoEditors!TypeOK
    <3>2. reposDraft' \in Prompts \cup {0} /\ origin' \in PromptRepos \cup {NoRepo}
      BY <1>10 DEF RepoEditors!SelectRow, RepoEditors!Sync, RepoEditors!TypeOK, RepoEditors!Records
    <3> QED
      BY <1>10, <3>1, <3>2 DEF RepoEditors!SelectRow, RepoEditors!TypeOK
  <2>2. RepoEditors!Calls'
    BY <1>10 DEF RepoEditors!SelectRow, RepoEditors!Sync, RepoEditors!Deps, RepoEditors!Loaded,
        RepoEditors!UpToDate, RepoEditors!Calls, RepoEditors!TypeOK, RepoEditors!Absent,
        RepoEditors!Records
  <2>3. RepoEditors!Synced'
    BY <1>10 DEF RepoEditors!SelectRow, RepoEditors!Sync, RepoEditors!Deps, RepoEditors!Loaded,
        RepoEditors!UpToDate, RepoEditors!Synced, RepoEditors!TypeOK, RepoEditors!Absent,
        RepoEditors!Records
  <2>4. RepoEditors!DraftIsOfRepo'
    BY <1>10 DEF RepoEditors!SelectRow, RepoEditors!Sync, RepoEditors!Deps, RepoEditors!Loaded,
        RepoEditors!UpToDate, RepoEditors!DraftIsOfRepo, RepoEditors!Synced, RepoEditors!TypeOK,
        RepoEditors!Absent, RepoEditors!Records
  <2>5. RepoEditors!Known'
    <3>1. reposServer' = reposServer /\ detail' = detail
      BY <1>10 DEF RepoEditors!SelectRow
    <3>2. CASE UNCHANGED <<asked, behind>>
      BY <3>1, <3>2 DEF RepoEditors!Known, RepoEditors!Fresh
    <3>3. CASE asked' = [asked EXCEPT ![r] = reposServer[r]] /\ behind' = RepoEditors!UpToDate(r)
      <4>1. ASSUME NEW q \in PromptRepos \ behind', q # r
            PROVE  asked'[q] = asked[q] /\ q \notin behind
        BY <3>3, <4>1 DEF RepoEditors!UpToDate, RepoEditors!TypeOK
      <4>2. asked'[r] = reposServer[r]
        BY <3>3 DEF RepoEditors!TypeOK
      <4>3. ~reposServer[r].on /\ r \notin behind' => ~detail[r].on
        BY <3>1, <3>3 DEF RepoEditors!UpToDate, RepoEditors!Gone
      <4> QED
        BY <3>1, <4>1, <4>2, <4>3 DEF RepoEditors!Known, RepoEditors!Fresh
    <3> QED
      BY <1>10, <3>2, <3>3 DEF RepoEditors!SelectRow
  <2>6. RepoEditors!Gone'
    BY <1>10 DEF RepoEditors!SelectRow, RepoEditors!Sync, RepoEditors!Deps, RepoEditors!Loaded,
        RepoEditors!UpToDate, RepoEditors!Gone, RepoEditors!TypeOK, RepoEditors!Calls,
        RepoEditors!Absent, RepoEditors!Records
  <2> QED
    BY <2>1, <2>2, <2>3, <2>4, <2>5, <2>6
<1>11. ASSUME NEW r \in PromptRepos, NEW p \in Prompts \cup {0}, RepoEditors!AnalysisEnds(r, p)
       PROVE  RepoEditors!Inv'
  <2>1. RepoEditors!TypeOK'
    <3> DEFINE ended == [reposServer EXCEPT ![r].running = FALSE]
    <3>0. reposServer \in [PromptRepos -> RepoEditors!Records]
      BY DEF RepoEditors!TypeOK
    <3>1. ended \in [PromptRepos -> RepoEditors!Records]
      <4>1. [reposServer[r] EXCEPT !.running = FALSE] \in RepoEditors!Records
        BY <1>11, <3>0 DEF RepoEditors!Records
      <4> QED
        BY <1>11, <3>0, <4>1
    <3>3. reposServer' = [ended EXCEPT ![r].prompt = IF p = 0 THEN @ ELSE p]
      BY <1>11 DEF RepoEditors!AnalysisEnds
    <3> HIDE DEF ended
    <3>2. reposServer' \in [PromptRepos -> RepoEditors!Records]
      BY <1>11, <3>1, <3>3 DEF RepoEditors!Records
    <3> QED
      BY <1>11, <3>2 DEF RepoEditors!AnalysisEnds, RepoEditors!TypeOK
  <2>2. RepoEditors!Calls'
    BY <1>11 DEF RepoEditors!AnalysisEnds, RepoEditors!Calls, RepoEditors!TypeOK, RepoEditors!Absent,
        RepoEditors!Records
  <2>3. RepoEditors!Synced'
    BY <1>11 DEF RepoEditors!AnalysisEnds, RepoEditors!Synced, RepoEditors!TypeOK,
        RepoEditors!Absent, RepoEditors!Records
  <2>4. RepoEditors!DraftIsOfRepo'
    BY <1>11 DEF RepoEditors!AnalysisEnds, RepoEditors!DraftIsOfRepo, RepoEditors!Synced,
        RepoEditors!TypeOK, RepoEditors!Absent, RepoEditors!Records
  <2>5. RepoEditors!Known'
    BY <1>11 DEF RepoEditors!AnalysisEnds, RepoEditors!Known, RepoEditors!TypeOK, RepoEditors!Calls,
        RepoEditors!Gone, RepoEditors!Fresh, RepoEditors!Absent, RepoEditors!Records
  <2>6. RepoEditors!Gone'
    BY <1>11 DEF RepoEditors!AnalysisEnds, RepoEditors!Gone, RepoEditors!TypeOK, RepoEditors!Calls,
        RepoEditors!Absent, RepoEditors!Records
  <2> QED
    BY <2>1, <2>2, <2>3, <2>4, <2>5, <2>6
<1>12. ASSUME NEW r \in PromptRepos \cup {NoRepo}, RepoEditors!TypeRepo(r)
       PROVE  RepoEditors!Inv'
  <2>1. RepoEditors!TypeOK'
    BY <1>12 DEF RepoEditors!TypeRepo, RepoEditors!TypeOK, RepoEditors!Calls, RepoEditors!Absent,
        RepoEditors!Records
  <2>2. RepoEditors!Calls'
    BY <1>12 DEF RepoEditors!TypeRepo, RepoEditors!Calls, RepoEditors!TypeOK, RepoEditors!Absent,
        RepoEditors!Records
  <2>3. RepoEditors!Synced'
    BY <1>12 DEF RepoEditors!TypeRepo, RepoEditors!Synced, RepoEditors!TypeOK, RepoEditors!Absent,
        RepoEditors!Records
  <2>4. RepoEditors!DraftIsOfRepo'
    BY <1>12 DEF RepoEditors!TypeRepo, RepoEditors!DraftIsOfRepo, RepoEditors!Synced,
        RepoEditors!TypeOK, RepoEditors!Absent, RepoEditors!Records
  <2>5. RepoEditors!Known'
    BY <1>12 DEF RepoEditors!TypeRepo, RepoEditors!Known, RepoEditors!TypeOK, RepoEditors!Calls,
        RepoEditors!Gone, RepoEditors!Fresh, RepoEditors!Absent, RepoEditors!Records
  <2>6. RepoEditors!Gone'
    BY <1>12 DEF RepoEditors!TypeRepo, RepoEditors!Gone, RepoEditors!TypeOK, RepoEditors!Calls,
        RepoEditors!Absent, RepoEditors!Records
  <2> QED
    BY <2>1, <2>2, <2>3, <2>4, <2>5, <2>6
<1>13. ASSUME NEW p \in Prompts \cup {0}, RepoEditors!TypePrompt(p)
       PROVE  RepoEditors!Inv'
  <2>1. RepoEditors!TypeOK'
    BY <1>13 DEF RepoEditors!TypePrompt, RepoEditors!TypeOK, RepoEditors!Calls, RepoEditors!Absent,
        RepoEditors!Records
  <2>2. RepoEditors!Calls'
    BY <1>13 DEF RepoEditors!TypePrompt, RepoEditors!Calls, RepoEditors!TypeOK, RepoEditors!Absent,
        RepoEditors!Records
  <2>3. RepoEditors!Synced'
    BY <1>13 DEF RepoEditors!TypePrompt, RepoEditors!Synced, RepoEditors!TypeOK, RepoEditors!Absent,
        RepoEditors!Records
  <2>4. RepoEditors!DraftIsOfRepo'
    BY <1>13 DEF RepoEditors!TypePrompt, RepoEditors!DraftIsOfRepo, RepoEditors!Synced,
        RepoEditors!TypeOK, RepoEditors!Absent, RepoEditors!Records
  <2>5. RepoEditors!Known'
    BY <1>13 DEF RepoEditors!TypePrompt, RepoEditors!Known, RepoEditors!TypeOK, RepoEditors!Calls,
        RepoEditors!Gone, RepoEditors!Fresh, RepoEditors!Absent, RepoEditors!Records
  <2>6. RepoEditors!Gone'
    BY <1>13 DEF RepoEditors!TypePrompt, RepoEditors!Gone, RepoEditors!TypeOK, RepoEditors!Calls,
        RepoEditors!Absent, RepoEditors!Records
  <2> QED
    BY <2>1, <2>2, <2>3, <2>4, <2>5, <2>6
<1>14. ASSUME NEW c \in calls, RepoEditors!Updated(c)
       PROVE  RepoEditors!Inv'
  <2>1. RepoEditors!TypeOK'
    <3>1. reposServer' \in [PromptRepos -> RepoEditors!Records] /\ c.repo \in PromptRepos
      BY <1>14, ServedRecords DEF RepoEditors!Updated
    <3>2. asked' \in [PromptRepos -> RepoEditors!Records] /\ listAsked' \subseteq [PromptRepos -> RepoEditors!Records]
      BY <1>14, <3>1 DEF RepoEditors!Updated, RepoEditors!Invalidate, RepoEditors!TypeOK
    <3>3. behind' \subseteq PromptRepos
      BY <1>14, <3>1 DEF RepoEditors!Updated, RepoEditors!UpToDate, RepoEditors!TypeOK
    <3> QED
      BY <1>14, <3>1, <3>2, <3>3 DEF RepoEditors!Updated, RepoEditors!TypeOK
  <2>2. RepoEditors!Calls'
    BY <1>14 DEF RepoEditors!Updated, RepoEditors!Served, RepoEditors!Invalidate,
        RepoEditors!UpToDate, RepoEditors!Calls, RepoEditors!TypeOK, RepoEditors!Absent,
        RepoEditors!Records
  <2>3. RepoEditors!Synced'
    BY <1>14 DEF RepoEditors!Updated, RepoEditors!Served, RepoEditors!Invalidate,
        RepoEditors!UpToDate, RepoEditors!Synced, RepoEditors!TypeOK, RepoEditors!Absent,
        RepoEditors!Records
  <2>4. RepoEditors!DraftIsOfRepo'
    BY <1>14 DEF RepoEditors!Updated, RepoEditors!Served, RepoEditors!Invalidate,
        RepoEditors!UpToDate, RepoEditors!DraftIsOfRepo, RepoEditors!Synced, RepoEditors!TypeOK,
        RepoEditors!Absent, RepoEditors!Records
  <2>5. RepoEditors!Known'
    <3>1. /\ reposServer' = RepoEditors!Served(c) /\ c.repo \in PromptRepos
          /\ \A r \in PromptRepos \ {c.repo} : reposServer'[r] = reposServer[r]
          /\ reposServer'[c.repo].on
      BY <1>14, ServedRecords DEF RepoEditors!Updated
    <3> SUFFICES ASSUME NEW r \in PromptRepos \ behind'
                 PROVE  /\ asked'[r].on => RepoEditors!Fresh(asked[r], r)'
                        /\ ~asked'[r].on /\ detail'[r].on => RepoEditors!Fresh(detail[r], r)'
      BY DEF RepoEditors!Known
    <3>2. CASE r = reposSelected
      <4>1. asked'[r] = reposServer'[r]
        BY <1>14, <3>2, RepoAssumption DEF RepoEditors!Updated, RepoEditors!Invalidate, RepoEditors!TypeOK
      <4>2. CASE reposServer'[r].on
        BY <4>1, <4>2 DEF RepoEditors!Fresh
      <4>3. CASE ~reposServer'[r].on
        <5>1. r # c.repo /\ r \notin behind /\ ~reposServer[r].on
          BY <1>14, <3>1, <3>2, <4>3 DEF RepoEditors!Updated, RepoEditors!UpToDate
        <5> QED
          BY <1>14, <4>1, <4>3, <5>1 DEF RepoEditors!Updated, RepoEditors!Gone
      <4> QED
        BY <4>2, <4>3
    <3>3. CASE r # reposSelected
      <4>1. asked'[r] = asked[r] /\ detail' = detail
        BY <1>14, <3>3 DEF RepoEditors!Updated, RepoEditors!Invalidate, RepoEditors!TypeOK
      <4>2. r # c.repo /\ r \notin behind
        BY <1>14, <3>3 DEF RepoEditors!Updated, RepoEditors!UpToDate
      <4> QED
        BY <3>1, <4>1, <4>2 DEF RepoEditors!Known, RepoEditors!Fresh
    <3> QED
      BY <3>2, <3>3
  <2>6. RepoEditors!Gone'
    BY <1>14 DEF RepoEditors!Updated, RepoEditors!Served, RepoEditors!Invalidate,
        RepoEditors!UpToDate, RepoEditors!Gone, RepoEditors!TypeOK, RepoEditors!Calls,
        RepoEditors!Absent, RepoEditors!Records
  <2> QED
    BY <2>1, <2>2, <2>3, <2>4, <2>5, <2>6
<1>15. ASSUME NEW c \in calls, RepoEditors!Created(c)
       PROVE  RepoEditors!Inv'
  <2>1. RepoEditors!TypeOK'
    BY <1>15 DEF RepoEditors!Created, RepoEditors!Served, RepoEditors!Blank, RepoEditors!Invalidate,
        RepoEditors!UpToDate, RepoEditors!Sync, RepoEditors!Deps, RepoEditors!Loaded,
        RepoEditors!TypeOK, RepoEditors!Calls, RepoEditors!Absent, RepoEditors!Records
  <2>2. RepoEditors!Calls'
    BY <1>15 DEF RepoEditors!Created, RepoEditors!Served, RepoEditors!Blank, RepoEditors!Invalidate,
        RepoEditors!UpToDate, RepoEditors!Sync, RepoEditors!Deps, RepoEditors!Loaded,
        RepoEditors!Calls, RepoEditors!TypeOK, RepoEditors!Absent, RepoEditors!Records
  <2>3. RepoEditors!Synced'
    BY <1>15 DEF RepoEditors!Created, RepoEditors!Served, RepoEditors!Blank, RepoEditors!Invalidate,
        RepoEditors!UpToDate, RepoEditors!Sync, RepoEditors!Deps, RepoEditors!Loaded,
        RepoEditors!Synced, RepoEditors!TypeOK, RepoEditors!Absent, RepoEditors!Records
  <2>4. RepoEditors!DraftIsOfRepo'
    BY <1>15 DEF RepoEditors!Created, RepoEditors!Served, RepoEditors!Blank, RepoEditors!Invalidate,
        RepoEditors!UpToDate, RepoEditors!Sync, RepoEditors!Deps, RepoEditors!Loaded,
        RepoEditors!DraftIsOfRepo, RepoEditors!Synced, RepoEditors!TypeOK, RepoEditors!Absent,
        RepoEditors!Records
  <2>5. RepoEditors!Known'
    BY <1>15 DEF RepoEditors!Created, RepoEditors!Served, RepoEditors!Blank, RepoEditors!Invalidate,
        RepoEditors!UpToDate, RepoEditors!Sync, RepoEditors!Deps, RepoEditors!Loaded,
        RepoEditors!Known, RepoEditors!TypeOK, RepoEditors!Calls, RepoEditors!Gone,
        RepoEditors!Fresh, RepoEditors!Absent, RepoEditors!Records
  <2>6. RepoEditors!Gone'
    BY <1>15 DEF RepoEditors!Created, RepoEditors!Served, RepoEditors!Blank, RepoEditors!Invalidate,
        RepoEditors!UpToDate, RepoEditors!Sync, RepoEditors!Deps, RepoEditors!Loaded,
        RepoEditors!Gone, RepoEditors!TypeOK, RepoEditors!Calls, RepoEditors!Absent,
        RepoEditors!Records
  <2> QED
    BY <2>1, <2>2, <2>3, <2>4, <2>5, <2>6
<1>16. ASSUME NEW c \in calls, RepoEditors!Removed(c)
       PROVE  RepoEditors!Inv'
  <2>1. RepoEditors!TypeOK'
    BY <1>16 DEF RepoEditors!Removed, RepoEditors!Served, RepoEditors!Invalidate, RepoEditors!Deps,
        RepoEditors!Loaded, RepoEditors!TypeOK, RepoEditors!Calls, RepoEditors!Absent,
        RepoEditors!Records
  <2>2. RepoEditors!Calls'
    BY <1>16 DEF RepoEditors!Removed, RepoEditors!Served, RepoEditors!Invalidate, RepoEditors!Deps,
        RepoEditors!Loaded, RepoEditors!Calls, RepoEditors!TypeOK, RepoEditors!Absent,
        RepoEditors!Records
  <2>3. RepoEditors!Synced'
    BY <1>16 DEF RepoEditors!Removed, RepoEditors!Served, RepoEditors!Invalidate, RepoEditors!Deps,
        RepoEditors!Loaded, RepoEditors!Synced, RepoEditors!TypeOK, RepoEditors!Absent,
        RepoEditors!Records
  <2>4. RepoEditors!DraftIsOfRepo'
    BY <1>16 DEF RepoEditors!Removed, RepoEditors!Served, RepoEditors!Invalidate, RepoEditors!Deps,
        RepoEditors!Loaded, RepoEditors!DraftIsOfRepo, RepoEditors!Synced, RepoEditors!TypeOK,
        RepoEditors!Absent, RepoEditors!Records
  <2>5. RepoEditors!Known'
    BY <1>16 DEF RepoEditors!Removed, RepoEditors!Served, RepoEditors!Invalidate, RepoEditors!Deps,
        RepoEditors!Loaded, RepoEditors!Known, RepoEditors!TypeOK, RepoEditors!Calls,
        RepoEditors!Gone, RepoEditors!Fresh, RepoEditors!Absent, RepoEditors!Records
  <2>6. RepoEditors!Gone'
    BY <1>16 DEF RepoEditors!Removed, RepoEditors!Served, RepoEditors!Invalidate, RepoEditors!Deps,
        RepoEditors!Loaded, RepoEditors!Gone, RepoEditors!TypeOK, RepoEditors!Calls,
        RepoEditors!Absent, RepoEditors!Records
  <2> QED
    BY <2>1, <2>2, <2>3, <2>4, <2>5, <2>6
<1>17. ASSUME NEW c \in calls, NEW lost \in BOOLEAN, RepoEditors!Fails(c, lost)
       PROVE  RepoEditors!Inv'
  <2>1. RepoEditors!TypeOK'
    <3>1. reposServer' \in [PromptRepos -> RepoEditors!Records] /\ behind' \subseteq PromptRepos
      BY <1>17, ServedRecords DEF RepoEditors!Fails, RepoEditors!TypeOK
    <3> QED
      BY <1>17, <3>1 DEF RepoEditors!Fails, RepoEditors!TypeOK
  <2>2. RepoEditors!Calls'
    BY <1>17 DEF RepoEditors!Fails, RepoEditors!Served, RepoEditors!Blank, RepoEditors!Calls,
        RepoEditors!TypeOK, RepoEditors!Absent, RepoEditors!Records
  <2>3. RepoEditors!Synced'
    BY <1>17 DEF RepoEditors!Fails, RepoEditors!Served, RepoEditors!Blank, RepoEditors!Synced,
        RepoEditors!TypeOK, RepoEditors!Absent, RepoEditors!Records
  <2>4. RepoEditors!DraftIsOfRepo'
    BY <1>17 DEF RepoEditors!Fails, RepoEditors!Served, RepoEditors!Blank, RepoEditors!DraftIsOfRepo,
        RepoEditors!Synced, RepoEditors!TypeOK, RepoEditors!Absent, RepoEditors!Records
  <2>5. RepoEditors!Known'
    BY <1>17 DEF RepoEditors!Fails, RepoEditors!Served, RepoEditors!Blank, RepoEditors!Known,
        RepoEditors!TypeOK, RepoEditors!Calls, RepoEditors!Gone, RepoEditors!Fresh,
        RepoEditors!Absent, RepoEditors!Records
  <2>6. RepoEditors!Gone'
    BY <1>17 DEF RepoEditors!Fails, RepoEditors!Served, RepoEditors!Blank, RepoEditors!Gone,
        RepoEditors!TypeOK, RepoEditors!Calls, RepoEditors!Absent, RepoEditors!Records
  <2> QED
    BY <2>1, <2>2, <2>3, <2>4, <2>5, <2>6
<1>18. CASE UNCHANGED reposVars
  <2>1. RepoEditors!TypeOK'
    BY <1>18 DEF reposVars, RepoEditors!TypeOK, RepoEditors!Calls, RepoEditors!Absent,
        RepoEditors!Records
  <2>2. RepoEditors!Calls'
    BY <1>18 DEF reposVars, RepoEditors!Calls, RepoEditors!TypeOK, RepoEditors!Absent,
        RepoEditors!Records
  <2>3. RepoEditors!Synced'
    BY <1>18 DEF reposVars, RepoEditors!Synced, RepoEditors!TypeOK, RepoEditors!Absent,
        RepoEditors!Records
  <2>4. RepoEditors!DraftIsOfRepo'
    BY <1>18 DEF reposVars, RepoEditors!DraftIsOfRepo, RepoEditors!Synced, RepoEditors!TypeOK,
        RepoEditors!Absent, RepoEditors!Records
  <2>5. RepoEditors!Known'
    BY <1>18 DEF reposVars, RepoEditors!Known, RepoEditors!TypeOK, RepoEditors!Calls,
        RepoEditors!Gone, RepoEditors!Fresh, RepoEditors!Absent, RepoEditors!Records
  <2>6. RepoEditors!Gone'
    BY <1>18 DEF reposVars, RepoEditors!Gone, RepoEditors!TypeOK, RepoEditors!Calls,
        RepoEditors!Absent, RepoEditors!Records
  <2> QED
    BY <2>1, <2>2, <2>3, <2>4, <2>5, <2>6
<1> QED
  BY <1>1, <1>2, <1>3, <1>4, <1>5, <1>6, <1>7, <1>8, <1>9, <1>10, <1>11, <1>12, <1>13, <1>14, <1>15,
      <1>16, <1>17, <1>18 DEF RepoEditors!Next

(* For all repositories and prompts: a draft is of the repository that is   *)
(* selected, and the prompt on display settles on the one of the server.    *)
THEOREM PromptsAreOfRepo == Spec => []PromptsOfRepo
<1> DEFINE I == focus = "repos" => RepoEditors!Inv
<1>1. Init => I
  BY RepoEditorsInit DEF Init
<1>2. I /\ [Next]_vars => I'
  BY OnePart, RepoEditorsStep
<1>3. I => PromptsOfRepo
  BY RepoAssumption DEF PromptsOfRepo, RepoEditors!Inv, RepoEditors!Known, RepoEditors!Synced,
      RepoEditors!Fresh, RepoEditors!TypeOK, RepoEditors!PromptConverges, RepoEditors!Loaded
<1> QED
  BY <1>1, <1>2, <1>3, PTL DEF Spec

----------------------------------------------------------------------------
(* The prompt bar of a thread                                               *)

(* A message that is sent has a number that its draft never had: it is none *)
(* of those on their way, queued, or queued when stop was pressed.          *)
LEMMA NewMessageIsNew ==
    ASSUME Compose!Typed, Compose!NewMessages, NEW d \in 0..MaxDrafts, Compose!OnSubmit(d),
           queue' \subseteq queue, UNCHANGED <<before, stopping, kept>>
    PROVE  Compose!NewMessages'
<1> DEFINE new == [draft |-> d, last |-> TRUE, n |-> sent[d] + 1]
           old(s) == [s EXCEPT !.last = FALSE]
           Sends == [draft : 0..MaxDrafts, last : BOOLEAN, n : Nat]
<1>1. /\ sends' = {old(s) : s \in sends} \cup {new} /\ sent' = [sent EXCEPT ![d] = @ + 1]
      /\ sent \in [0..MaxDrafts -> Nat]
  BY DEF Compose!OnSubmit, Compose!Typed
<1>2. \A e \in 0..MaxDrafts : sent'[e] \in Nat /\ sent[e] \in Nat /\ sent[e] <= sent'[e]
  BY <1>1
<1>3. \A s \in sends : old(s) \in Sends /\ old(s).draft = s.draft /\ old(s).n = s.n
  BY DEF Compose!NewMessages
<1>4. new \in Sends /\ new.draft = d /\ new.n = sent[d] + 1 /\ sent'[d] = sent[d] + 1
  BY <1>1
<1>5. <<d, sent[d] + 1>> \notin queue \cup before
  BY <1>1, QueuedAssumption DEF Compose!NewMessages
<1> HIDE DEF new, old
<1>6. ASSUME NEW s \in sends'
      PROVE  s \in Sends /\ s.n <= sent'[s.draft] /\ <<s.draft, s.n>> \notin queue \cup before
  <2>1. CASE s = new
    BY <1>2, <1>4, <1>5, <2>1
  <2>2. ASSUME NEW t \in sends, s = old(t)
        PROVE  s \in Sends /\ s.n <= sent'[s.draft] /\ <<s.draft, s.n>> \notin queue \cup before
    <3>1. t.draft \in 0..MaxDrafts /\ t.n \in Nat /\ t.n <= sent[t.draft] /\ <<t.draft, t.n>> \notin queue \cup before
      BY DEF Compose!NewMessages
    <3> QED
      BY <1>2, <1>3, <2>2, <3>1
  <2> QED
    BY <1>1, <2>1, <2>2
<1>7. ASSUME NEW s \in sends', NEW t \in sends', s.draft = t.draft, s.n = t.n
      PROVE  s = t
  <2>1. ASSUME NEW r \in sends PROVE ~(r.draft = d /\ r.n = sent[d] + 1)
    <3>1. r.n <= sent[r.draft]
      BY DEF Compose!NewMessages
    <3> QED
      BY <1>2, <3>1
  <2>2. \A r, u \in sends : r.draft = u.draft /\ r.n = u.n => r = u
    BY DEF Compose!NewMessages
  <2> QED
    BY <1>1, <1>3, <1>4, <1>7, <2>1, <2>2
<1>8. \A q \in (queue' \cup before) \ Queued : q \in (0..MaxDrafts) \X Nat /\ q[2] <= sent'[q[1]]
  <2> SUFFICES ASSUME NEW q \in (queue \cup before) \ Queued
               PROVE  q \in (0..MaxDrafts) \X Nat /\ q[2] <= sent'[q[1]]
    OBVIOUS
  <2>1. q \in (0..MaxDrafts) \X Nat /\ q[2] <= sent[q[1]]
    BY DEF Compose!NewMessages
  <2> QED
    BY <1>2, <2>1
<1>9. stopping' = "stopping" /\ ~kept' => queue' \cap before' = {}
  BY DEF Compose!NewMessages
<1> QED
  BY <1>6, <1>7, <1>8, <1>9 DEF Compose!NewMessages

(* The invariant of the prompt bar of a thread holds at first.              *)
LEMMA ComposeInit == Compose!Init => Compose!Inv
<1> SUFFICES ASSUME Compose!Init PROVE Compose!Inv
  OBVIOUS
<1>1. Compose!TypeOK
  BY BoundAssumption, QueuedAssumption DEF Compose!Init, Compose!TypeOK, Compose!OneAction
<1>2. sent \in [0..MaxDrafts -> Nat] /\ \A d \in 0..MaxDrafts : sent[d] = 0
  BY DEF Compose!Init
<1>3. composerTyped \in 0..MaxDrafts /\ value \in 0..composerTyped
  BY QueuedAssumption DEF Compose!Init
<1>4. Compose!Typed
  <2>1. \A d \in (composerTyped + 1)..MaxDrafts : sent[d] = 0
    BY <1>2, QueuedAssumption DEF Compose!Init
  <2> QED
    BY <1>2, <1>3, <2>1 DEF Compose!Init, Compose!Typed
<1>5. Compose!SentIsGone /\ Compose!DraftSentOnce /\ Compose!DepthCounts
  BY <1>2 DEF Compose!Init, Compose!SentIsGone, Compose!DraftSentOnce, Compose!DepthCounts, Compose!Drafts
<1>6. Compose!NewMessages /\ Compose!StopDiscards
  BY DEF Compose!Init, Compose!NewMessages, Compose!StopDiscards
<1> QED
  BY <1>1, <1>4, <1>5, <1>6 DEF Compose!Inv

(* Every action of the prompt bar of a thread keeps its invariant.          *)
LEMMA ComposeStep ==
    ASSUME Compose!Inv, [Compose!Next]_composerVars
    PROVE  Compose!Inv'
<1> USE BoundAssumption, QueuedAssumption DEF Compose!Inv, Compose!Click, Compose!draft, Compose!drag,
    Compose!rows, Compose!runs, Compose!ghosts
<1>1. CASE Compose!Type
  <2>1. Compose!TypeOK'
    BY <1>1 DEF Compose!Type, Compose!TypeOK, Compose!Typed, Compose!DepthCounts, Compose!OneAction,
        Compose!NewMessages
  <2>2. Compose!Typed'
    BY <1>1 DEF Compose!Type, Compose!Typed, Compose!TypeOK
  <2>3. Compose!SentIsGone'
    BY <1>1 DEF Compose!Type, Compose!SentIsGone, Compose!TypeOK, Compose!Typed, Compose!OneAction,
        Compose!Drafts
  <2>4. Compose!DraftSentOnce'
    BY <1>1 DEF Compose!Type, Compose!DraftSentOnce, Compose!SentIsGone, Compose!Typed,
        Compose!Drafts
  <2>5. Compose!DepthCounts'
    BY <1>1 DEF Compose!Type, Compose!DepthCounts, Compose!TypeOK, Compose!Typed
  <2>6. Compose!NewMessages'
    BY <1>1 DEF Compose!Type, Compose!NewMessages, Compose!TypeOK, Compose!Typed
  <2>7. Compose!StopDiscards'
    BY <1>1 DEF Compose!Type, Compose!StopDiscards, Compose!NewMessages
  <2> QED
    BY <2>1, <2>2, <2>3, <2>4, <2>5, <2>6, <2>7
<1>2. CASE Compose!handleSubmit
  <2>1. Compose!TypeOK'
    BY <1>2 DEF Compose!handleSubmit, Compose!TypeOK, Compose!OneAction
  <2>2. Compose!Typed'
    BY <1>2, SMTT(30) DEF Compose!handleSubmit, Compose!OnSubmit, Compose!Typed, Compose!TypeOK
  <2>3. Compose!SentIsGone'
    BY <1>2, SMTT(30) DEF Compose!handleSubmit, Compose!OnSubmit, Compose!SentIsGone, Compose!TypeOK,
        Compose!Typed, Compose!OneAction, Compose!Drafts
  <2>4. Compose!DraftSentOnce'
    BY <1>2 DEF Compose!handleSubmit, Compose!OnSubmit, Compose!DraftSentOnce, Compose!SentIsGone,
        Compose!Typed, Compose!Drafts
  <2>5. Compose!DepthCounts'
    BY <1>2 DEF Compose!handleSubmit, Compose!OnSubmit, Compose!DepthCounts, Compose!TypeOK,
        Compose!Typed
  <2>6. Compose!NewMessages'
    <3>1. value \in 0..MaxDrafts /\ Compose!OnSubmit(value) /\ UNCHANGED <<queue, before, stopping, kept>>
      BY <1>2 DEF Compose!handleSubmit, Compose!TypeOK
    <3> QED
      BY <3>1, NewMessageIsNew
  <2>7. Compose!StopDiscards'
    BY <1>2 DEF Compose!handleSubmit, Compose!OnSubmit, Compose!StopDiscards, Compose!NewMessages
  <2> QED
    BY <2>1, <2>2, <2>3, <2>4, <2>5, <2>6, <2>7
<1>3. CASE Compose!RemoveImage
  <2>1. Compose!TypeOK'
    BY <1>3 DEF Compose!RemoveImage, Compose!TypeOK, Compose!Typed, Compose!DepthCounts,
        Compose!OneAction, Compose!NewMessages
  <2>2. Compose!Typed'
    BY <1>3 DEF Compose!RemoveImage, Compose!Typed, Compose!TypeOK
  <2>3. Compose!SentIsGone'
    BY <1>3 DEF Compose!RemoveImage, Compose!SentIsGone, Compose!TypeOK, Compose!Typed,
        Compose!OneAction, Compose!Drafts
  <2>4. Compose!DraftSentOnce'
    BY <1>3 DEF Compose!RemoveImage, Compose!DraftSentOnce, Compose!SentIsGone, Compose!Typed,
        Compose!Drafts
  <2>5. Compose!DepthCounts'
    BY <1>3 DEF Compose!RemoveImage, Compose!DepthCounts, Compose!TypeOK, Compose!Typed
  <2>6. Compose!NewMessages'
    BY <1>3 DEF Compose!RemoveImage, Compose!NewMessages, Compose!TypeOK, Compose!Typed
  <2>7. Compose!StopDiscards'
    BY <1>3 DEF Compose!RemoveImage, Compose!StopDiscards, Compose!NewMessages
  <2> QED
    BY <2>1, <2>2, <2>3, <2>4, <2>5, <2>6, <2>7
<1>4. CASE Compose!handleDragOver
  <2>1. Compose!TypeOK'
    BY <1>4 DEF Compose!handleDragOver, Compose!TypeOK, Compose!Typed, Compose!DepthCounts,
        Compose!OneAction, Compose!NewMessages
  <2>2. Compose!Typed'
    BY <1>4 DEF Compose!handleDragOver, Compose!Typed, Compose!TypeOK
  <2>3. Compose!SentIsGone'
    BY <1>4 DEF Compose!handleDragOver, Compose!SentIsGone, Compose!TypeOK, Compose!Typed,
        Compose!OneAction, Compose!Drafts
  <2>4. Compose!DraftSentOnce'
    BY <1>4 DEF Compose!handleDragOver, Compose!DraftSentOnce, Compose!SentIsGone, Compose!Typed,
        Compose!Drafts
  <2>5. Compose!DepthCounts'
    BY <1>4 DEF Compose!handleDragOver, Compose!DepthCounts, Compose!TypeOK, Compose!Typed
  <2>6. Compose!NewMessages'
    BY <1>4 DEF Compose!handleDragOver, Compose!NewMessages, Compose!TypeOK, Compose!Typed
  <2>7. Compose!StopDiscards'
    BY <1>4 DEF Compose!handleDragOver, Compose!StopDiscards, Compose!NewMessages
  <2> QED
    BY <2>1, <2>2, <2>3, <2>4, <2>5, <2>6, <2>7
<1>5. CASE Compose!handleDragLeave
  <2>1. Compose!TypeOK'
    BY <1>5 DEF Compose!handleDragLeave, Compose!TypeOK, Compose!Typed, Compose!DepthCounts,
        Compose!OneAction, Compose!NewMessages
  <2>2. Compose!Typed'
    BY <1>5 DEF Compose!handleDragLeave, Compose!Typed, Compose!TypeOK
  <2>3. Compose!SentIsGone'
    BY <1>5 DEF Compose!handleDragLeave, Compose!SentIsGone, Compose!TypeOK, Compose!Typed,
        Compose!OneAction, Compose!Drafts
  <2>4. Compose!DraftSentOnce'
    BY <1>5 DEF Compose!handleDragLeave, Compose!DraftSentOnce, Compose!SentIsGone, Compose!Typed,
        Compose!Drafts
  <2>5. Compose!DepthCounts'
    <3>1. dragDepth' = (IF pointer # 0 THEN 1 ELSE 0) /\ isDragOver
      BY <1>5 DEF Compose!handleDragLeave, Compose!DepthCounts, Compose!Typed
    <3>2. ~composerLeaving' /\ pointer' = pointer /\ (isDragOver' <=> dragDepth' # 0)
      BY <1>5, <3>1 DEF Compose!handleDragLeave
    <3> QED
      BY <3>1, <3>2 DEF Compose!DepthCounts
  <2>6. Compose!NewMessages'
    BY <1>5 DEF Compose!handleDragLeave, Compose!NewMessages, Compose!TypeOK, Compose!Typed
  <2>7. Compose!StopDiscards'
    BY <1>5 DEF Compose!handleDragLeave, Compose!StopDiscards, Compose!NewMessages
  <2> QED
    BY <2>1, <2>2, <2>3, <2>4, <2>5, <2>6, <2>7
<1>6. CASE Compose!handleStop
  <2>1. Compose!TypeOK'
    BY <1>6 DEF Compose!handleStop, Compose!TypeOK, Compose!Typed, Compose!DepthCounts,
        Compose!OneAction, Compose!NewMessages
  <2>2. Compose!Typed'
    BY <1>6 DEF Compose!handleStop, Compose!Typed, Compose!TypeOK
  <2>3. Compose!SentIsGone'
    BY <1>6 DEF Compose!handleStop, Compose!SentIsGone, Compose!TypeOK, Compose!Typed,
        Compose!OneAction, Compose!Drafts
  <2>4. Compose!DraftSentOnce'
    BY <1>6 DEF Compose!handleStop, Compose!DraftSentOnce, Compose!SentIsGone, Compose!Typed,
        Compose!Drafts
  <2>5. Compose!DepthCounts'
    BY <1>6 DEF Compose!handleStop, Compose!DepthCounts, Compose!TypeOK, Compose!Typed
  <2>6. Compose!NewMessages'
    BY <1>6 DEF Compose!handleStop, Compose!NewMessages, Compose!TypeOK, Compose!Typed
  <2>7. Compose!StopDiscards'
    BY <1>6 DEF Compose!handleStop, Compose!StopDiscards, Compose!NewMessages
  <2> QED
    BY <2>1, <2>2, <2>3, <2>4, <2>5, <2>6, <2>7
<1>7. CASE Compose!RunEnds
  <2>1. Compose!TypeOK'
    BY <1>7 DEF Compose!RunEnds, Compose!TypeOK, Compose!Typed, Compose!DepthCounts,
        Compose!OneAction, Compose!NewMessages
  <2>2. Compose!Typed'
    BY <1>7 DEF Compose!RunEnds, Compose!Typed, Compose!TypeOK
  <2>3. Compose!SentIsGone'
    BY <1>7 DEF Compose!RunEnds, Compose!SentIsGone, Compose!TypeOK, Compose!Typed,
        Compose!OneAction, Compose!Drafts
  <2>4. Compose!DraftSentOnce'
    BY <1>7 DEF Compose!RunEnds, Compose!DraftSentOnce, Compose!SentIsGone, Compose!Typed,
        Compose!Drafts
  <2>5. Compose!DepthCounts'
    BY <1>7 DEF Compose!RunEnds, Compose!DepthCounts, Compose!TypeOK, Compose!Typed
  <2>6. Compose!NewMessages'
    BY <1>7 DEF Compose!RunEnds, Compose!NewMessages, Compose!TypeOK, Compose!Typed
  <2>7. Compose!StopDiscards'
    BY <1>7 DEF Compose!RunEnds, Compose!StopDiscards, Compose!NewMessages
  <2> QED
    BY <2>1, <2>2, <2>3, <2>4, <2>5, <2>6, <2>7
<1>8. CASE Compose!Stopped
  <2>1. Compose!TypeOK'
    BY <1>8 DEF Compose!Stopped, Compose!TypeOK, Compose!Typed, Compose!DepthCounts,
        Compose!OneAction, Compose!NewMessages
  <2>2. Compose!Typed'
    BY <1>8 DEF Compose!Stopped, Compose!Typed, Compose!TypeOK
  <2>3. Compose!SentIsGone'
    BY <1>8 DEF Compose!Stopped, Compose!SentIsGone, Compose!TypeOK, Compose!Typed,
        Compose!OneAction, Compose!Drafts
  <2>4. Compose!DraftSentOnce'
    BY <1>8 DEF Compose!Stopped, Compose!DraftSentOnce, Compose!SentIsGone, Compose!Typed,
        Compose!Drafts
  <2>5. Compose!DepthCounts'
    BY <1>8 DEF Compose!Stopped, Compose!DepthCounts, Compose!TypeOK, Compose!Typed
  <2>6. Compose!NewMessages'
    BY <1>8 DEF Compose!Stopped, Compose!NewMessages, Compose!TypeOK, Compose!Typed
  <2>7. Compose!StopDiscards'
    BY <1>8 DEF Compose!Stopped, Compose!StopDiscards, Compose!NewMessages
  <2> QED
    BY <2>1, <2>2, <2>3, <2>4, <2>5, <2>6, <2>7
<1>9. ASSUME NEW s \in sends, NEW ok \in BOOLEAN, Compose!Sent(s, ok)
      PROVE  Compose!Inv'
  <2>1. Compose!TypeOK'
    BY <1>9 DEF Compose!Sent, Compose!TypeOK, Compose!Typed, Compose!DepthCounts, Compose!OneAction,
        Compose!NewMessages
  <2>2. Compose!Typed'
    BY <1>9 DEF Compose!Sent, Compose!Typed, Compose!TypeOK
  <2>3. Compose!SentIsGone'
    BY <1>9 DEF Compose!Sent, Compose!SentIsGone, Compose!TypeOK, Compose!Typed, Compose!OneAction,
        Compose!Drafts
  <2>4. Compose!DraftSentOnce'
    BY <1>9 DEF Compose!Sent, Compose!DraftSentOnce, Compose!SentIsGone, Compose!Typed,
        Compose!Drafts
  <2>5. Compose!DepthCounts'
    BY <1>9 DEF Compose!Sent, Compose!DepthCounts, Compose!TypeOK, Compose!Typed
  <2>6. Compose!NewMessages'
    BY <1>9 DEF Compose!Sent, Compose!NewMessages, Compose!TypeOK, Compose!Typed
  <2>7. Compose!StopDiscards'
    BY <1>9 DEF Compose!Sent, Compose!StopDiscards, Compose!NewMessages
  <2> QED
    BY <2>1, <2>2, <2>3, <2>4, <2>5, <2>6, <2>7
<1>10. ASSUME NEW n \in 0..2, Compose!handleFileChange(n)
       PROVE  Compose!Inv'
  <2>1. Compose!TypeOK'
    BY <1>10 DEF Compose!handleFileChange, Compose!addFiles, Compose!TypeOK, Compose!Typed,
        Compose!DepthCounts, Compose!OneAction, Compose!NewMessages
  <2>2. Compose!Typed'
    BY <1>10 DEF Compose!handleFileChange, Compose!addFiles, Compose!Typed, Compose!TypeOK
  <2>3. Compose!SentIsGone'
    BY <1>10 DEF Compose!handleFileChange, Compose!addFiles, Compose!SentIsGone, Compose!TypeOK,
        Compose!Typed, Compose!OneAction, Compose!Drafts
  <2>4. Compose!DraftSentOnce'
    BY <1>10 DEF Compose!handleFileChange, Compose!addFiles, Compose!DraftSentOnce,
        Compose!SentIsGone, Compose!Typed, Compose!Drafts
  <2>5. Compose!DepthCounts'
    BY <1>10 DEF Compose!handleFileChange, Compose!addFiles, Compose!DepthCounts, Compose!TypeOK,
        Compose!Typed
  <2>6. Compose!NewMessages'
    BY <1>10 DEF Compose!handleFileChange, Compose!addFiles, Compose!NewMessages, Compose!TypeOK,
        Compose!Typed
  <2>7. Compose!StopDiscards'
    BY <1>10 DEF Compose!handleFileChange, Compose!addFiles, Compose!StopDiscards,
        Compose!NewMessages
  <2> QED
    BY <2>1, <2>2, <2>3, <2>4, <2>5, <2>6, <2>7
<1>11. ASSUME NEW n \in 0..2, Compose!handleDrop(n)
       PROVE  Compose!Inv'
  <2>1. Compose!TypeOK'
    BY <1>11 DEF Compose!handleDrop, Compose!addFiles, Compose!TypeOK, Compose!Typed,
        Compose!DepthCounts, Compose!OneAction, Compose!NewMessages
  <2>2. Compose!Typed'
    <3>1. \A b \in reading' : b.images \in 0..2
      BY <1>11 DEF Compose!handleDrop, Compose!addFiles, Compose!Typed
    <3> QED
      BY <1>11, <3>1 DEF Compose!handleDrop, Compose!Typed
  <2>3. Compose!SentIsGone'
    BY <1>11 DEF Compose!handleDrop, Compose!addFiles, Compose!SentIsGone, Compose!TypeOK,
        Compose!Typed, Compose!OneAction, Compose!Drafts
  <2>4. Compose!DraftSentOnce'
    BY <1>11 DEF Compose!handleDrop, Compose!addFiles, Compose!DraftSentOnce, Compose!SentIsGone,
        Compose!Typed, Compose!Drafts
  <2>5. Compose!DepthCounts'
    BY <1>11 DEF Compose!handleDrop, Compose!addFiles, Compose!DepthCounts, Compose!TypeOK,
        Compose!Typed
  <2>6. Compose!NewMessages'
    BY <1>11 DEF Compose!handleDrop, Compose!addFiles, Compose!NewMessages, Compose!TypeOK,
        Compose!Typed
  <2>7. Compose!StopDiscards'
    BY <1>11 DEF Compose!handleDrop, Compose!addFiles, Compose!StopDiscards, Compose!NewMessages
  <2> QED
    BY <2>1, <2>2, <2>3, <2>4, <2>5, <2>6, <2>7
<1>12. ASSUME NEW b \in reading, Compose!FilesRead(b)
       PROVE  Compose!Inv'
  <2>1. Compose!TypeOK'
    <3>1. images' \in 0..MaxImages
      BY <1>12 DEF Compose!FilesRead, Compose!Least, Compose!Typed, Compose!TypeOK
    <3> QED
      BY <1>12, <3>1 DEF Compose!FilesRead, Compose!TypeOK, Compose!OneAction
  <2>2. Compose!Typed'
    BY <1>12 DEF Compose!FilesRead, Compose!Least, Compose!Typed, Compose!TypeOK
  <2>3. Compose!SentIsGone'
    BY <1>12 DEF Compose!FilesRead, Compose!Least, Compose!SentIsGone, Compose!TypeOK, Compose!Typed,
        Compose!OneAction, Compose!Drafts
  <2>4. Compose!DraftSentOnce'
    BY <1>12 DEF Compose!FilesRead, Compose!Least, Compose!DraftSentOnce, Compose!SentIsGone,
        Compose!Typed, Compose!Drafts
  <2>5. Compose!DepthCounts'
    BY <1>12 DEF Compose!FilesRead, Compose!Least, Compose!DepthCounts, Compose!TypeOK, Compose!Typed
  <2>6. Compose!NewMessages'
    BY <1>12 DEF Compose!FilesRead, Compose!Least, Compose!NewMessages, Compose!TypeOK, Compose!Typed
  <2>7. Compose!StopDiscards'
    BY <1>12 DEF Compose!FilesRead, Compose!Least, Compose!StopDiscards, Compose!NewMessages
  <2> QED
    BY <2>1, <2>2, <2>3, <2>4, <2>5, <2>6, <2>7
<1>13. ASSUME NEW to \in 0..2, Compose!handleDragEnter(to)
       PROVE  Compose!Inv'
  <2>1. Compose!TypeOK'
    BY <1>13 DEF Compose!handleDragEnter, Compose!TypeOK, Compose!Typed, Compose!DepthCounts,
        Compose!OneAction, Compose!NewMessages
  <2>2. Compose!Typed'
    BY <1>13 DEF Compose!handleDragEnter, Compose!Typed, Compose!TypeOK
  <2>3. Compose!SentIsGone'
    BY <1>13 DEF Compose!handleDragEnter, Compose!SentIsGone, Compose!TypeOK, Compose!Typed,
        Compose!OneAction, Compose!Drafts
  <2>4. Compose!DraftSentOnce'
    BY <1>13 DEF Compose!handleDragEnter, Compose!DraftSentOnce, Compose!SentIsGone, Compose!Typed,
        Compose!Drafts
  <2>5. Compose!DepthCounts'
    BY <1>13 DEF Compose!handleDragEnter, Compose!DepthCounts, Compose!TypeOK, Compose!Typed
  <2>6. Compose!NewMessages'
    BY <1>13 DEF Compose!handleDragEnter, Compose!NewMessages, Compose!TypeOK, Compose!Typed
  <2>7. Compose!StopDiscards'
    BY <1>13 DEF Compose!handleDragEnter, Compose!StopDiscards, Compose!NewMessages
  <2> QED
    BY <2>1, <2>2, <2>3, <2>4, <2>5, <2>6, <2>7
<1>14. ASSUME NEW q \in queue, Compose!ToggleMenu(q)
       PROVE  Compose!Inv'
  <2>1. Compose!TypeOK'
    BY <1>14 DEF Compose!ToggleMenu, Compose!TypeOK, Compose!Typed, Compose!DepthCounts,
        Compose!OneAction, Compose!NewMessages
  <2>2. Compose!Typed'
    BY <1>14 DEF Compose!ToggleMenu, Compose!Typed, Compose!TypeOK
  <2>3. Compose!SentIsGone'
    BY <1>14 DEF Compose!ToggleMenu, Compose!SentIsGone, Compose!TypeOK, Compose!Typed,
        Compose!OneAction, Compose!Drafts
  <2>4. Compose!DraftSentOnce'
    BY <1>14 DEF Compose!ToggleMenu, Compose!DraftSentOnce, Compose!SentIsGone, Compose!Typed,
        Compose!Drafts
  <2>5. Compose!DepthCounts'
    BY <1>14 DEF Compose!ToggleMenu, Compose!DepthCounts, Compose!TypeOK, Compose!Typed
  <2>6. Compose!NewMessages'
    BY <1>14 DEF Compose!ToggleMenu, Compose!NewMessages, Compose!TypeOK, Compose!Typed
  <2>7. Compose!StopDiscards'
    BY <1>14 DEF Compose!ToggleMenu, Compose!StopDiscards, Compose!NewMessages
  <2> QED
    BY <2>1, <2>2, <2>3, <2>4, <2>5, <2>6, <2>7
<1>15. ASSUME NEW q \in queue, Compose!handleQueuedReplace(q)
       PROVE  Compose!Inv'
  <2>1. Compose!TypeOK'
    BY <1>15 DEF Compose!handleQueuedReplace, Compose!Act, Compose!queuedActionPending,
        Compose!TypeOK, Compose!Typed, Compose!DepthCounts, Compose!OneAction, Compose!NewMessages
  <2>2. Compose!Typed'
    BY <1>15 DEF Compose!handleQueuedReplace, Compose!Act, Compose!queuedActionPending,
        Compose!Typed, Compose!TypeOK
  <2>3. Compose!SentIsGone'
    BY <1>15 DEF Compose!handleQueuedReplace, Compose!Act, Compose!queuedActionPending,
        Compose!SentIsGone, Compose!TypeOK, Compose!Typed, Compose!OneAction, Compose!Drafts
  <2>4. Compose!DraftSentOnce'
    BY <1>15 DEF Compose!handleQueuedReplace, Compose!Act, Compose!queuedActionPending,
        Compose!DraftSentOnce, Compose!SentIsGone, Compose!Typed, Compose!Drafts
  <2>5. Compose!DepthCounts'
    BY <1>15 DEF Compose!handleQueuedReplace, Compose!Act, Compose!queuedActionPending,
        Compose!DepthCounts, Compose!TypeOK, Compose!Typed
  <2>6. Compose!NewMessages'
    BY <1>15 DEF Compose!handleQueuedReplace, Compose!Act, Compose!queuedActionPending,
        Compose!NewMessages, Compose!TypeOK, Compose!Typed
  <2>7. Compose!StopDiscards'
    BY <1>15 DEF Compose!handleQueuedReplace, Compose!Act, Compose!queuedActionPending,
        Compose!StopDiscards, Compose!NewMessages
  <2> QED
    BY <2>1, <2>2, <2>3, <2>4, <2>5, <2>6, <2>7
<1>16. ASSUME NEW q \in queue, NEW kind \in {"direct", "discard", "clear"}, Compose!handleQueuedAction(kind, q)
       PROVE  Compose!Inv'
  <2>1. Compose!TypeOK'
    BY <1>16 DEF Compose!handleQueuedAction, Compose!Act, Compose!queuedActionPending,
        Compose!TypeOK, Compose!Typed, Compose!DepthCounts, Compose!OneAction, Compose!NewMessages
  <2>2. Compose!Typed'
    BY <1>16 DEF Compose!handleQueuedAction, Compose!Act, Compose!queuedActionPending, Compose!Typed,
        Compose!TypeOK
  <2>3. Compose!SentIsGone'
    BY <1>16 DEF Compose!handleQueuedAction, Compose!Act, Compose!queuedActionPending,
        Compose!SentIsGone, Compose!TypeOK, Compose!Typed, Compose!OneAction, Compose!Drafts
  <2>4. Compose!DraftSentOnce'
    BY <1>16 DEF Compose!handleQueuedAction, Compose!Act, Compose!queuedActionPending,
        Compose!DraftSentOnce, Compose!SentIsGone, Compose!Typed, Compose!Drafts
  <2>5. Compose!DepthCounts'
    BY <1>16 DEF Compose!handleQueuedAction, Compose!Act, Compose!queuedActionPending,
        Compose!DepthCounts, Compose!TypeOK, Compose!Typed
  <2>6. Compose!NewMessages'
    BY <1>16 DEF Compose!handleQueuedAction, Compose!Act, Compose!queuedActionPending,
        Compose!NewMessages, Compose!TypeOK, Compose!Typed
  <2>7. Compose!StopDiscards'
    BY <1>16 DEF Compose!handleQueuedAction, Compose!Act, Compose!queuedActionPending,
        Compose!StopDiscards, Compose!NewMessages
  <2> QED
    BY <2>1, <2>2, <2>3, <2>4, <2>5, <2>6, <2>7
<1>17. ASSUME NEW a \in actions, Compose!ActionDone(a)
       PROVE  Compose!Inv'
  <2>1. Compose!TypeOK'
    <3>1. value' \in 0..MaxDrafts /\ images' \in 0..MaxImages
      BY <1>17 DEF Compose!ActionDone, Compose!TypeOK
    <3>2. queue' \subseteq queue
      BY <1>17 DEF Compose!ActionDone, Compose!Without
    <3> QED
      BY <1>17, <3>1, <3>2 DEF Compose!ActionDone, Compose!TypeOK, Compose!OneAction
  <2>2. Compose!Typed'
    <3>1. a.draft \in 0..composerTyped /\ value' \in 0..composerTyped
      BY <1>17 DEF Compose!ActionDone, Compose!Typed
    <3>2. sent' = sent \/ sent' = [sent EXCEPT ![a.draft] = @ + 1]
      BY <1>17 DEF Compose!ActionDone, Compose!OnSubmit
    <3>3. sent' \in [0..MaxDrafts -> Nat] /\ \A d \in (composerTyped + 1)..MaxDrafts : sent'[d] = 0
      <4>1. /\ sent \in [0..MaxDrafts -> Nat] /\ composerTyped \in 0..MaxDrafts
            /\ \A d \in (composerTyped + 1)..MaxDrafts : sent[d] = 0
        BY DEF Compose!Typed
      <4>2. CASE sent' = sent
        BY <4>1, <4>2
      <4>3. CASE sent' = [sent EXCEPT ![a.draft] = @ + 1]
        <5>1. a.draft \in 0..MaxDrafts /\ a.draft <= composerTyped
          BY <3>1, <4>1
        <5>2. sent[a.draft] + 1 \in Nat
          BY <4>1, <5>1
        <5>3. sent' \in [0..MaxDrafts -> Nat] /\ \A d \in 0..MaxDrafts : d # a.draft => sent'[d] = sent[d]
          BY <4>1, <4>3, <5>2
        <5> QED
          BY <4>1, <5>1, <5>3
      <4> QED
        BY <3>2, <4>2, <4>3
    <3> QED
      BY <1>17, <3>1, <3>3 DEF Compose!ActionDone, Compose!Typed
  <2>3. Compose!SentIsGone'
    BY <1>17 DEF Compose!ActionDone, Compose!OnSubmit, Compose!Without, Compose!SentIsGone,
        Compose!TypeOK, Compose!Typed, Compose!OneAction, Compose!Drafts
  <2>4. Compose!DraftSentOnce'
    <3> SUFFICES ASSUME NEW d \in Compose!Drafts, sent'[d] > 1 PROVE d \in raced'
      BY DEF Compose!DraftSentOnce
    <3>1. raced' = raced /\ a.draft \in 0..MaxDrafts /\ sent \in [0..MaxDrafts -> Nat]
      BY <1>17 DEF Compose!ActionDone, Compose!Typed
    <3>2. CASE sent'[d] = sent[d]
      BY <3>1, <3>2 DEF Compose!DraftSentOnce
    <3>3. CASE sent'[d] # sent[d]
      <4>1. a.kind = "replace" /\ sent' = [sent EXCEPT ![a.draft] = @ + 1]
        BY <1>17, <3>3 DEF Compose!ActionDone, Compose!OnSubmit
      <4>2. a.draft = d /\ sent[d] > 0
        BY <3>1, <3>3, <4>1 DEF Compose!Drafts
      <4> QED
        BY <1>17, <3>1, <4>1, <4>2 DEF Compose!SentIsGone
    <3> QED
      BY <3>2, <3>3
  <2>5. Compose!DepthCounts'
    BY <1>17 DEF Compose!ActionDone, Compose!OnSubmit, Compose!Without, Compose!DepthCounts,
        Compose!TypeOK, Compose!Typed
  <2>6. Compose!NewMessages'
    <3>1. a.draft \in 0..MaxDrafts /\ queue' \subseteq queue /\ UNCHANGED <<before, stopping, kept>>
      BY <1>17 DEF Compose!ActionDone, Compose!Without, Compose!Typed
    <3>2. CASE a.kind = "replace"
      BY <1>17, <3>1, <3>2, NewMessageIsNew DEF Compose!ActionDone
    <3>3. CASE a.kind # "replace"
      BY <1>17, <3>1, <3>3 DEF Compose!ActionDone, Compose!NewMessages
    <3> QED
      BY <3>2, <3>3
  <2>7. Compose!StopDiscards'
    BY <1>17 DEF Compose!ActionDone, Compose!OnSubmit, Compose!Without, Compose!StopDiscards,
        Compose!NewMessages
  <2> QED
    BY <2>1, <2>2, <2>3, <2>4, <2>5, <2>6, <2>7
<1>18. ASSUME NEW a \in actions, Compose!ActionFails(a)
       PROVE  Compose!Inv'
  <2>1. Compose!TypeOK'
    BY <1>18 DEF Compose!ActionFails, Compose!TypeOK, Compose!Typed, Compose!DepthCounts,
        Compose!OneAction, Compose!NewMessages
  <2>2. Compose!Typed'
    BY <1>18 DEF Compose!ActionFails, Compose!Typed, Compose!TypeOK
  <2>3. Compose!SentIsGone'
    BY <1>18 DEF Compose!ActionFails, Compose!SentIsGone, Compose!TypeOK, Compose!Typed,
        Compose!OneAction, Compose!Drafts
  <2>4. Compose!DraftSentOnce'
    BY <1>18 DEF Compose!ActionFails, Compose!DraftSentOnce, Compose!SentIsGone, Compose!Typed,
        Compose!Drafts
  <2>5. Compose!DepthCounts'
    BY <1>18 DEF Compose!ActionFails, Compose!DepthCounts, Compose!TypeOK, Compose!Typed
  <2>6. Compose!NewMessages'
    BY <1>18 DEF Compose!ActionFails, Compose!NewMessages, Compose!TypeOK, Compose!Typed
  <2>7. Compose!StopDiscards'
    BY <1>18 DEF Compose!ActionFails, Compose!StopDiscards, Compose!NewMessages
  <2> QED
    BY <2>1, <2>2, <2>3, <2>4, <2>5, <2>6, <2>7
<1>19. ASSUME NEW ok \in BOOLEAN, Compose!Cleared(ok)
       PROVE  Compose!Inv'
  <2>1. Compose!TypeOK'
    BY <1>19 DEF Compose!Cleared, Compose!TypeOK, Compose!Typed, Compose!DepthCounts,
        Compose!OneAction, Compose!NewMessages
  <2>2. Compose!Typed'
    BY <1>19 DEF Compose!Cleared, Compose!Typed, Compose!TypeOK
  <2>3. Compose!SentIsGone'
    BY <1>19 DEF Compose!Cleared, Compose!SentIsGone, Compose!TypeOK, Compose!Typed,
        Compose!OneAction, Compose!Drafts
  <2>4. Compose!DraftSentOnce'
    BY <1>19 DEF Compose!Cleared, Compose!DraftSentOnce, Compose!SentIsGone, Compose!Typed,
        Compose!Drafts
  <2>5. Compose!DepthCounts'
    BY <1>19 DEF Compose!Cleared, Compose!DepthCounts, Compose!TypeOK, Compose!Typed
  <2>6. Compose!NewMessages'
    BY <1>19 DEF Compose!Cleared, Compose!NewMessages, Compose!TypeOK, Compose!Typed
  <2>7. Compose!StopDiscards'
    BY <1>19 DEF Compose!Cleared, Compose!StopDiscards, Compose!NewMessages
  <2> QED
    BY <2>1, <2>2, <2>3, <2>4, <2>5, <2>6, <2>7
<1>20. CASE UNCHANGED composerVars
  <2>1. Compose!TypeOK'
    BY <1>20 DEF composerVars, Compose!TypeOK, Compose!Typed, Compose!DepthCounts, Compose!OneAction,
        Compose!NewMessages
  <2>2. Compose!Typed'
    BY <1>20 DEF composerVars, Compose!Typed, Compose!TypeOK
  <2>3. Compose!SentIsGone'
    BY <1>20 DEF composerVars, Compose!SentIsGone, Compose!TypeOK, Compose!Typed, Compose!OneAction,
        Compose!Drafts
  <2>4. Compose!DraftSentOnce'
    BY <1>20 DEF composerVars, Compose!DraftSentOnce, Compose!SentIsGone, Compose!Typed,
        Compose!Drafts
  <2>5. Compose!DepthCounts'
    BY <1>20 DEF composerVars, Compose!DepthCounts, Compose!TypeOK, Compose!Typed
  <2>6. Compose!NewMessages'
    BY <1>20 DEF composerVars, Compose!NewMessages, Compose!TypeOK, Compose!Typed
  <2>7. Compose!StopDiscards'
    BY <1>20 DEF composerVars, Compose!StopDiscards, Compose!NewMessages
  <2> QED
    BY <2>1, <2>2, <2>3, <2>4, <2>5, <2>6, <2>7
<1> QED
  BY <1>1, <1>2, <1>3, <1>4, <1>5, <1>6, <1>7, <1>8, <1>9, <1>10, <1>11, <1>12, <1>13, <1>14, <1>15,
      <1>16, <1>17, <1>18, <1>19, <1>20 DEF Compose!Next

(* For all numbers of drafts and images: a draft is sent once, and the      *)
(* overlay is there while files are dragged over the bar.                   *)
THEOREM DraftsSentOnce == Spec => []DraftSentOnce
<1> DEFINE I == focus = "composer" => Compose!Inv
<1>1. Init => I
  BY ComposeInit DEF Init
<1>2. I /\ [Next]_vars => I'
  BY OnePart, ComposeStep
<1>3. I => DraftSentOnce
  BY DEF DraftSentOnce, Compose!Inv, Compose!DepthCounts, Compose!OverlayFollowsPointer,
      Compose!TypeOK, Compose!Typed
<1> QED
  BY <1>1, <1>2, <1>3, PTL DEF Spec

(* For all queues: stopping a run starts none of the follow-ups that were   *)
(* queued.                                                                  *)
THEOREM StopAlwaysDiscards == Spec => []StopDiscards
<1> DEFINE I == focus = "composer" => Compose!Inv
<1>1. Init => I
  BY ComposeInit DEF Init
<1>2. I /\ [Next]_vars => I'
  BY OnePart, ComposeStep
<1>3. I => StopDiscards
  BY DEF StopDiscards, Compose!Inv
<1> QED
  BY <1>1, <1>2, <1>3, PTL DEF Spec

----------------------------------------------------------------------------
(* The git panel of a thread                                                *)

(* A set of natural numbers with an upper bound has a largest one.          *)
LEMMA LargestThereIs ==
    ASSUME NEW k \in Nat, NEW S \in SUBSET (0..k), S # {}
    PROVE  \E x \in S : \A y \in S : x >= y
<1> DEFINE T == {k - n : n \in S}
           R == OpToRel(<, Nat)
<1>1. IsWellFoundedOn(R, Nat)
  BY NatLessThanWellFounded
<1>2. \A u, t \in Nat : u < t => <<u, t>> \in R
  BY DEF OpToRel
<1> HIDE DEF R
<1>3. T \subseteq Nat /\ T # {}
  <2>1. \A n \in S : k - n \in Nat
    OBVIOUS
  <2> QED
    BY <2>1
<1>4. PICK t \in T : \A u \in T : ~(<<u, t>> \in R)
  BY <1>1, <1>3, WFMin
<1>5. \A u \in T : t <= u
  <2> SUFFICES ASSUME NEW u \in T PROVE t <= u
    OBVIOUS
  <2>1. t \in Nat /\ u \in Nat
    BY <1>3
  <2> HIDE DEF T
  <2>2. ~(u < t)
    BY <1>2, <1>4, <2>1
  <2> QED
    BY <2>1, <2>2
<1>6. PICK x \in S : t = k - x
  OBVIOUS
<1>7. ASSUME NEW y \in S PROVE x >= y
  <2>1. t <= k - y
    BY <1>5
  <2> QED
    BY <1>6, <2>1
<1> QED
  BY <1>7

(* The directories that are dropped: every path has them, and more.         *)
LEMMA DroppedDirectories ==
    ASSUME NEW S, S # {}, \A p \in S : IsPath(p)
    PROVE  /\ Len(Git!commonDirPrefix(S)) \in Nat
           /\ \A p \in S : Len(p) \in Nat /\ Len(p) > Len(Git!commonDirPrefix(S))
           /\ \A p, q \in S : \A i \in 1..Len(Git!commonDirPrefix(S)) : p[i] = q[i]
<1> DEFINE first == CHOOSE p \in S : TRUE
           shared == Git!Shared(first, S)
           n == Git!Max(shared)
<1>1. Git!commonDirPrefix(S) = SubSeq(first, 1, n) /\ first \in S
  BY DEF Git!commonDirPrefix
<1>2. first \in Seq({first[i] : i \in DOMAIN first}) /\ first # <<>>
  BY <1>1 DEF IsPath
<1> HIDE DEF first
<1>3. Len(first) \in Nat /\ Len(first) > 0 /\ DOMAIN first = 1..Len(first)
  BY <1>2
<1>4. \A p \in S : Len(p) \in Nat /\ Len(p) > 0 /\ DOMAIN p = 1..Len(p)
  <2> TAKE p \in S
  <2>1. p \in Seq({p[i] : i \in DOMAIN p}) /\ p # <<>>
    BY DEF IsPath
  <2> QED
    BY <2>1
<1>5. shared \subseteq 0..(Len(first) - 1)
  BY DEF Git!Shared
<1>6. 0 \in shared
  <2>1. \A p \in S : SubSeq(p, 1, 0) = <<>>
    BY SubSeqEmpty
  <2>2. SubSeq(first, 1, 0) = <<>>
    BY <1>1, <2>1
  <2> QED
    BY <1>3, <1>4, <2>1, <2>2 DEF Git!Shared
<1>7. n \in shared
  <2>1. Len(first) - 1 \in Nat
    BY <1>3
  <2>2. \E x \in shared : \A y \in shared : x >= y
    <3> HIDE DEF shared
    <3> QED
      BY <1>5, <1>6, <2>1, LargestThereIs
  <2> HIDE DEF shared
  <2> QED
    BY <2>2 DEF Git!Max
<1> HIDE DEF n
<1>8. n \in 0..(Len(first) - 1) /\ \A p \in S : Len(p) > n /\ SubSeq(p, 1, n) = SubSeq(first, 1, n)
  BY <1>7 DEF Git!Shared
<1>9. n \in Nat
  BY <1>3, <1>8
<1>10. ASSUME NEW p \in S
       PROVE  /\ Len(SubSeq(p, 1, n)) = n
              /\ \A i \in 1..n : SubSeq(p, 1, n)[i] = p[i]
  <2>1. \A i \in 1..n : p[i] \in {p[j] : j \in DOMAIN p}
    BY <1>4, <1>8, <1>9
  <2>2. /\ Len(SubSeq(p, 1, n)) = IF 1 <= n THEN n - 1 + 1 ELSE 0
        /\ \A i \in 1..(n - 1 + 1) : SubSeq(p, 1, n)[i] = p[1 + i - 1]
    BY <1>9, <2>1, SubSeqProperties
  <2> QED
    BY <1>9, <2>2
<1>11. Len(Git!commonDirPrefix(S)) = n
  BY <1>1, <1>10
<1>12. ASSUME NEW p \in S, NEW q \in S, NEW i \in 1..n
       PROVE  p[i] = q[i]
  <2>1. SubSeq(p, 1, n) = SubSeq(q, 1, n)
    BY <1>8
  <2> QED
    BY <1>10, <2>1
<1> QED
  BY <1>4, <1>8, <1>9, <1>11, <1>12

(* What is left of the paths names each file.                               *)
Rest(S, p) == SubSeq(p, Len(Git!commonDirPrefix(S)) + 1, Len(p))
LEMMA NamesEachFile ==
    ASSUME NEW S, \A p \in S : IsPath(p), NEW p \in S, NEW q \in S
    PROVE  Rest(S, p) # <<>> /\ (Rest(S, p) = Rest(S, q) => p = q)
<1> DEFINE k == Len(Git!commonDirPrefix(S))
<1>1. /\ k \in Nat /\ \A r \in S : Len(r) \in Nat /\ Len(r) > k
      /\ \A i \in 1..k : p[i] = q[i]
  BY DroppedDirectories
<1> HIDE DEF k
<1>2. ASSUME NEW r \in S
      PROVE  /\ Len(SubSeq(r, k + 1, Len(r))) = Len(r) - k
             /\ \A i \in 1..(Len(r) - k) : SubSeq(r, k + 1, Len(r))[i] = r[k + i]
  <2>1. r \in Seq({r[i] : i \in DOMAIN r}) /\ DOMAIN r = 1..Len(r) /\ Len(r) \in Nat /\ Len(r) > k
    BY <1>1 DEF IsPath
  <2>2. \A i \in (k + 1)..Len(r) : r[i] \in {r[j] : j \in DOMAIN r}
    BY <1>1, <2>1
  <2>3. /\ Len(SubSeq(r, k + 1, Len(r))) = IF k + 1 <= Len(r) THEN Len(r) - (k + 1) + 1 ELSE 0
        /\ \A i \in 1..(Len(r) - (k + 1) + 1) : SubSeq(r, k + 1, Len(r))[i] = r[(k + 1) + i - 1]
    BY <1>1, <2>1, <2>2, SubSeqProperties
  <2>4. Len(r) - (k + 1) + 1 = Len(r) - k /\ k + 1 <= Len(r)
    BY <1>1, <2>1
  <2>5. \A i \in 1..(Len(r) - k) : (k + 1) + i - 1 = k + i
    BY <1>1, <2>1
  <2> QED
    BY <2>3, <2>4, <2>5
<1>3. SubSeq(p, k + 1, Len(p)) # <<>>
  <2>1. Len(SubSeq(p, k + 1, Len(p))) # 0
    BY <1>1, <1>2
  <2>2. Len(<<>>) = 0
    OBVIOUS
  <2> QED
    BY <2>1, <2>2, Zenon
<1>4. ASSUME SubSeq(p, k + 1, Len(p)) = SubSeq(q, k + 1, Len(q))
      PROVE  p = q
  <2>1. Len(p) = Len(q)
    BY <1>1, <1>2, <1>4
  <2>2. ASSUME NEW i \in 1..Len(p) PROVE p[i] = q[i]
    <3>1. CASE i <= k
      BY <1>1, <3>1
    <3>2. CASE i > k
      <4>1. i - k \in 1..(Len(p) - k) /\ k + (i - k) = i
        BY <1>1, <3>2
      <4> QED
        BY <1>2, <1>4, <2>1, <4>1
    <3> QED
      BY <1>1, <3>1, <3>2
  <2>3. p = [i \in 1..Len(p) |-> p[i]] /\ q = [i \in 1..Len(q) |-> q[i]]
    <3>1. p \in Seq({p[i] : i \in DOMAIN p}) /\ q \in Seq({q[i] : i \in DOMAIN q})
      BY DEF IsPath
    <3> QED
      BY <3>1
  <2> QED
    BY <2>1, <2>2, <2>3
<1> QED
  BY <1>3, <1>4 DEF Rest, k

(* In the tree, whichever files it shows.                                   *)
LEMMA TreeNamesEachFile ==
    ASSUME Git!TypeOK
    PROVE  Git!TreePathsDistinct
<1> SUFFICES ASSUME NEW t \in PullThreads, NEW f \in Git!Files(t), NEW g \in Git!Files(t)
             PROVE  f.treePath # <<>> /\ (f.treePath = g.treePath => f = g)
  BY DEF Git!TreePathsDistinct
<1>1. CASE t \in prDiff
  <2>1. f \in {[filePath |-> p, treePath |-> p] : p \in PrFiles} /\ g \in {[filePath |-> p, treePath |-> p] : p \in PrFiles}
    BY <1>1 DEF Git!Files, Git!FilesOf
  <2>2. PICK p \in PrFiles : f = [filePath |-> p, treePath |-> p]
    BY <2>1
  <2>3. PICK q \in PrFiles : g = [filePath |-> q, treePath |-> q]
    BY <2>1
  <2>4. p # <<>>
    BY PathAssumption DEF IsPath
  <2> QED
    BY <2>2, <2>3, <2>4
<1>2. CASE t \notin prDiff
  <2> DEFINE S == edits[t]
             file(r) == [filePath |-> r, treePath |-> Rest(S, r)]
  <2>1. f \in {file(r) : r \in S} /\ g \in {file(r) : r \in S}
    BY <1>2 DEF Git!Files, Git!FilesOf, Rest
  <2>2. S \in Edits \cup {{}}
    BY DEF Git!TypeOK
  <2>3. \A r \in S : IsPath(r)
    BY <2>2, PathAssumption, Zenon
  <2> HIDE DEF S
  <2>4. PICK p \in S : f = file(p)
    BY <2>1
  <2>5. PICK q \in S : g = file(q)
    BY <2>1
  <2>6. Rest(S, p) # <<>> /\ (Rest(S, p) = Rest(S, q) => p = q)
    BY <2>3, NamesEachFile
  <2> QED
    BY <2>4, <2>5, <2>6
<1> QED
  BY <1>1, <1>2

(* The invariant of the git panel holds at first.                           *)
LEMMA GitInit == Git!Init => Git!Inv
<1> SUFFICES ASSUME Git!Init PROVE Git!Inv
  OBVIOUS
<1>1. Git!TypeOK
  <2>1. thread \in PullThreads /\ pr \subseteq PullThreads /\ prDiff \subseteq pr /\ closed \subseteq Git!Sections
    BY DEF Git!Init
  <2>2. edits \in [PullThreads -> Edits \cup {{}}]
    BY DEF Git!Init
  <2>3. prSeen \in [threadId : PullThreads, hadPr : BOOLEAN]
    <3> DEFINE had == thread \in pr
    <3>1. had \in BOOLEAN /\ thread \in PullThreads /\ prSeen = [threadId |-> thread, hadPr |-> had]
      BY DEF Git!Init
    <3> HIDE DEF had
    <3> QED
      BY <3>1
  <2>4. collapsed \in BOOLEAN /\ fullScreen \in BOOLEAN /\ tabs \subseteq {"git", "diff"}
    BY DEF Git!Init
  <2> QED
    BY <2>1, <2>2, <2>3, <2>4 DEF Git!TypeOK
<1>2. Git!Seen
  BY DEF Git!Init, Git!Seen
<1>3. Git!OpensForNews
  BY DEF Git!Init, Git!OpensForNews, Git!Seen, Git!TypeOK
<1> QED
  BY <1>1, <1>2, <1>3 DEF Git!Inv

(* Every action of the git panel keeps its invariant.                       *)
LEMMA GitStep ==
    ASSUME Git!Inv, [Git!Next]_gitVars
    PROVE  Git!Inv'
<1> USE DEF Git!Inv
<1>1. ASSUME NEW t \in PullThreads, Git!SwitchThread(t)
      PROVE  Git!Inv'
  <2>1. Git!TypeOK'
    <3>1. (thread \in PullThreads /\ pr \subseteq PullThreads /\ prDiff \subseteq pr)'
      BY <1>1 DEF Git!SwitchThread, Git!Render, Git!TypeOK
    <3>2. (edits \in [PullThreads -> Edits \cup {{}}])'
      BY <1>1 DEF Git!SwitchThread, Git!Render, Git!TypeOK
    <3>3. (prSeen \in [threadId : PullThreads, hadPr : BOOLEAN] /\ collapsed \in BOOLEAN /\ fullScreen \in BOOLEAN /\ tabs \subseteq {"git", "diff"})'
      <4> DEFINE had == thread' \in pr'
                 yes == TRUE
      <4>1. \/ prSeen' = [threadId |-> thread', hadPr |-> had] \/ prSeen' = [threadId |-> thread', hadPr |-> yes]
            \/ prSeen' = prSeen
        BY <1>1 DEF Git!SwitchThread, Git!Render
      <4>2. had \in BOOLEAN /\ yes \in BOOLEAN /\ thread' \in PullThreads
        BY <1>1 DEF Git!SwitchThread, Git!TypeOK
      <4> HIDE DEF had, yes
      <4>3. prSeen' \in [threadId : PullThreads, hadPr : BOOLEAN]
        BY <4>1, <4>2 DEF Git!TypeOK
      <4>4. collapsed' \in BOOLEAN /\ UNCHANGED <<fullScreen, tabs>>
        BY <1>1 DEF Git!SwitchThread, Git!Render, Git!TypeOK
      <4> QED
        BY <4>3, <4>4 DEF Git!TypeOK
    <3>4. (closed \subseteq Git!Sections)'
      <4>1. Git!Remount
        BY <1>1 DEF Git!SwitchThread
      <4> QED
        BY <4>1 DEF Git!Remount, Git!Sections, Git!Files
    <3> QED
      BY <3>1, <3>2, <3>3, <3>4 DEF Git!TypeOK
  <2>2. Git!Seen'
    BY <1>1 DEF Git!SwitchThread, Git!Render, Git!Seen
  <2>3. Git!OpensForNews'
    BY <1>1 DEF Git!SwitchThread, Git!Render, Git!OpensForNews, Git!Seen, Git!TypeOK
  <2> QED
    BY <2>1, <2>2, <2>3
<1>2. ASSUME NEW t \in PullThreads, Git!PrLands(t)
      PROVE  Git!Inv'
  <2>1. Git!TypeOK'
    <3>1. (thread \in PullThreads /\ pr \subseteq PullThreads /\ prDiff \subseteq pr)'
      BY <1>2 DEF Git!PrLands, Git!Render, Git!TypeOK
    <3>2. (edits \in [PullThreads -> Edits \cup {{}}])'
      BY <1>2 DEF Git!PrLands, Git!Render, Git!TypeOK
    <3>3. (prSeen \in [threadId : PullThreads, hadPr : BOOLEAN] /\ collapsed \in BOOLEAN /\ fullScreen \in BOOLEAN /\ tabs \subseteq {"git", "diff"})'
      <4> DEFINE had == thread' \in pr'
                 yes == TRUE
      <4>1. \/ prSeen' = [threadId |-> thread', hadPr |-> had] \/ prSeen' = [threadId |-> thread', hadPr |-> yes]
            \/ prSeen' = prSeen
        BY <1>2 DEF Git!PrLands, Git!Render
      <4>2. had \in BOOLEAN /\ yes \in BOOLEAN /\ thread' \in PullThreads
        BY <1>2 DEF Git!PrLands, Git!TypeOK
      <4> HIDE DEF had, yes
      <4>3. prSeen' \in [threadId : PullThreads, hadPr : BOOLEAN]
        BY <4>1, <4>2 DEF Git!TypeOK
      <4>4. collapsed' \in BOOLEAN /\ UNCHANGED <<fullScreen, tabs>>
        BY <1>2 DEF Git!PrLands, Git!Render, Git!TypeOK
      <4> QED
        BY <4>3, <4>4 DEF Git!TypeOK
    <3>4. (closed \subseteq Git!Sections)'
      <4>1. Git!Remount
        BY <1>2 DEF Git!PrLands
      <4> QED
        BY <4>1 DEF Git!Remount, Git!Sections, Git!Files
    <3> QED
      BY <3>1, <3>2, <3>3, <3>4 DEF Git!TypeOK
  <2>2. Git!Seen'
    <3>1. prSeen.threadId = thread /\ prSeen.hadPr = (thread \in pr) /\ UNCHANGED thread /\ pr' = pr \cup {t}
      BY <1>2 DEF Git!PrLands, Git!Seen
    <3>2. CASE thread \in pr' /\ thread \notin pr
      BY <1>2, <3>1, <3>2 DEF Git!PrLands, Git!Render, Git!Seen
    <3>3. CASE ~(thread \in pr' /\ thread \notin pr)
      <4>1. UNCHANGED prSeen
        BY <1>2, <3>1, <3>3 DEF Git!PrLands, Git!Render
      <4>2. (thread \in pr') = (thread \in pr)
        BY <3>1, <3>3
      <4> QED
        BY <3>1, <4>1, <4>2 DEF Git!Seen
    <3> QED
      BY <3>2, <3>3
  <2>3. Git!OpensForNews'
    BY <1>2 DEF Git!PrLands, Git!Render, Git!OpensForNews, Git!Seen, Git!TypeOK
  <2> QED
    BY <2>1, <2>2, <2>3
<1>3. ASSUME NEW S \in Edits, Git!Edited(S)
      PROVE  Git!Inv'
  <2>1. Git!TypeOK'
    <3>1. (thread \in PullThreads /\ pr \subseteq PullThreads /\ prDiff \subseteq pr)'
      BY <1>3 DEF Git!Edited, Git!TypeOK
    <3>2. (edits \in [PullThreads -> Edits \cup {{}}])'
      BY <1>3 DEF Git!Edited, Git!TypeOK
    <3>3. (prSeen \in [threadId : PullThreads, hadPr : BOOLEAN] /\ collapsed \in BOOLEAN /\ fullScreen \in BOOLEAN /\ tabs \subseteq {"git", "diff"})'
      BY <1>3 DEF Git!Edited, Git!TypeOK
    <3>4. (closed \subseteq Git!Sections)'
      <4>1. Git!Remount
        BY <1>3 DEF Git!Edited
      <4> QED
        BY <4>1 DEF Git!Remount, Git!Sections, Git!Files
    <3> QED
      BY <3>1, <3>2, <3>3, <3>4 DEF Git!TypeOK
  <2>2. Git!Seen'
    BY <1>3 DEF Git!Edited, Git!Seen
  <2>3. Git!OpensForNews'
    BY <1>3 DEF Git!Edited, Git!OpensForNews, Git!Seen, Git!TypeOK
  <2> QED
    BY <2>1, <2>2, <2>3
<1>4. CASE Git!PrDiffLoads
  <2>1. Git!TypeOK'
    <3>1. (thread \in PullThreads /\ pr \subseteq PullThreads /\ prDiff \subseteq pr)'
      BY <1>4 DEF Git!PrDiffLoads, Git!TypeOK
    <3>2. (edits \in [PullThreads -> Edits \cup {{}}])'
      BY <1>4 DEF Git!PrDiffLoads, Git!TypeOK
    <3>3. (prSeen \in [threadId : PullThreads, hadPr : BOOLEAN] /\ collapsed \in BOOLEAN /\ fullScreen \in BOOLEAN /\ tabs \subseteq {"git", "diff"})'
      BY <1>4 DEF Git!PrDiffLoads, Git!TypeOK
    <3>4. (closed \subseteq Git!Sections)'
      <4>1. Git!Remount
        BY <1>4 DEF Git!PrDiffLoads
      <4> QED
        BY <4>1 DEF Git!Remount, Git!Sections, Git!Files
    <3> QED
      BY <3>1, <3>2, <3>3, <3>4 DEF Git!TypeOK
  <2>2. Git!Seen'
    BY <1>4 DEF Git!PrDiffLoads, Git!Seen
  <2>3. Git!OpensForNews'
    BY <1>4 DEF Git!PrDiffLoads, Git!OpensForNews, Git!Seen, Git!TypeOK
  <2> QED
    BY <2>1, <2>2, <2>3
<1>5. CASE Git!Expand
  <2>1. Git!TypeOK'
    <3>1. (thread \in PullThreads /\ pr \subseteq PullThreads /\ prDiff \subseteq pr)'
      BY <1>5 DEF Git!Expand, Git!TypeOK
    <3>2. (edits \in [PullThreads -> Edits \cup {{}}])'
      BY <1>5 DEF Git!Expand, Git!TypeOK
    <3>3. (prSeen \in [threadId : PullThreads, hadPr : BOOLEAN] /\ collapsed \in BOOLEAN /\ fullScreen \in BOOLEAN /\ tabs \subseteq {"git", "diff"})'
      BY <1>5 DEF Git!Expand, Git!TypeOK
    <3>4. (closed \subseteq Git!Sections)'
      <4>1. Git!Remount
        BY <1>5 DEF Git!Expand
      <4> QED
        BY <4>1 DEF Git!Remount, Git!Sections, Git!Files
    <3> QED
      BY <3>1, <3>2, <3>3, <3>4 DEF Git!TypeOK
  <2>2. Git!Seen'
    BY <1>5 DEF Git!Expand, Git!Seen
  <2>3. Git!OpensForNews'
    BY <1>5 DEF Git!Expand, Git!OpensForNews, Git!Seen, Git!TypeOK
  <2> QED
    BY <2>1, <2>2, <2>3
<1>6. CASE Git!Collapse
  <2>1. Git!TypeOK'
    <3>1. (thread \in PullThreads /\ pr \subseteq PullThreads /\ prDiff \subseteq pr)'
      BY <1>6 DEF Git!Collapse, Git!TypeOK
    <3>2. (edits \in [PullThreads -> Edits \cup {{}}])'
      BY <1>6 DEF Git!Collapse, Git!TypeOK
    <3>3. (prSeen \in [threadId : PullThreads, hadPr : BOOLEAN] /\ collapsed \in BOOLEAN /\ fullScreen \in BOOLEAN /\ tabs \subseteq {"git", "diff"})'
      BY <1>6 DEF Git!Collapse, Git!TypeOK
    <3>4. (closed \subseteq Git!Sections)'
      <4>1. Git!Remount
        BY <1>6 DEF Git!Collapse
      <4> QED
        BY <4>1 DEF Git!Remount, Git!Sections, Git!Files
    <3> QED
      BY <3>1, <3>2, <3>3, <3>4 DEF Git!TypeOK
  <2>2. Git!Seen'
    BY <1>6 DEF Git!Collapse, Git!Seen
  <2>3. Git!OpensForNews'
    BY <1>6 DEF Git!Collapse, Git!OpensForNews, Git!Seen, Git!TypeOK
  <2> QED
    BY <2>1, <2>2, <2>3
<1>7. CASE Git!ToggleFullScreen
  <2>1. Git!TypeOK'
    <3>1. (thread \in PullThreads /\ pr \subseteq PullThreads /\ prDiff \subseteq pr)'
      BY <1>7 DEF Git!ToggleFullScreen, Git!TypeOK
    <3>2. (edits \in [PullThreads -> Edits \cup {{}}])'
      BY <1>7 DEF Git!ToggleFullScreen, Git!TypeOK
    <3>3. (prSeen \in [threadId : PullThreads, hadPr : BOOLEAN] /\ collapsed \in BOOLEAN /\ fullScreen \in BOOLEAN /\ tabs \subseteq {"git", "diff"})'
      BY <1>7 DEF Git!ToggleFullScreen, Git!TypeOK
    <3>4. (closed \subseteq Git!Sections)'
      <4>1. Git!Remount
        BY <1>7 DEF Git!ToggleFullScreen
      <4> QED
        BY <4>1 DEF Git!Remount, Git!Sections, Git!Files
    <3> QED
      BY <3>1, <3>2, <3>3, <3>4 DEF Git!TypeOK
  <2>2. Git!Seen'
    BY <1>7 DEF Git!ToggleFullScreen, Git!Seen
  <2>3. Git!OpensForNews'
    BY <1>7 DEF Git!ToggleFullScreen, Git!OpensForNews, Git!Seen, Git!TypeOK
  <2> QED
    BY <2>1, <2>2, <2>3
<1>8. ASSUME NEW x \in {"git", "diff"}, NEW on \in BOOLEAN, Git!SetTab(x, on)
      PROVE  Git!Inv'
  <2>1. Git!TypeOK'
    <3>1. (thread \in PullThreads /\ pr \subseteq PullThreads /\ prDiff \subseteq pr)'
      BY <1>8 DEF Git!SetTab, Git!TypeOK
    <3>2. (edits \in [PullThreads -> Edits \cup {{}}])'
      BY <1>8 DEF Git!SetTab, Git!TypeOK
    <3>3. (prSeen \in [threadId : PullThreads, hadPr : BOOLEAN] /\ collapsed \in BOOLEAN /\ fullScreen \in BOOLEAN /\ tabs \subseteq {"git", "diff"})'
      BY <1>8 DEF Git!SetTab, Git!TypeOK
    <3>4. (closed \subseteq Git!Sections)'
      <4>1. Git!Remount
        BY <1>8 DEF Git!SetTab
      <4> QED
        BY <4>1 DEF Git!Remount, Git!Sections, Git!Files
    <3> QED
      BY <3>1, <3>2, <3>3, <3>4 DEF Git!TypeOK
  <2>2. Git!Seen'
    BY <1>8 DEF Git!SetTab, Git!Seen
  <2>3. Git!OpensForNews'
    BY <1>8 DEF Git!SetTab, Git!OpensForNews, Git!Seen, Git!TypeOK
  <2> QED
    BY <2>1, <2>2, <2>3
<1>9. ASSUME NEW p \in {f.treePath : f \in Git!Files(thread)}, Git!SelectTreePath(p)
      PROVE  Git!Inv'
  <2>1. Git!TypeOK'
    <3>1. (thread \in PullThreads /\ pr \subseteq PullThreads /\ prDiff \subseteq pr)'
      BY <1>9 DEF Git!SelectTreePath, Git!TypeOK
    <3>2. (edits \in [PullThreads -> Edits \cup {{}}])'
      BY <1>9 DEF Git!SelectTreePath, Git!TypeOK
    <3>3. (prSeen \in [threadId : PullThreads, hadPr : BOOLEAN] /\ collapsed \in BOOLEAN /\ fullScreen \in BOOLEAN /\ tabs \subseteq {"git", "diff"})'
      BY <1>9 DEF Git!SelectTreePath, Git!TypeOK
    <3>4. (closed \subseteq Git!Sections)'
      <4>1. Git!Sections' = Git!Sections
        BY <1>9 DEF Git!SelectTreePath, Git!Sections, Git!Files
      <4> QED
        BY <1>9, <4>1 DEF Git!SelectTreePath, Git!TypeOK
    <3> QED
      BY <3>1, <3>2, <3>3, <3>4 DEF Git!TypeOK
  <2>2. Git!Seen'
    BY <1>9 DEF Git!SelectTreePath, Git!Seen
  <2>3. Git!OpensForNews'
    BY <1>9 DEF Git!SelectTreePath, Git!OpensForNews, Git!Seen, Git!TypeOK
  <2> QED
    BY <2>1, <2>2, <2>3
<1>10. ASSUME NEW p \in Git!AllPaths, Git!ToggleSection(p)
       PROVE  Git!Inv'
  <2>1. Git!TypeOK'
    <3>1. (thread \in PullThreads /\ pr \subseteq PullThreads /\ prDiff \subseteq pr)'
      BY <1>10 DEF Git!ToggleSection, Git!TypeOK
    <3>2. (edits \in [PullThreads -> Edits \cup {{}}])'
      BY <1>10 DEF Git!ToggleSection, Git!TypeOK
    <3>3. (prSeen \in [threadId : PullThreads, hadPr : BOOLEAN] /\ collapsed \in BOOLEAN /\ fullScreen \in BOOLEAN /\ tabs \subseteq {"git", "diff"})'
      BY <1>10 DEF Git!ToggleSection, Git!TypeOK
    <3>4. (closed \subseteq Git!Sections)'
      <4>1. closed' = Git!SymDiff(closed, {p}) /\ p \in Git!Sections /\ closed \subseteq Git!Sections
        BY <1>10 DEF Git!ToggleSection, Git!TypeOK
      <4>2. Git!Sections' = Git!Sections
        BY <1>10 DEF Git!ToggleSection, Git!Sections, Git!Files
      <4> QED
        BY <4>1, <4>2 DEF Git!SymDiff
    <3> QED
      BY <3>1, <3>2, <3>3, <3>4 DEF Git!TypeOK
  <2>2. Git!Seen'
    BY <1>10 DEF Git!ToggleSection, Git!Seen
  <2>3. Git!OpensForNews'
    BY <1>10 DEF Git!ToggleSection, Git!OpensForNews, Git!Seen, Git!TypeOK
  <2> QED
    BY <2>1, <2>2, <2>3
<1>11. CASE UNCHANGED gitVars
  <2>1. Git!TypeOK'
    <3>1. (thread \in PullThreads /\ pr \subseteq PullThreads /\ prDiff \subseteq pr)'
      BY <1>11 DEF gitVars, Git!TypeOK
    <3>2. (edits \in [PullThreads -> Edits \cup {{}}])'
      BY <1>11 DEF gitVars, Git!TypeOK
    <3>3. (prSeen \in [threadId : PullThreads, hadPr : BOOLEAN] /\ collapsed \in BOOLEAN /\ fullScreen \in BOOLEAN /\ tabs \subseteq {"git", "diff"})'
      BY <1>11 DEF gitVars, Git!TypeOK
    <3>4. (closed \subseteq Git!Sections)'
      BY <1>11 DEF gitVars, Git!TypeOK, Git!Sections, Git!Files
    <3> QED
      BY <3>1, <3>2, <3>3, <3>4 DEF Git!TypeOK
  <2>2. Git!Seen'
    BY <1>11 DEF gitVars, Git!Seen
  <2>3. Git!OpensForNews'
    BY <1>11 DEF gitVars, Git!OpensForNews, Git!Seen, Git!TypeOK
  <2> QED
    BY <2>1, <2>2, <2>3
<1> QED
  BY <1>1, <1>2, <1>3, <1>4, <1>5, <1>6, <1>7, <1>8, <1>9, <1>10, <1>11 DEF Git!Next

(* For all threads and pull requests: the panel of a thread opens by itself *)
(* for a new pull request only, and its tree names each file once.  This is *)
(* the half of FilesShown that is about the thread's panel.                 *)
THEOREM ThreadPanelAlwaysRight ==
    Spec => [](focus = "git" => Git!OpensForNews /\ Git!TreePathsDistinct)
<1> DEFINE I == focus = "git" => Git!Inv
           P == focus = "git" => Git!OpensForNews /\ Git!TreePathsDistinct
<1>1. Init => I
  BY GitInit DEF Init
<1>2. I /\ [Next]_vars => I'
  BY OnePart, GitStep
<1>3. I => P
  BY TreeNamesEachFile DEF Git!Inv
<1> QED
  BY <1>1, <1>2, <1>3, PTL DEF Spec

----------------------------------------------------------------------------
(* The tree of the ported git panel                                         *)

(* One path leads to a longer one that begins with it.                      *)
LEMMA PrefixMeans ==
    ASSUME NEW p \in Seq(Int), NEW q \in Seq(Int)
    PROVE  Tree!ProperPrefix(p, q) <=> Len(p) < Len(q) /\ \A j \in 1..Len(p) : p[j] = q[j]
<1>1. CASE Len(p) > Len(q)
  BY <1>1 DEF Tree!ProperPrefix, Tree!IsStrictPrefix, Tree!IsPrefix
<1>2. CASE Len(p) <= Len(q)
  <2>1. /\ SubSeq(p, 1, Len(p)) = p /\ SubSeq(q, 1, Len(p)) \in Seq(Int)
        /\ Len(SubSeq(q, 1, Len(p))) = Len(p) /\ \A j \in 1..Len(p) : SubSeq(q, 1, Len(p))[j] = q[j]
    BY <1>2
  <2>2. SubSeq(q, 1, Len(p)) = p <=> \A j \in 1..Len(p) : p[j] = q[j]
    BY <2>1
  <2>3. p = q => Len(p) = Len(q)
    OBVIOUS
  <2>4. Len(p) = Len(q) /\ (\A j \in 1..Len(p) : p[j] = q[j]) => p = q
    BY SeqEqual
  <2> QED
    BY <1>2, <2>1, <2>2, <2>3, <2>4 DEF Tree!ProperPrefix, Tree!IsStrictPrefix, Tree!IsPrefix
<1>3. Len(p) > Len(q) \/ Len(p) <= Len(q)
  OBVIOUS
<1> QED
  BY <1>1, <1>2, <1>3

(* One path is before another if it leads to it, or by the first name in    *)
(* which they differ.                                                       *)
LEMMA LessMeans ==
    ASSUME NEW p \in Seq(Int), NEW q \in Seq(Int)
    PROVE  Tree!Less(p, q) <=>
             \/ Len(p) < Len(q) /\ \A j \in 1..Len(p) : p[j] = q[j]
             \/ \E i \in 1..Len(p) : i <= Len(q) /\ p[i] < q[i] /\ \A j \in 1..(i - 1) : p[j] = q[j]
<1>1. Tree!ProperPrefix(p, q) <=> Len(p) < Len(q) /\ \A j \in 1..Len(p) : p[j] = q[j]
  BY PrefixMeans
<1>2. (\E i \in 1..Len(p) \cap 1..Len(q) : p[i] < q[i] /\ \A j \in 1..(i - 1) : p[j] = q[j])
        <=> \E i \in 1..Len(p) : i <= Len(q) /\ p[i] < q[i] /\ \A j \in 1..(i - 1) : p[j] = q[j]
  OBVIOUS
<1> QED
  BY <1>1, <1>2 DEF Tree!Less

(* That is a linear order of the paths ...                                  *)
LEMMA LessIsTransitive ==
    ASSUME NEW p \in Seq(Int), NEW q \in Seq(Int), NEW r \in Seq(Int), Tree!Less(p, q), Tree!Less(q, r)
    PROVE  Tree!Less(p, r)
<1> Len(p) \in Nat /\ Len(q) \in Nat /\ Len(r) \in Nat
  OBVIOUS
<1> /\ \A i \in 1..Len(p) : p[i] \in Int
    /\ \A i \in 1..Len(q) : q[i] \in Int
    /\ \A i \in 1..Len(r) : r[i] \in Int
  OBVIOUS
<1> DEFINE P(x, y) == Len(x) < Len(y) /\ \A j \in 1..Len(x) : x[j] = y[j]
           D(x, y, i) == i <= Len(y) /\ x[i] < y[i] /\ \A j \in 1..(i - 1) : x[j] = y[j]
<1>1. P(p, q) \/ \E i \in 1..Len(p) : D(p, q, i)
  BY LessMeans
<1>2. P(q, r) \/ \E i \in 1..Len(q) : D(q, r, i)
  BY LessMeans
<1>3. CASE P(p, q) /\ P(q, r)
  <2>1. P(p, r)
    BY <1>3
  <2> QED
    BY <2>1, LessMeans
<1>4. ASSUME P(p, q), NEW i \in 1..Len(q), D(q, r, i) PROVE Tree!Less(p, r)
  <2>1. i > Len(p) => P(p, r)
    <3> SUFFICES ASSUME i > Len(p) PROVE P(p, r)
      OBVIOUS
    <3>1. Len(p) < Len(r) /\ \A j \in 1..Len(p) : j \in 1..(i - 1)
      BY <1>4
    <3> QED
      BY <1>4, <3>1
  <2>2. i <= Len(p) => D(p, r, i)
    BY <1>4
  <2> QED
    BY <2>1, <2>2, LessMeans
<1>5. ASSUME P(q, r), NEW i \in 1..Len(p), D(p, q, i) PROVE Tree!Less(p, r)
  <2>1. D(p, r, i)
    <3>1. i \in 1..Len(q) /\ i <= Len(r)
      BY <1>5
    <3>2. p[i] < r[i]
      BY <1>5, <3>1
    <3>3. ASSUME NEW j \in 1..(i - 1) PROVE p[j] = r[j]
      <4>1. j \in 1..Len(q)
        BY <3>1
      <4> QED
        BY <1>5, <4>1
    <3> QED
      BY <3>1, <3>2, <3>3
  <2> QED
    BY <2>1, LessMeans
<1>6. ASSUME NEW i \in 1..Len(p), D(p, q, i), NEW k \in 1..Len(q), D(q, r, k) PROVE Tree!Less(p, r)
  <2>1. i < k => D(p, r, i)
    <3> SUFFICES ASSUME i < k PROVE D(p, r, i)
      OBVIOUS
    <3>1. i \in 1..(k - 1) /\ i <= Len(r)
      BY <1>6
    <3>2. p[i] < r[i]
      <4>1. q[i] = r[i]
        BY <1>6, <3>1
      <4> QED
        BY <1>6, <4>1
    <3>3. ASSUME NEW j \in 1..(i - 1) PROVE p[j] = r[j]
      <4>1. j \in 1..(k - 1)
        BY <3>1
      <4> QED
        BY <1>6, <4>1
    <3> QED
      BY <3>1, <3>2, <3>3
  <2>2. k < i => k \in 1..Len(p) /\ D(p, r, k)
    <3> SUFFICES ASSUME k < i PROVE k \in 1..Len(p) /\ D(p, r, k)
      OBVIOUS
    <3>1. k \in 1..(i - 1) /\ k \in 1..Len(p) /\ k <= Len(r)
      BY <1>6
    <3>2. p[k] < r[k]
      <4>1. p[k] = q[k]
        BY <1>6, <3>1
      <4> QED
        BY <1>6, <4>1
    <3>3. ASSUME NEW j \in 1..(k - 1) PROVE p[j] = r[j]
      <4>1. j \in 1..(i - 1)
        BY <3>1
      <4> QED
        BY <1>6, <4>1
    <3> QED
      BY <3>1, <3>2, <3>3
  <2>3. i = k => D(p, r, i)
    <3> SUFFICES ASSUME i = k PROVE D(p, r, i)
      OBVIOUS
    <3>1. p[i] < q[i] /\ q[i] < r[i] /\ i <= Len(r) /\ i \in 1..Len(q) /\ i \in 1..Len(r)
      BY <1>6
    <3>2. p[i] < r[i]
      <4> DEFINE a == p[i]
                 b == q[i]
                 c == r[i]
      <4>1. a \in Int /\ b \in Int /\ c \in Int
        BY <3>1
      <4>2. a < b /\ b < c
        BY <3>1
      <4> HIDE DEF a, b, c
      <4>3. a < c
        BY <4>1, <4>2
      <4> QED
        BY <4>3 DEF a, c
    <3>3. \A j \in 1..(i - 1) : p[j] = r[j]
      BY <1>6
    <3> QED
      BY <3>1, <3>2, <3>3
  <2> QED
    BY <2>1, <2>2, <2>3, LessMeans
<1> QED
  BY <1>1, <1>2, <1>3, <1>4, <1>5, <1>6

(* ... in which two paths are the same or one of them is before the other, *)
LEMMA LessIsTotal ==
    ASSUME NEW p \in Seq(Int), NEW q \in Seq(Int), p # q
    PROVE  Tree!Less(p, q) \/ Tree!Less(q, p)
<1> DEFINE m == IF Len(p) <= Len(q) THEN Len(p) ELSE Len(q)
           Same == {i \in 0..m : \A j \in 1..i : p[j] = q[j]}
<1>1. Len(p) \in Nat /\ Len(q) \in Nat /\ m \in Nat
  OBVIOUS
<1>2. 0 \in Same /\ Same \in SUBSET (0..m)
  BY <1>1
<1>3. PICK k \in Same : \A i \in Same : k >= i
  <2> HIDE DEF Same, m
  <2> QED
    BY <1>1, <1>2, LargestThereIs
<1>4. k \in 0..m /\ \A j \in 1..k : p[j] = q[j]
  OBVIOUS
<1>5. CASE k = m
  <2>1. Len(p) # Len(q)
    <3> SUFFICES ASSUME Len(p) = Len(q) PROVE FALSE
      OBVIOUS
    <3>1. \A j \in 1..Len(p) : p[j] = q[j]
      BY <1>4, <1>5
    <3> QED
      BY <3>1, SeqEqual
  <2>2. CASE Len(p) < Len(q)
    BY <1>4, <1>5, <2>2, LessMeans
  <2>3. CASE Len(q) < Len(p)
    BY <1>4, <1>5, <2>3, LessMeans
  <2> QED
    BY <1>1, <2>1, <2>2, <2>3
<1>6. CASE k < m
  <2>1. k + 1 \in 0..m /\ k + 1 \notin Same
    <3>1. k + 1 \in 0..m /\ ~(k >= k + 1)
      BY <1>1, <1>4, <1>6
    <3> HIDE DEF Same, m
    <3> QED
      BY <1>3, <3>1
  <2>2. p[k + 1] # q[k + 1]
    <3>1. \E j \in 1..(k + 1) : p[j] # q[j]
      BY <2>1
    <3> QED
      BY <1>4, <3>1
  <2>3. k + 1 \in 1..Len(p) /\ k + 1 \in 1..Len(q) /\ p[k + 1] \in Int /\ q[k + 1] \in Int
    BY <1>1, <2>1, <1>4
  <2>4. CASE p[k + 1] < q[k + 1]
    BY <1>4, <2>3, <2>4, LessMeans
  <2>5. CASE q[k + 1] < p[k + 1]
    BY <1>4, <2>3, <2>5, LessMeans
  <2> QED
    BY <2>2, <2>3, <2>4, <2>5
<1> QED
  BY <1>1, <1>4, <1>5, <1>6

(* ... so that one of the changed files is the first.                       *)
LEMMA FirstThereIs ==
    ASSUME NEW D \in SUBSET TreePaths, D # {}
    PROVE  Tree!FirstPath(D) \in D
<1> DEFINE R == StrictSubsetOrdering(TreePaths)
           First_(T) == \E p \in T : \A q \in T \ {p} : Tree!Less(p, q)
           Bad == {T \in SUBSET D : T # {} /\ ~First_(T)}
<1>1. IsWellFoundedOn(R, SUBSET TreePaths)
  BY TreeAssumption, FS_StrictSubsetOrderingWellFounded, FS_FiniteSubsetsOfFinite
<1>2. \A T, U \in SUBSET TreePaths : T \subseteq U /\ T # U => <<T, U>> \in R
  BY DEF StrictSubsetOrdering
<1> HIDE DEF R
<1>3. Bad = {}
  <2> SUFFICES ASSUME Bad # {} PROVE FALSE
    OBVIOUS
  <2>1. Bad \subseteq SUBSET TreePaths
    OBVIOUS
  <2>2. PICK T \in Bad : \A U \in Bad : ~(<<U, T>> \in R)
    <3> HIDE DEF Bad
    <3> QED
      BY <1>1, <2>1, WFMin
  <2>3. PICK t \in T : TRUE
    OBVIOUS
  <2>4. /\ T \in SUBSET TreePaths /\ T \in SUBSET D /\ T \ {t} \in SUBSET TreePaths
        /\ T \ {t} \subseteq T /\ T \ {t} # T /\ T \ {t} \in SUBSET D
    BY <2>3
  <2>5. T \ {t} \notin Bad
    <3> HIDE DEF Bad
    <3> QED
      BY <1>2, <2>2, <2>4
  <2>6. T \ {t} # {}
    BY <2>3
  <2>7. PICK v \in T \ {t} : \A q \in (T \ {t}) \ {v} : Tree!Less(v, q)
    BY <2>4, <2>5, <2>6
  <2>8. \A q \in T : q \in Seq(Int)
    BY <2>4, TreeAssumption
  <2>9. CASE Tree!Less(v, t)
    <3>1. \A q \in T \ {v} : Tree!Less(v, q)
      BY <2>7, <2>9
    <3> QED
      BY <3>1
  <2>10. CASE Tree!Less(t, v)
    <3>1. \A q \in T \ {t} : Tree!Less(t, q)
      BY <2>7, <2>8, <2>10, LessIsTransitive
    <3> QED
      BY <3>1
  <2> QED
    BY <2>7, <2>8, <2>9, <2>10, LessIsTotal
<1>4. First_(D)
  BY <1>3
<1> QED
  BY <1>4 DEF Tree!FirstPath

(* The nodes on the way to a file.                                          *)
LEMMA NodesAre ==
    ASSUME NEW p \in Seq(Int)
    PROVE  /\ Tree!NodesOn(p) = {SubSeq(p, 1, l) : l \in 1..Len(p)}
           /\ \A l \in 1..Len(p) : /\ SubSeq(p, 1, l) \in Seq(Int) /\ Len(SubSeq(p, 1, l)) = l
                                   /\ \A j \in 1..l : SubSeq(p, 1, l)[j] = p[j]
           /\ SubSeq(p, 1, Len(p)) = p
<1>1. \A l \in 0..Len(p) : /\ SubSeq(p, 1, l) \in Seq(Int) /\ Len(SubSeq(p, 1, l)) = l
                           /\ \A j \in 1..l : SubSeq(p, 1, l)[j] = p[j]
  OBVIOUS
<1>2. \A l \in 0..Len(p) : SubSeq(p, 1, l) = <<>> <=> l = 0
  BY <1>1
<1>3. Tree!NodesOn(p) = {SubSeq(p, 1, l) : l \in 0..Len(p)} \ {<<>>}
  BY DEF Tree!NodesOn, Tree!Prefixes
<1>4. SubSeq(p, 1, Len(p)) = p
  OBVIOUS
<1>5. Len(p) \in Nat
  OBVIOUS
<1> QED
  BY <1>1, <1>2, <1>3, <1>4, <1>5

(* A node with a child is a directory on the way to a file; one without is  *)
(* a file.                                                                  *)
LEMMA NodeIsDirOrFile ==
    ASSUME diffs \subseteq TreePaths, NEW n \in Tree!buildFileTree(diffs).nodes
    PROVE  /\ Tree!isDirectory(Tree!buildFileTree(diffs), n) => n \in Tree!Dirs
           /\ ~Tree!isDirectory(Tree!buildFileTree(diffs), n) => n \in diffs
<1> DEFINE tree == Tree!buildFileTree(diffs)
<1>1. tree.nodes = UNION {Tree!NodesOn(p) : p \in diffs} /\ tree.diff = diffs
  BY DEF Tree!buildFileTree
<1> HIDE DEF tree
<1>2. \A p \in diffs : p \in Seq(Int) /\ p \in TreePaths
  BY TreeAssumption
<1>3. PICK p \in diffs : n \in Tree!NodesOn(p)
  BY <1>1 DEF tree
<1>4. PICK l \in 1..Len(p) : n = SubSeq(p, 1, l)
  BY <1>2, <1>3, NodesAre
<1>5. n \in Seq(Int) /\ Len(n) = l /\ Len(p) \in Nat
  BY <1>2, <1>4, NodesAre
<1>6. ASSUME Tree!isDirectory(tree, n) PROVE n \in Tree!Dirs
  <2>1. PICK c \in tree.nodes : Len(c) = Len(n) + 1 /\ Tree!ProperPrefix(n, c)
    BY <1>6 DEF Tree!isDirectory, Tree!Children
  <2>2. PICK q \in diffs : c \in Tree!NodesOn(q)
    BY <1>1, <2>1
  <2>3. PICK k \in 1..Len(q) : c = SubSeq(q, 1, k)
    BY <1>2, <2>2, NodesAre
  <2>4. q \in Seq(Int) /\ Len(q) \in Nat /\ c \in Seq(Int) /\ Len(c) = k /\ \A j \in 1..k : c[j] = q[j]
    BY <1>2, <2>3, NodesAre
  <2>5. k = l + 1 /\ SubSeq(n, 1, Len(n)) = SubSeq(c, 1, Len(n))
    BY <1>5, <2>1, <2>4 DEF Tree!ProperPrefix, Tree!IsStrictPrefix, Tree!IsPrefix
  <2>6. SubSeq(n, 1, Len(n)) = n
    BY <1>5
  <2>7. l \in 1..Len(q) /\ l # Len(q)
    BY <2>4, <2>5
  <2>8. \A j \in 1..l : n[j] = q[j]
    <3>1. \A j \in 1..l : SubSeq(c, 1, l)[j] = c[j]
      BY <1>5, <2>4, <2>5
    <3> QED
      BY <1>5, <2>4, <2>5, <2>6, <3>1
  <2>9. n = SubSeq(q, 1, l)
    <3>1. SubSeq(q, 1, l) \in Seq(Int) /\ Len(SubSeq(q, 1, l)) = l /\ \A j \in 1..l : SubSeq(q, 1, l)[j] = q[j]
      BY <2>4, <2>7, NodesAre
    <3> QED
      BY <1>5, <2>8, <3>1
  <2>10. n \in Tree!NodesOn(q) /\ n # q
    <3>1. Tree!NodesOn(q) = {SubSeq(q, 1, i) : i \in 1..Len(q)}
      BY <2>4, NodesAre
    <3>2. n # q
      BY <1>5, <2>7
    <3> QED
      BY <2>7, <2>9, <3>1, <3>2
  <2> QED
    BY <1>2, <2>10 DEF Tree!Dirs, Tree!getAncestorPaths
<1>7. ASSUME ~Tree!isDirectory(tree, n), n \notin diffs PROVE FALSE
  <2>1. l # Len(p)
    BY <1>2, <1>4, <1>7, NodesAre
  <2> DEFINE c == SubSeq(p, 1, l + 1)
  <2>2. /\ l + 1 \in 1..Len(p) /\ c \in Tree!NodesOn(p) /\ c \in Seq(Int) /\ Len(c) = l + 1
        /\ \A j \in 1..l : c[j] = p[j] /\ n[j] = p[j]
    <3>1. l + 1 \in 1..Len(p) /\ \A j \in 1..l : j \in 1..(l + 1)
      BY <1>5, <2>1
    <3> QED
      BY <1>2, <1>4, <3>1, NodesAre
  <2> HIDE DEF c
  <2>3. Tree!ProperPrefix(n, c)
    <3>1. /\ SubSeq(n, 1, l) \in Seq(Int) /\ Len(SubSeq(n, 1, l)) = l
          /\ SubSeq(c, 1, l) \in Seq(Int) /\ Len(SubSeq(c, 1, l)) = l
          /\ \A j \in 1..l : SubSeq(n, 1, l)[j] = n[j] /\ SubSeq(c, 1, l)[j] = c[j]
      BY <1>5, <2>2
    <3>2. SubSeq(n, 1, l) = SubSeq(c, 1, l)
      BY <2>2, <3>1
    <3>3. n # c /\ Len(n) <= Len(c)
      BY <1>5, <2>2
    <3> QED
      BY <1>5, <3>2, <3>3 DEF Tree!ProperPrefix, Tree!IsStrictPrefix, Tree!IsPrefix
  <2>4. c \in tree.nodes
    BY <1>1, <2>2
  <2>5. c \in Tree!Children(tree, n)
    BY <1>5, <2>2, <2>3, <2>4 DEF Tree!Children
  <2> QED
    BY <1>1, <1>7, <2>5 DEF Tree!isDirectory
<1> QED
  BY <1>6, <1>7 DEF tree

(* Revealing the selection expands directories only.                        *)
LEMMA RevealsDirs ==
    ASSUME NEW base \in SUBSET Tree!Dirs, Tree!Reveal(base), diffs' \subseteq TreePaths, toggled \in BOOLEAN
    PROVE  expanded' \subseteq Tree!Dirs /\ toggled' \in BOOLEAN
<1> DEFINE new == Tree!effectiveSelectedDiffPath(selected', diffs')
<1>1. new = NoPath \/ new \in TreePaths
  BY FirstThereIs DEF Tree!effectiveSelectedDiffPath
<1>2. new \in TreePaths => Tree!getAncestorPaths(new) \subseteq Tree!Dirs
  BY DEF Tree!Dirs
<1> HIDE DEF new
<1> QED
  BY <1>1, <1>2 DEF Tree!Reveal, new

(* What the effect does for the selection: where it runs, the directories   *)
(* above the new one are expanded; where it does not, the selection on      *)
(* display is the old one, and stays revealed if nothing was folded.        *)
LEMMA RevealsSelection ==
    ASSUME NEW base, Tree!Reveal(base), Tree!Revealed, Tree!Mounted /\ Tree!Mounted' => expanded \subseteq base
    PROVE  Tree!Revealed'
<1> DEFINE new == Tree!effectiveSelectedDiffPath(selected', diffs')
           visible == Tree!MountedIf(listed', explorer')
<1>1. Tree!Effective' = new /\ Tree!Mounted' = visible
  BY DEF Tree!Effective, Tree!effectiveSelectedDiffPath, Tree!Mounted, Tree!MountedIf, Tree!FirstPath, Tree!Less,
      Tree!ProperPrefix
<1>2. CASE visible /\ new # NoPath /\ (~Tree!Mounted \/ new # Tree!Effective)
  <2>1. expanded' = base \cup Tree!getAncestorPaths(new)
    BY <1>2 DEF Tree!Reveal
  <2>2. Tree!getAncestorPaths(Tree!Effective)' = Tree!getAncestorPaths(new)
    BY <1>1 DEF Tree!getAncestorPaths, Tree!NodesOn
  <2> QED
    BY <2>1, <2>2 DEF Tree!Revealed
<1>3. CASE ~(visible /\ new # NoPath /\ (~Tree!Mounted \/ new # Tree!Effective))
  <2>1. expanded' = base /\ toggled' = toggled
    BY <1>3 DEF Tree!Reveal
  <2> QED
    BY <1>1, <1>3, <2>1 DEF Tree!Revealed, Tree!getAncestorPaths, Tree!NodesOn
<1> QED
  BY <1>2, <1>3

(* The tree's invariant holds at first, and its actions keep it.            *)
LEMMA TreeInit == Tree!Init => Tree!Inv
<1> SUFFICES ASSUME Tree!Init PROVE Tree!Inv
  OBVIOUS
<1>1. Tree!TypeOK
  BY DEF Tree!Init, Tree!TypeOK
<1>2. ~Tree!Mounted
  BY DEF Tree!Init, Tree!Mounted, Tree!MountedIf
<1> QED
  BY <1>1, <1>2 DEF Tree!Inv, Tree!Revealed

(* Each action keeps what is selected in the part of the tree it reveals.   *)
LEMMA TreeStep ==
    ASSUME Tree!Inv, [Tree!Next]_treeVars
    PROVE  Tree!Inv'
<1> USE DEF Tree!Inv, Tree!TypeOK
<1>0. {} \in SUBSET Tree!Dirs /\ expanded \in SUBSET Tree!Dirs
  OBVIOUS
<1>1. ASSUME NEW D \in SUBSET TreePaths, NEW some \in BOOLEAN, Tree!Load(D, some)
      PROVE  Tree!Inv'
  <2>1. expanded' \subseteq Tree!Dirs /\ toggled' \in BOOLEAN
    BY <1>0, <1>1, RevealsDirs DEF Tree!Load
  <2>2. Tree!Revealed'
    BY <1>1, RevealsSelection DEF Tree!Load, Tree!Mounted, Tree!MountedIf
  <2> QED
    BY <1>1, <2>1, <2>2 DEF Tree!Load
<1>2. ASSUME NEW some \in BOOLEAN, Tree!PollEntries(some)
      PROVE  Tree!Inv'
  <2>1. expanded' \subseteq Tree!Dirs /\ toggled' \in BOOLEAN
    BY <1>0, <1>2, RevealsDirs DEF Tree!PollEntries
  <2>2. Tree!Revealed'
    BY <1>2, RevealsSelection DEF Tree!PollEntries, Tree!Mounted, Tree!MountedIf
  <2> QED
    BY <1>2, <2>1, <2>2 DEF Tree!PollEntries
<1>3. CASE Tree!ToggleExplorer
  <2>1. expanded' \subseteq Tree!Dirs /\ toggled' \in BOOLEAN
    BY <1>0, <1>3, RevealsDirs DEF Tree!ToggleExplorer
  <2>2. Tree!Revealed'
    BY <1>3, RevealsSelection DEF Tree!ToggleExplorer, Tree!Mounted, Tree!MountedIf
  <2> QED
    BY <1>3, <2>1, <2>2 DEF Tree!ToggleExplorer
<1>4. ASSUME NEW n \in Tree!buildFileTree(diffs).nodes, Tree!ToggleDirectory(n)
      PROVE  Tree!Inv'
  <2>1. n \in Tree!Dirs
    BY <1>4, NodeIsDirOrFile DEF Tree!ToggleDirectory
  <2>2. Tree!Revealed'
    BY <1>4 DEF Tree!ToggleDirectory, Tree!Revealed
  <2> QED
    BY <1>4, <2>1, <2>2 DEF Tree!ToggleDirectory, Tree!SymDiff
<1>5. ASSUME NEW n \in Tree!buildFileTree(diffs).nodes, Tree!SelectFile(n)
      PROVE  Tree!Inv'
  <2>1. n \in diffs
    BY <1>5, NodeIsDirOrFile DEF Tree!SelectFile
  <2>2. expanded' \subseteq Tree!Dirs /\ toggled' \in BOOLEAN
    BY <1>0, <1>5, RevealsDirs DEF Tree!SelectFile
  <2>3. Tree!Revealed'
    BY <1>5, RevealsSelection DEF Tree!SelectFile
  <2> QED
    BY <1>5, <2>1, <2>2, <2>3 DEF Tree!SelectFile
<1>6. ASSUME NEW p \in TreePaths, Tree!ClickCard(p)
      PROVE  Tree!Inv'
  <2>1. expanded' \subseteq Tree!Dirs /\ toggled' \in BOOLEAN
    BY <1>0, <1>6, RevealsDirs DEF Tree!ClickCard
  <2>2. Tree!Revealed'
    BY <1>6, RevealsSelection DEF Tree!ClickCard, Tree!Mounted, Tree!MountedIf
  <2> QED
    BY <1>6, <2>1, <2>2 DEF Tree!ClickCard, Tree!SymDiff
<1>7. CASE UNCHANGED treeVars
  <2>1. Tree!TypeOK'
    BY <1>7 DEF treeVars, Tree!Dirs
  <2>2. Tree!Revealed'
    BY <1>7 DEF treeVars, Tree!Revealed, Tree!Mounted, Tree!MountedIf, Tree!Effective,
        Tree!effectiveSelectedDiffPath, Tree!FirstPath, Tree!Less, Tree!ProperPrefix, Tree!getAncestorPaths,
        Tree!NodesOn
  <2> QED
    BY <2>1, <2>2
<1> QED
  BY <1>1, <1>2, <1>3, <1>4, <1>5, <1>6, <1>7 DEF Tree!Next

(* For all paths, over reloads that change the selection and unmounting of  *)
(* the tree: unless a directory was toggled since, those above the selected *)
(* file are expanded.  This is what makes its row visible in FilesShown.    *)
THEOREM SelectionAlwaysRevealed == Spec => [](focus = "tree" => Tree!Revealed)
<1> DEFINE I == focus = "tree" => Tree!Inv
           P == focus = "tree" => Tree!Revealed
<1>1. Init => I
  BY TreeInit DEF Init
<1>2. I /\ [Next]_vars => I'
  BY OnePart, TreeStep
<1>3. I => P
  BY DEF Tree!Inv
<1> QED
  BY <1>1, <1>2, <1>3, PTL DEF Spec

----------------------------------------------------------------------------
(* The rows of that tree: recursion, joined lists and lists in order         *)

(* A set of numbers that is not empty has a least one.                      *)
LEMMA LeastNumber ==
    ASSUME NEW T \in SUBSET Nat, T # {}
    PROVE  \E t \in T : \A u \in T : t <= u
<1> DEFINE R == OpToRel(<, Nat)
<1>1. IsWellFoundedOn(R, Nat)
  BY NatLessThanWellFounded
<1>2. \A u, t \in Nat : u < t => <<u, t>> \in R
  BY DEF OpToRel
<1> HIDE DEF R
<1>3. PICK t \in T : \A u \in T : ~(<<u, t>> \in R)
  BY <1>1, WFMin
<1>4. \A u \in T : ~(u < t)
  BY <1>2, <1>3
<1> QED
  BY <1>4

(* Steps of a recursion along the numbers up to n, and what it yields.      *)
Steps(n, V) == [1..n -> [V -> V]]
Follows(f, n, base, step) == f[0] = base /\ \A i \in 1..n : f[i] = step[i][f[i-1]]

(* Recursion along a list of numbers.                                       *)
LEMMA RecursionExists ==
    ASSUME NEW V, NEW n \in Nat, NEW base \in V, NEW step \in Steps(n, V)
    PROVE  \E f \in [0..n -> V] : Follows(f, n, base, step)
<1> USE DEF Steps, Follows
<1> DEFINE Up(k) == \E f \in [0..k -> V] : f[0] = base /\ \A i \in 1..k : f[i] = step[i][f[i-1]]
           Bad == {k \in 0..n : ~Up(k)}
<1>1. Up(0)
  <2> DEFINE f == [i \in 0..0 |-> base]
  <2>1. f \in [0..0 -> V] /\ f[0] = base /\ \A i \in 1..0 : FALSE
    OBVIOUS
  <2> HIDE DEF f
  <2> QED
    BY <2>1
<1>2. ASSUME NEW k \in 0..n, k < n, Up(k) PROVE Up(k + 1)
  <2>1. PICK f \in [0..k -> V] : f[0] = base /\ \A i \in 1..k : f[i] = step[i][f[i-1]]
    BY <1>2
  <2> DEFINE g == [i \in 0..(k+1) |-> IF i <= k THEN f[i] ELSE step[k+1][f[k]]]
  <2>2. k + 1 \in 1..n /\ k \in 0..k
    BY <1>2
  <2>3. step[k+1][f[k]] \in V
    BY <2>2
  <2>4. g \in [0..(k+1) -> V]
    BY <2>3
  <2>5. g[0] = base /\ \A i \in 1..(k+1) : g[i] = step[i][g[i-1]]
    BY <2>1, <2>2
  <2> HIDE DEF g
  <2> QED
    BY <2>4, <2>5
<1> HIDE DEF Up
<1>3. \A k \in 0..n : Up(k)
  <2> SUFFICES ASSUME Bad # {} PROVE FALSE
    OBVIOUS
  <2>1. Bad \in SUBSET Nat
    OBVIOUS
  <2>2. PICK k \in Bad : \A j \in Bad : k <= j
    BY <2>1, LeastNumber
  <2>3. k # 0 /\ k - 1 \in 0..n /\ ~(k <= k - 1)
    BY <1>1
  <2>4. k - 1 \notin Bad
    BY <2>2, <2>3
  <2> QED
    BY <1>2, <2>3, <2>4
<1> QED
  BY <1>3 DEF Up

(* What Tree!FlattenSeq joins: Joins(f, n, s) says that f[i] is the first i *)
(* lists of s, one after another.                                           *)
Lists(n, S) == [1..n -> Seq(S)]
Joins(f, n, s) == f[0] = <<>> /\ \A i \in 1..n : f[i] = f[i-1] \o s[i]

(* The lists joined so far exist, for every number of lists ...             *)
LEMMA ListsJoined ==
    ASSUME NEW S, NEW n \in Nat, NEW s \in Lists(n, S)
    PROVE  \E f \in [0..n -> Seq(S)] : Joins(f, n, s)
<1> DEFINE V == Seq(S)
           Step(i) == [v \in V |-> v \o s[i]]
           step == [i \in 1..n |-> Step(i)]
<1>1. <<>> \in V /\ \A i \in 1..n : s[i] \in V
  BY DEF Lists
<1>2. \A v, w \in V : v \o w \in V
  OBVIOUS
<1>3. \A i \in 1..n : Step(i) \in [V -> V]
  <2> HIDE DEF V
  <2> QED BY <1>1, <1>2
<1>4. step \in Steps(n, V)
  <2> HIDE DEF V, Step
  <2> QED BY <1>3 DEF Steps
<1>5. \A i \in 1..n : \A v \in V : step[i][v] = v \o s[i]
  <2> HIDE DEF V
  <2> QED OBVIOUS
<1> HIDE DEF V, Step, step
<1>6. PICK f \in [0..n -> V] : Follows(f, n, <<>>, step)
  BY <1>1, <1>4, RecursionExists
<1>7. f[0] = <<>> /\ \A i \in 1..n : f[i] = step[i][f[i-1]]
  BY <1>6 DEF Follows
<1>8. \A i \in 1..n : f[i-1] \in V
  OBVIOUS
<1>9. \A i \in 1..n : f[i] = f[i-1] \o s[i]
  BY <1>5, <1>7, <1>8
<1>10. f \in [0..n -> Seq(S)]
  BY DEF V
<1> QED
  BY <1>7, <1>9, <1>10 DEF Joins

(* ... and FlattenSeq yields the last of them: its fold takes the lists in  *)
(* their order.                                                             *)
LEMMA FlattenJoins ==
    ASSUME NEW S, NEW n \in Nat, NEW s \in Lists(n, S)
    PROVE  \E f \in [0..n -> Seq(S)] : f[n] = Tree!FlattenSeq(s) /\ Joins(f, n, s)
<1> DEFINE V == Seq(S)
<1>0. s \in [1..n -> V] /\ Len(s) = n
  BY DEF Lists
<1>1. PICK f \in [0..n -> V] : Joins(f, n, s)
  BY ListsJoined
<1>2. f[0] = <<>> /\ \A i \in 1..n : f[i] = f[i-1] \o s[i]
  BY <1>1 DEF Joins
<1>3. CASE n = 0
  <2>1. s = <<>>
    BY <1>0, <1>3
  <2>2. Tree!FlattenSeq(s) = s
    BY <1>0, <1>3 DEF Tree!FlattenSeq
  <2> QED
    BY <1>1, <1>2, <1>3, <2>1, <2>2
<1>4. CASE n # 0
  <2> DEFINE g == [i \in 1..n |-> f[i]]
             e(k) == [i \in 1..n |-> IF i = 1 THEN s[i] ELSE k[i-1] \o s[i]]
             h == CHOOSE k : k = e(k)
  <2>1. 1 \in 1..n /\ n \in 1..n /\ \A i \in 1..n : i # 1 => i - 1 \in 1..n
    BY <1>4
  <2>2. f[1] = s[1]
    <3>1. s[1] \in Seq(S)
      BY <1>0, <2>1
    <3>2. f[1] = f[1 - 1] \o s[1]
      BY <1>2, <2>1
    <3>3. 1 - 1 = 0
      OBVIOUS
    <3>4. f[1] = <<>> \o s[1]
      BY <1>2, <3>2, <3>3
    <3> QED
      BY <3>1, <3>4, ConcatEmptySeq
  <2>3. \A i \in 1..n : g[i] = IF i = 1 THEN s[i] ELSE g[i-1] \o s[i]
    BY <1>2, <2>1, <2>2
  <2>4. g = e(g)
    <3> HIDE DEF g
    <3>1. g = [i \in 1..n |-> g[i]]
      BY DEF g
    <3> QED
      BY <2>3, <3>1
  <2>5. h = e(h)
    <3> HIDE DEF e
    <3> QED
      BY <2>4
  <2>6. Tree!FlattenSeq(s) = h[n]
    BY <1>0, <1>4 DEF Tree!FlattenSeq
  <2>7. \A i \in 1..n : h[i] = IF i = 1 THEN s[i] ELSE h[i-1] \o s[i]
    <3> HIDE DEF h
    <3> QED
      BY <2>5
  <2>8. \A i \in 1..n : h[i] = f[i]
    <3> DEFINE Bad == {i \in 1..n : h[i] # f[i]}
    <3> HIDE DEF h, g, e, V
    <3> SUFFICES ASSUME Bad # {} PROVE FALSE
      OBVIOUS
    <3>1. PICK i \in Bad : \A j \in Bad : i <= j
      <4>1. Bad \in SUBSET Nat
        OBVIOUS
      <4> HIDE DEF Bad
      <4> QED
        BY <4>1, LeastNumber
    <3>2. i # 1
      BY <2>1, <2>2, <2>7
    <3>3. i \in 1..n /\ i - 1 \in 1..n /\ ~(i <= i - 1)
      BY <3>2
    <3>4. h[i-1] = f[i-1]
      BY <3>1, <3>3
    <3>5. h[i] = h[i-1] \o s[i] /\ f[i] = f[i-1] \o s[i]
      BY <1>2, <2>7, <3>2, <3>3
    <3> QED
      BY <3>4, <3>5
  <2> QED
    BY <1>1, <2>1, <2>6, <2>8
<1> QED
  BY <1>3, <1>4

(* Where the elements of joined lists come from: p-th of flat is the        *)
(* pos[p]-th of the list at[p], in the order of the lists.                  *)
PlacedBy(flat, s, k, at, pos) ==
    /\ \A p \in 1..Len(flat) : /\ at[p] \in 1..k /\ pos[p] \in 1..Len(s[at[p]])
                               /\ flat[p] = s[at[p]][pos[p]]
    /\ \A p, q \in 1..Len(flat) : p < q => at[p] < at[q] \/ (at[p] = at[q] /\ pos[p] < pos[q])
    /\ \A a \in 1..k : \A b \in 1..Len(s[a]) : \E p \in 1..Len(flat) : at[p] = a /\ pos[p] = b
Placed(flat, s, k) == \E at, pos : PlacedBy(flat, s, k, at, pos)

(* If the elements of the first k lists are placed, so are those of one     *)
(* more.                                                                    *)
LEMMA PlacedMore ==
    ASSUME NEW S, NEW k \in Nat, NEW u \in Seq(S), NEW s, s[k+1] \in Seq(S), Placed(u, s, k)
    PROVE  Placed(u \o s[k+1], s, k + 1)
<1> PICK at, pos : PlacedBy(u, s, k, at, pos)
  BY DEF Placed
<1> DEFINE v == s[k+1]
           w == u \o v
           n == Len(u)
           m == Len(v)
           at2 == [p \in 1..(n + m) |-> IF p <= n THEN at[p] ELSE k + 1]
           pos2 == [p \in 1..(n + m) |-> IF p <= n THEN pos[p] ELSE p - n]
<1>1. /\ n \in Nat /\ m \in Nat /\ Len(w) = n + m
      /\ \A p \in 1..n : w[p] = u[p]
      /\ \A p \in 1..(n+m) : p > n => w[p] = v[p - n]
  OBVIOUS
<1>2. \A p \in 1..(n+m) : /\ p <= n => at2[p] = at[p] /\ pos2[p] = pos[p]
                          /\ p > n => at2[p] = k + 1 /\ pos2[p] = p - n
  BY <1>1
<1>3. v = s[k+1] /\ m = Len(s[k+1])
  OBVIOUS
<1> HIDE DEF v, w, n, m, at2, pos2
<1>4. /\ \A p \in 1..n : /\ at[p] \in 1..k /\ pos[p] \in 1..Len(s[at[p]])
                         /\ u[p] = s[at[p]][pos[p]]
      /\ \A p, q \in 1..n : p < q => at[p] < at[q] \/ (at[p] = at[q] /\ pos[p] < pos[q])
      /\ \A a \in 1..k : \A b \in 1..Len(s[a]) : \E p \in 1..n : at[p] = a /\ pos[p] = b
  BY DEF PlacedBy, n
<1>5. ASSUME NEW p \in 1..(n+m)
      PROVE  /\ at2[p] \in 1..(k+1) /\ pos2[p] \in 1..Len(s[at2[p]])
             /\ w[p] = s[at2[p]][pos2[p]]
  <2>1. CASE p <= n
    <3>1. p \in 1..n /\ at2[p] = at[p] /\ pos2[p] = pos[p] /\ w[p] = u[p]
      BY <1>1, <1>2, <2>1
    <3>2. at[p] \in 1..k /\ pos[p] \in 1..Len(s[at[p]]) /\ u[p] = s[at[p]][pos[p]]
      BY <1>4, <3>1
    <3>3. at[p] \in 1..(k+1)
      BY <3>2
    <3> QED
      BY <3>1, <3>2, <3>3
  <2>2. CASE p > n
    <3>1. at2[p] = k + 1 /\ pos2[p] = p - n /\ w[p] = v[p - n]
      BY <1>1, <1>2, <2>2
    <3>2. k + 1 \in 1..(k+1) /\ p - n \in 1..m
      BY <1>1, <2>2
    <3> QED
      BY <1>3, <3>1, <3>2
  <2> QED
    BY <1>1, <2>1, <2>2
<1>6. ASSUME NEW p \in 1..(n+m), NEW q \in 1..(n+m), p < q
      PROVE  at2[p] < at2[q] \/ (at2[p] = at2[q] /\ pos2[p] < pos2[q])
  <2>1. CASE q <= n
    <3>1. p \in 1..n /\ q \in 1..n
      BY <1>1, <1>6, <2>1
    <3> QED
      BY <1>2, <1>4, <1>6, <3>1
  <2>2. CASE p <= n /\ q > n
    <3>1. p \in 1..n
      BY <1>1, <2>2
    <3>2. at[p] \in 1..k
      BY <1>4, <3>1
    <3>3. at2[p] = at[p] /\ at2[q] = k + 1
      BY <1>2, <2>2
    <3>4. at[p] < k + 1
      BY <3>2
    <3>5. at2[p] < at2[q]
      BY <3>3, <3>4, Zenon
    <3> QED
      BY <3>5, Zenon
  <2>3. CASE p > n /\ q > n
    BY <1>1, <1>2, <1>6, <2>3
  <2> QED
    BY <1>1, <1>6, <2>1, <2>2, <2>3
<1>7. ASSUME NEW a \in 1..(k+1), NEW b \in 1..Len(s[a])
      PROVE  \E p \in 1..(n+m) : at2[p] = a /\ pos2[p] = b
  <2>1. CASE a \in 1..k
    <3>1. PICK p \in 1..n : at[p] = a /\ pos[p] = b
      BY <1>4, <2>1
    <3>2. p \in 1..(n+m) /\ p <= n
      BY <1>1
    <3> QED
      BY <1>2, <3>1, <3>2
  <2>2. CASE a = k + 1
    <3>1. n + b \in 1..(n+m) /\ n + b > n /\ (n + b) - n = b
      BY <1>1, <1>3, <2>2
    <3> QED
      BY <1>2, <2>2, <3>1
  <2> QED
    BY <2>1, <2>2
<1>8. PlacedBy(w, s, k + 1, at2, pos2)
  BY <1>1, <1>5, <1>6, <1>7 DEF PlacedBy
<1>9. w = u \o s[k+1]
  BY DEF w, v
<1> QED
  BY <1>8, <1>9 DEF Placed

(* The elements of FlattenSeq are those of the lists, list by list.         *)
LEMMA FlattenPlaced ==
    ASSUME NEW S, NEW n \in Nat, NEW s \in Lists(n, S)
    PROVE  Tree!FlattenSeq(s) \in Seq(S) /\ Placed(Tree!FlattenSeq(s), s, n)
<1>1. PICK f \in [0..n -> Seq(S)] : f[n] = Tree!FlattenSeq(s) /\ Joins(f, n, s)
  BY FlattenJoins
<1>2. f[0] = <<>> /\ \A i \in 1..n : f[i] = f[i-1] \o s[i]
  BY <1>1 DEF Joins
<1>3. \A i \in 1..n : s[i] \in Seq(S)
  BY DEF Lists
<1> DEFINE Bad == {k \in 0..n : ~Placed(f[k], s, k)}
<1>4. Placed(f[0], s, 0)
  <2>1. PlacedBy(<<>>, s, 0, <<>>, <<>>)
    BY DEF PlacedBy
  <2> QED
    BY <1>2, <2>1 DEF Placed
<1>5. Bad = {}
  <2> SUFFICES ASSUME Bad # {} PROVE FALSE
    OBVIOUS
  <2>1. PICK k \in Bad : \A j \in Bad : k <= j
    <3>1. Bad \in SUBSET Nat
      OBVIOUS
    <3> HIDE DEF Bad
    <3> QED
      BY <3>1, LeastNumber
  <2>2. k \in 0..n /\ k # 0 /\ ~Placed(f[k], s, k)
    BY <1>4
  <2> DEFINE j == k - 1
  <2>3. j \in Nat /\ j \in 0..n /\ k \in 1..n /\ j + 1 = k /\ ~(k <= j)
    BY <2>2
  <2>4. Placed(f[j], s, j)
    <3> HIDE DEF j
    <3> QED
      BY <2>1, <2>3
  <2>5. f[k] = f[j] \o s[k]
    BY <1>2, <2>3
  <2>6. f[j] \in Seq(S) /\ s[j + 1] \in Seq(S)
    BY <1>3, <2>3
  <2> HIDE DEF j
  <2>7. Placed(f[j] \o s[j+1], s, j + 1)
    BY <2>3, <2>4, <2>6, PlacedMore
  <2> QED
    BY <2>2, <2>3, <2>5, <2>7
<1>6. n \in 0..n
  OBVIOUS
<1> QED
  BY <1>1, <1>5, <1>6

(* Recursion of bounded depth: W has the values, len the ranks, and e is    *)
(* one step of the recursion for all arguments at once.                     *)
Depends(e, N, W, len) ==
    \A v, w \in [N -> W] : \A d \in N :
        (\A c \in N : len[c] > len[d] => v[c] = w[c]) => e[v][d] = e[w][d]
Ranked(N, W, m, len, e) ==
    /\ m \in Nat /\ len \in [N -> 0..m] /\ W # {}
    /\ e \in [[N -> W] -> [N -> W]] /\ Depends(e, N, W, len)

(* A recursive function exists if each value depends on those of higher     *)
(* rank only: the steps are iterated once for each rank, which needs no     *)
(* induction over data.                                                     *)
LEMMA RankedRecursion ==
    ASSUME NEW N, NEW W, NEW m, NEW len, NEW e, Ranked(N, W, m, len, e)
    PROVE  \E b \in [N -> W] : b = e[b]
<1> DEFINE V == [N -> W]
           n == m + 2
<1>0. m \in Nat /\ len \in [N -> 0..m] /\ W # {} /\ e \in [V -> V] /\ Depends(e, N, W, len)
  BY DEF Ranked
<1> USE <1>0
<1> DEFINE step == [i \in 1..n |-> e]
<1>1. PICK base \in V : TRUE
  <2>1. PICK x \in W : TRUE
    OBVIOUS
  <2>2. [d \in N |-> x] \in V
    BY <2>1
  <2> QED
    BY <2>2
<1>2. n \in Nat /\ step \in Steps(n, V)
  BY DEF Steps
<1>3. \A i \in 1..n : step[i] = e
  OBVIOUS
<1>4. \A v \in V : e[v] \in V
  OBVIOUS
<1>5. \A v, w \in V : v = w <=> \A d \in N : v[d] = w[d]
  OBVIOUS
<1>6. \A v, w \in V : \A d \in N : (\A c \in N : len[c] > len[d] => v[c] = w[c]) => e[v][d] = e[w][d]
  BY DEF Depends
<1> HIDE DEF step, V
<1>7. PICK f \in [0..n -> V] : Follows(f, n, base, step)
  BY <1>1, <1>2, RecursionExists
<1>8. \A i \in 1..n : f[i] = e[f[i-1]]
  BY <1>3, <1>7 DEF Follows
<1>9. \A i \in 0..(m + 1) : f[i] \in V /\ f[i+1] \in V /\ f[i+1] = e[f[i]]
  <2> TAKE i \in 0..(m + 1)
  <2>1. i \in 0..n /\ i + 1 \in 1..n /\ i + 1 \in 0..n /\ (i + 1) - 1 = i
    OBVIOUS
  <2> QED
    BY <1>8, <2>1
<1> HIDE DEF n
<1> DEFINE Same(k) == \A d \in N : len[d] > m - k => f[k][d] = f[k+1][d]
           Bad == {k \in 0..(m+1) : ~Same(k)}
<1>10. \A d \in N : len[d] \in 0..m
  OBVIOUS
<1>11. Same(0)
  BY <1>10
<1>12. ASSUME NEW k \in 0..m, Same(k) PROVE Same(k+1)
  <2> SUFFICES ASSUME NEW d \in N, len[d] > m - (k + 1) PROVE f[k+1][d] = f[(k+1)+1][d]
    OBVIOUS
  <2>1. \A c \in N : len[c] > len[d] => f[k][c] = f[k+1][c]
    <3> TAKE c \in N
    <3> HAVE len[c] > len[d]
    <3>1. len[c] > m - k
      BY <1>10
    <3> QED
      BY <1>12, <3>1
  <2>2. k \in 0..(m+1) /\ k + 1 \in 0..(m+1)
    OBVIOUS
  <2>3. f[k] \in V /\ f[k+1] \in V /\ f[(k+1)+1] \in V /\ f[k+1] = e[f[k]] /\ f[(k+1)+1] = e[f[k+1]]
    BY <1>9, <2>2
  <2>4. (\A c \in N : len[c] > len[d] => f[k][c] = f[k+1][c]) => e[f[k]][d] = e[f[k+1]][d]
    BY <1>6, <2>3
  <2> QED
    BY <2>1, <2>3, <2>4
<1>13. Bad = {}
  <2> SUFFICES ASSUME Bad # {} PROVE FALSE
    OBVIOUS
  <2>1. PICK k \in Bad : \A j \in Bad : k <= j
    <3>1. Bad \in SUBSET Nat
      OBVIOUS
    <3> HIDE DEF Bad
    <3> QED
      BY <3>1, LeastNumber
  <2>2. k \in 0..(m+1) /\ ~Same(k)
    OBVIOUS
  <2> HIDE DEF Same
  <2>3. k # 0
    BY <1>11, <2>2
  <2>4. k - 1 \in 0..m /\ k - 1 \in 0..(m+1) /\ ~(k <= k - 1) /\ (k - 1) + 1 = k
    BY <2>2, <2>3
  <2>5. Same(k - 1)
    BY <2>1, <2>4
  <2>6. Same((k - 1) + 1)
    BY <1>12, <2>4, <2>5
  <2> QED
    BY <2>2, <2>4, <2>6
<1>14. m + 1 \in 0..(m+1) /\ \A d \in N : len[d] > m - (m + 1)
  BY <1>10
<1>15. Same(m + 1)
  <2> HIDE DEF Same
  <2> QED
    BY <1>13, <1>14
<1>16. f[m+1] \in V /\ f[(m+1)+1] \in V /\ f[(m+1)+1] = e[f[m+1]]
  BY <1>9, <1>14
<1>17. f[m+1] = f[(m+1)+1]
  BY <1>5, <1>14, <1>15, <1>16
<1> QED
  BY <1>16, <1>17 DEF V

(* The lists of a set that have each of its elements once.                  *)
LEMMA ListsOfSet ==
    ASSUME NEW S, NEW s
    PROVE  s \in Tree!SetToSeqs(S) <=>
             /\ s \in [1..Cardinality(S) -> S]
             /\ \A i, j \in 1..Cardinality(S) : i # j => s[i] # s[j]
<1>1. Tree!Cardinality(S) = Cardinality(S)
  BY DEF Tree!Cardinality, Cardinality
<1>2. s \in Tree!SetToSeqs(S) <=>
        s \in {f \in [1..Cardinality(S) -> S] : \A i, j \in 1..Cardinality(S) : i # j => f[i] # f[j]}
  BY <1>1, Zenon DEF Tree!SetToSeqs
<1> DEFINE n == Cardinality(S)
<1> HIDE DEF n
<1>3. s \in {f \in [1..n -> S] : \A i, j \in 1..n : i # j => f[i] # f[j]} <=>
        s \in [1..n -> S] /\ \A i, j \in 1..n : i # j => s[i] # s[j]
  OBVIOUS
<1> QED
  BY <1>2, <1>3 DEF n

(* R is a strict linear order of S; s lists its elements in that order.     *)
LinearOn(R, S) ==
    /\ \A x \in S : <<x, x>> \notin R
    /\ \A x, y \in S : x # y => <<x, y>> \in R \/ <<y, x>> \in R
    /\ \A x, y, z \in S : <<x, y>> \in R /\ <<y, z>> \in R => <<x, z>> \in R
SortedBy(s, R) == \A i, j \in DOMAIN s : i < j => <<s[i], s[j]>> \in R

(* An element's place is the number of those that are before it.            *)
LEMMA SortedThereIs ==
    ASSUME NEW S, IsFiniteSet(S), NEW R, LinearOn(R, S)
    PROVE  \E s \in Tree!SetToSeqs(S) : SortedBy(s, R)
<1> DEFINE n == Cardinality(S)
           Low(x) == {y \in S : <<y, x>> \in R}
           place == [x \in S |-> Cardinality(Low(x)) + 1]
<1>0. n \in Nat
  BY FS_CardinalityType
<1>1. ASSUME NEW x \in S
      PROVE  IsFiniteSet(Low(x)) /\ Cardinality(Low(x)) \in Nat /\ Cardinality(Low(x)) < n
  <2>1. Low(x) \in SUBSET S /\ x \notin Low(x)
    BY DEF LinearOn
  <2> HIDE DEF Low
  <2>2. IsFiniteSet(Low(x)) /\ Cardinality(Low(x)) <= n /\ Cardinality(Low(x)) # n
    BY <2>1, FS_Subset
  <2>3. Cardinality(Low(x)) \in Nat
    BY <2>2, FS_CardinalityType
  <2> QED
    BY <1>0, <2>2, <2>3
<1>2. ASSUME NEW x \in S, NEW y \in S, <<x, y>> \in R
      PROVE  Cardinality(Low(x)) < Cardinality(Low(y))
  <2>1. Low(x) \in SUBSET Low(y) /\ x \notin Low(x) /\ x \in Low(y)
    BY <1>2 DEF LinearOn
  <2>2. IsFiniteSet(Low(y)) /\ Cardinality(Low(y)) \in Nat /\ Cardinality(Low(x)) \in Nat
    BY <1>1
  <2> HIDE DEF Low
  <2>3. Cardinality(Low(x)) <= Cardinality(Low(y)) /\ Cardinality(Low(y)) # Cardinality(Low(x))
    BY <2>1, <2>2, FS_Subset
  <2> QED
    BY <2>2, <2>3
<1> HIDE DEF Low
<1>3. /\ \A x \in S : place[x] \in 1..n
      /\ \A x, y \in S : <<x, y>> \in R => place[x] < place[y]
  BY <1>0, <1>1, <1>2
<1>4. place \in [S -> 1..n]
  BY <1>0, <1>1
<1>5. \A x, y \in S : place[x] = place[y] => x = y
  <2> SUFFICES ASSUME NEW x \in S, NEW y \in S, place[x] = place[y], x # y PROVE FALSE
    OBVIOUS
  <2> HIDE DEF place
  <2>1. <<x, y>> \in R \/ <<y, x>> \in R
    BY DEF LinearOn
  <2>2. place[x] < place[y] \/ place[y] < place[x]
    BY <1>3, <2>1
  <2> QED
    BY <1>3, <2>2
<1> HIDE DEF place
<1>6. place \in Injection(S, 1..n)
  BY <1>4, <1>5, Fun_IsInj
<1>7. IsFiniteSet(1..n) /\ Cardinality(1..n) = n
  BY <1>0, FS_Interval
<1>8. \A i \in 1..n : \E x \in S : place[x] = i
  <2>1. place \in Surjection(S, 1..n)
    BY <1>6, <1>7, FS_Injection
  <2> QED
    BY <2>1, Fun_SurjectionProperties
<1> DEFINE s == [i \in 1..n |-> CHOOSE x \in S : place[x] = i]
<1>9. \A i \in 1..n : s[i] \in S /\ place[s[i]] = i
  BY <1>8
<1>10. s \in [1..n -> S] /\ DOMAIN s = 1..n
  BY <1>8
<1> HIDE DEF s, n
<1>11. \A i, j \in 1..n : i # j => s[i] # s[j]
  BY <1>9
<1>12. \A i, j \in 1..n : i < j => <<s[i], s[j]>> \in R
  <2> SUFFICES ASSUME NEW i \in 1..n, NEW j \in 1..n, i < j PROVE <<s[i], s[j]>> \in R
    OBVIOUS
  <2>1. s[i] # s[j] /\ s[i] \in S /\ s[j] \in S /\ place[s[i]] = i /\ place[s[j]] = j
    BY <1>9, <1>11, <1>0
  <2>2. CASE <<s[j], s[i]>> \in R
    <3>1. place[s[j]] < place[s[i]]
      BY <1>3, <2>1, <2>2
    <3> QED
      BY <1>0, <2>1, <3>1
  <2>3. <<s[i], s[j]>> \in R \/ <<s[j], s[i]>> \in R
    BY <2>1 DEF LinearOn
  <2> QED
    BY <2>2, <2>3
<1>13. s \in Tree!SetToSeqs(S)
  BY <1>10, <1>11, ListsOfSet DEF n
<1> QED
  BY <1>10, <1>12, <1>13 DEF SortedBy

(* A set in a list has each of its elements there.                          *)
LEMMA ListedOnce ==
    ASSUME NEW S, IsFiniteSet(S), NEW s \in Tree!SetToSeqs(S)
    PROVE  /\ Cardinality(S) \in Nat /\ s \in [1..Cardinality(S) -> S]
           /\ \A i, j \in 1..Cardinality(S) : i # j => s[i] # s[j]
           /\ \A x \in S : \E i \in 1..Cardinality(S) : s[i] = x
<1> DEFINE n == Cardinality(S)
<1>1. n \in Nat
  BY FS_CardinalityType
<1>2. s \in [1..n -> S] /\ \A i, j \in 1..n : i # j => s[i] # s[j]
  BY ListsOfSet
<1>3. s \in Injection(1..n, S)
  BY <1>2, Fun_IsInj
<1>4. IsFiniteSet(1..n) /\ Cardinality(1..n) = n
  BY <1>1, FS_Interval
<1>5. s \in Surjection(1..n, S)
  BY <1>3, <1>4, FS_Injection
<1> HIDE DEF n
<1> DEFINE D == 1..n
<1> HIDE DEF D
<1>6. s \in Surjection(D, S)
  BY <1>5 DEF D
<1>7. \A x \in S : \E i \in D : s[i] = x
  BY <1>6, Fun_SurjectionProperties
<1> QED
  BY <1>1, <1>2, <1>7 DEF n, D

(* The nodes of a tree have all those on the way to them.                   *)
Closed(T) ==
    /\ IsFiniteSet(T.nodes)
    /\ \A x \in T.nodes : /\ x \in Seq(Int) /\ x # <<>>
                          /\ \A l \in 1..Len(x) : SubSeq(x, 1, l) \in T.nodes

(* The children of a node are one name longer and begin with its path.      *)
LEMMA ChildMeans ==
    ASSUME NEW T, Closed(T), NEW d \in Seq(Int)
    PROVE  /\ IsFiniteSet(Tree!Children(T, d))
           /\ Tree!Children(T, d) = {c \in T.nodes : Len(c) = Len(d) + 1 /\ \A j \in 1..Len(d) : d[j] = c[j]}
<1>1. \A c \in T.nodes : c \in Seq(Int)
  BY DEF Closed
<1>2. \A c \in T.nodes : Tree!ProperPrefix(d, c) <=> Len(d) < Len(c) /\ \A j \in 1..Len(d) : d[j] = c[j]
  BY <1>1, PrefixMeans
<1>3. Len(d) \in Nat /\ \A c \in T.nodes : Len(c) = Len(d) + 1 => Len(d) < Len(c)
  BY <1>1
<1>4. Tree!Children(T, d) \in SUBSET T.nodes
  BY DEF Tree!Children
<1>5. IsFiniteSet(Tree!Children(T, d))
  BY <1>4, FS_Subset DEF Closed
<1> QED
  BY <1>2, <1>3, <1>5 DEF Tree!Children

(* sortNodes: directories first, then by name, is a strict linear order of  *)
(* the children of one node, as the names of siblings differ.               *)
LEMMA SiblingsLinear ==
    ASSUME NEW T, Closed(T), NEW d \in Seq(Int)
    PROVE  LinearOn({r \in Tree!Children(T, d) \X Tree!Children(T, d) : Tree!Before(T, r[1], r[2])}, Tree!Children(T, d))
<1> DEFINE C == Tree!Children(T, d)
           R == {r \in C \X C : Tree!Before(T, r[1], r[2])}
<1>1. \A a, b \in C : <<a, b>> \in R <=> Tree!Before(T, a, b)
  OBVIOUS
<1>2. \A a \in C : Tree!isDirectory(T, a) \in BOOLEAN
  BY DEF Tree!isDirectory
<1>3. \A a \in C : a \in Seq(Int) /\ Len(a) = Len(d) + 1 /\ Tree!Last(a) = a[Len(d) + 1] /\ Tree!Last(a) \in Int
  <2> TAKE a \in C
  <2>1. a \in Seq(Int) /\ Len(a) = Len(d) + 1 /\ Len(d) \in Nat
    BY ChildMeans DEF Closed
  <2> QED
    BY <2>1 DEF Tree!Last
<1>4. \A a, b \in C : Tree!Last(a) = Tree!Last(b) => a = b
  <2> SUFFICES ASSUME NEW a \in C, NEW b \in C, Tree!Last(a) = Tree!Last(b) PROVE a = b
    OBVIOUS
  <2>1. \A j \in 1..Len(d) : a[j] = d[j] /\ b[j] = d[j]
    BY ChildMeans
  <2>2. /\ Len(d) \in Nat /\ Len(a) = Len(d) + 1 /\ Len(b) = Len(d) + 1
        /\ a[Len(d) + 1] = b[Len(d) + 1]
    BY <1>3
  <2>3. \A j \in 1..Len(a) : a[j] = b[j]
    BY <2>1, <2>2
  <2> QED
    BY <1>3, <2>2, <2>3, SeqEqual
<1>5. \A a, b \in C : Tree!Before(T, a, b) <=>
        \/ Tree!isDirectory(T, a) /\ ~Tree!isDirectory(T, b)
        \/ (Tree!isDirectory(T, a) <=> Tree!isDirectory(T, b)) /\ Tree!Last(a) < Tree!Last(b)
  BY <1>2 DEF Tree!Before
<1> HIDE DEF C, R
<1>6. \A a \in C : ~Tree!Before(T, a, a)
  BY <1>3, <1>5
<1>7. \A a, b \in C : a # b => Tree!Before(T, a, b) \/ Tree!Before(T, b, a)
  <2> SUFFICES ASSUME NEW a \in C, NEW b \in C, a # b PROVE Tree!Before(T, a, b) \/ Tree!Before(T, b, a)
    OBVIOUS
  <2>1. Tree!Last(a) \in Int /\ Tree!Last(b) \in Int /\ Tree!Last(a) # Tree!Last(b)
    BY <1>3, <1>4
  <2>2. Tree!Last(a) < Tree!Last(b) \/ Tree!Last(b) < Tree!Last(a)
    BY <2>1
  <2> QED
    BY <1>5, <2>2
<1>8. \A a, b, c \in C : Tree!Before(T, a, b) /\ Tree!Before(T, b, c) => Tree!Before(T, a, c)
  <2> SUFFICES ASSUME NEW a \in C, NEW b \in C, NEW c \in C, Tree!Before(T, a, b), Tree!Before(T, b, c)
               PROVE  Tree!Before(T, a, c)
    OBVIOUS
  <2>1. Tree!Last(a) < Tree!Last(b) /\ Tree!Last(b) < Tree!Last(c) => Tree!Last(a) < Tree!Last(c)
    BY <1>3
  <2> QED
    BY <1>5, <2>1
<1> QED
  BY <1>1, <1>6, <1>7, <1>8 DEF LinearOn, C, R

(* The children of a node, in order.                                        *)
LEMMA SortedChildren ==
    ASSUME NEW T, Closed(T), NEW d \in Seq(Int), NEW C, C = Tree!Children(T, d)
    PROVE  LET s == Tree!sortNodes(T, C) IN
           /\ Cardinality(C) \in Nat /\ s \in [1..Cardinality(C) -> C]
           /\ \A i, j \in 1..Cardinality(C) : i # j => s[i] # s[j]
           /\ \A x \in C : \E i \in 1..Cardinality(C) : s[i] = x
           /\ \A i, j \in 1..Cardinality(C) : i < j => Tree!Before(T, s[i], s[j])
<1> DEFINE R == {r \in C \X C : Tree!Before(T, r[1], r[2])}
           s == Tree!sortNodes(T, C)
           Sorted(t) == \A i, j \in DOMAIN t : i < j => Tree!Before(T, t[i], t[j])
<1>1. \A a, b \in C : <<a, b>> \in R <=> Tree!Before(T, a, b)
  OBVIOUS
<1>2. IsFiniteSet(C) /\ LinearOn(R, C)
  BY ChildMeans, SiblingsLinear
<1> HIDE DEF R
<1>3. PICK t \in Tree!SetToSeqs(C) : SortedBy(t, R)
  BY <1>2, SortedThereIs
<1>4. Cardinality(C) \in Nat /\ t \in [1..Cardinality(C) -> C]
  BY <1>2, ListedOnce
<1>5. Sorted(t)
  BY <1>1, <1>3, <1>4 DEF SortedBy
<1>6. s \in Tree!SetToSeqs(C) /\ Sorted(s)
  BY <1>5 DEF Tree!sortNodes
<1> HIDE DEF s
<1>7. /\ s \in [1..Cardinality(C) -> C]
      /\ \A i, j \in 1..Cardinality(C) : i # j => s[i] # s[j]
      /\ \A x \in C : \E i \in 1..Cardinality(C) : s[i] = x
  BY <1>2, <1>6, ListedOnce
<1>8. DOMAIN s = 1..Cardinality(C)
  BY <1>7
<1>9. \A i, j \in 1..Cardinality(C) : i < j => Tree!Before(T, s[i], s[j])
  BY <1>6, <1>8
<1> QED
  BY <1>4, <1>7, <1>9 DEF s

(* What the rows below a directory are to be.                               *)
Opened(T, op, m) == Tree!isDirectory(T, m) /\ m \in op
VisibleBelow(T, op, d) ==
    {x \in T.nodes : Tree!ProperPrefix(d, x) /\
        \A m \in T.nodes : Tree!ProperPrefix(d, m) /\ Tree!ProperPrefix(m, x) => Opened(T, op, m)}
Alike(a, b) == Len(a) = Len(b) /\ \A j \in 1..(Len(a) - 1) : a[j] = b[j]
Ahead(T, a, b) == Tree!ProperPrefix(a, b) \/ (Alike(a, b) /\ Tree!Before(T, a, b))
InOrder(T, r) ==
    /\ r \in Seq(T.nodes)
    /\ \A i, j \in 1..Len(r) : i # j => r[i] # r[j]
    /\ \A i, j \in 1..Len(r) : Ahead(T, r[i], r[j]) => i < j
Occurs(x, r) == \E i \in 1..Len(r) : r[i] = x
Shows(T, op, d, r) ==
    /\ InOrder(T, r)
    /\ \A x \in T.nodes : Occurs(x, r) <=> x \in VisibleBelow(T, op, d)
RowOf(T, op, c, w) ==
    /\ InOrder(T, w)
    /\ \A x \in T.nodes : Occurs(x, w) <=> x = c \/ (Opened(T, op, c) /\ x \in VisibleBelow(T, op, c))

(* A node that is to come before another is not deeper, and has the same    *)
(* names but for its last.                                                  *)
LEMMA AheadMeans ==
    ASSUME NEW T, Closed(T), NEW a \in T.nodes, NEW b \in T.nodes
    PROVE  /\ a \in Seq(Int) /\ b \in Seq(Int) /\ Len(a) \in Nat /\ Len(b) \in Nat /\ Len(a) > 0
           /\ Tree!ProperPrefix(a, b) <=> Len(a) < Len(b) /\ \A j \in 1..Len(a) : a[j] = b[j]
           /\ Ahead(T, a, b) => Len(a) <= Len(b) /\ \A j \in 1..(Len(a) - 1) : a[j] = b[j]
<1>1. a \in Seq(Int) /\ b \in Seq(Int) /\ Len(a) \in Nat /\ Len(b) \in Nat /\ a # <<>>
  BY DEF Closed
<1>2. Len(a) > 0
  BY <1>1
<1>3. Tree!ProperPrefix(a, b) <=> Len(a) < Len(b) /\ \A j \in 1..Len(a) : a[j] = b[j]
  BY <1>1, PrefixMeans
<1>4. ASSUME Ahead(T, a, b) PROVE Len(a) <= Len(b) /\ \A j \in 1..(Len(a) - 1) : a[j] = b[j]
  <2>1. CASE Tree!ProperPrefix(a, b)
    BY <1>1, <1>3, <2>1
  <2>2. CASE Alike(a, b)
    BY <1>1, <2>2 DEF Alike
  <2> QED
    BY <1>4, <2>1, <2>2 DEF Ahead
<1> QED
  BY <1>1, <1>2, <1>3, <1>4

(* The row of a node, with the rows below it if it is opened.               *)
LEMMA RowIs ==
    ASSUME NEW T, Closed(T), NEW op, NEW c \in T.nodes, NEW r,
           Opened(T, op, c) => Shows(T, op, c, r), ~Opened(T, op, c) => r = <<>>
    PROVE  RowOf(T, op, c, <<c>> \o r)
<1> DEFINE w == <<c>> \o r
<1>1. r \in Seq(T.nodes) /\ InOrder(T, r)
  <2>1. CASE Opened(T, op, c)
    BY <2>1 DEF Shows, InOrder
  <2>2. CASE ~Opened(T, op, c)
    <3>1. r = <<>>
      BY <2>2
    <3> QED
      BY <3>1 DEF InOrder
  <2> QED
    BY <2>1, <2>2
<1>2. \A i \in 1..Len(r) : r[i] \in T.nodes /\ Opened(T, op, c) /\ Tree!ProperPrefix(c, r[i])
  <2> TAKE i \in 1..Len(r)
  <2>1. r[i] \in T.nodes
    BY <1>1
  <2>2. Opened(T, op, c)
    <3> SUFFICES ASSUME r = <<>> PROVE FALSE
      OBVIOUS
    <3> QED
      OBVIOUS
  <2>3. r[i] \in VisibleBelow(T, op, c)
    BY <2>1, <2>2 DEF Shows, Occurs
  <2> QED
    BY <2>1, <2>2, <2>3 DEF VisibleBelow
<1>3. /\ w \in Seq(T.nodes) /\ Len(w) = Len(r) + 1 /\ Len(r) \in Nat /\ w[1] = c
      /\ \A i \in 2..Len(w) : w[i] = r[i - 1] /\ i - 1 \in 1..Len(r)
  <2> DEFINE N == T.nodes
  <2>1. c \in N /\ r \in Seq(N)
    BY <1>1
  <2> HIDE DEF N
  <2>2. w \in Seq(N) /\ Len(w) = Len(r) + 1 /\ Len(r) \in Nat /\ w[1] = c
    BY <2>1
  <2>3. \A i \in 2..Len(w) : w[i] = r[i - 1] /\ i - 1 \in 1..Len(r)
    BY <2>1, <2>2
  <2> QED
    BY <2>2, <2>3 DEF N
<1>4. \A i \in 1..Len(w) : i = 1 \/ i \in 2..Len(w)
  BY <1>3
<1>5. Len(c) \in Nat /\ \A i \in 2..Len(w) : Len(w[i]) \in Nat /\ Len(w[i]) > Len(c) /\ w[i] \in T.nodes
  BY <1>2, <1>3, AheadMeans
<1>6. /\ \A i, j \in 1..Len(r) : i # j => r[i] # r[j]
      /\ \A i, j \in 1..Len(r) : Ahead(T, r[i], r[j]) => i < j
  BY <1>1 DEF InOrder
<1> HIDE DEF w
<1>7. \A i, j \in 1..Len(w) : i # j => w[i] # w[j]
  <2> SUFFICES ASSUME NEW i \in 1..Len(w), NEW j \in 1..Len(w), i # j, w[i] = w[j] PROVE FALSE
    OBVIOUS
  <2>1. CASE i = 1 /\ j = 1
    BY <2>1
  <2>2. CASE i = 1 /\ j \in 2..Len(w)
    BY <1>3, <1>5, <2>2
  <2>3. CASE i \in 2..Len(w) /\ j = 1
    BY <1>3, <1>5, <2>3
  <2>4. CASE i \in 2..Len(w) /\ j \in 2..Len(w)
    <3>1. w[i] = r[i-1] /\ w[j] = r[j-1] /\ i - 1 \in 1..Len(r) /\ j - 1 \in 1..Len(r) /\ i - 1 # j - 1
      BY <1>3, <2>4
    <3> QED
      BY <1>6, <3>1
  <2> QED
    BY <1>4, <2>1, <2>2, <2>3, <2>4
<1>8. \A i, j \in 1..Len(w) : Ahead(T, w[i], w[j]) => i < j
  <2> SUFFICES ASSUME NEW i \in 1..Len(w), NEW j \in 1..Len(w), Ahead(T, w[i], w[j]) PROVE i < j
    OBVIOUS
  <2>1. CASE j \in 2..Len(w) /\ i = 1
    BY <1>3, <2>1
  <2>2. CASE j = 1 /\ i \in 2..Len(w)
    <3>1. Len(w[i]) <= Len(w[1])
      BY <1>3, <1>5, <2>2, AheadMeans
    <3> QED
      BY <1>3, <1>5, <2>2, <3>1
  <2>3. CASE i \in 2..Len(w) /\ j \in 2..Len(w)
    <3>1. w[i] = r[i-1] /\ w[j] = r[j-1] /\ i - 1 \in 1..Len(r) /\ j - 1 \in 1..Len(r)
      BY <1>3, <2>3
    <3>2. i - 1 < j - 1
      BY <1>6, <3>1
    <3> QED
      BY <3>2
  <2>4. CASE i = 1 /\ j = 1
    <3>1. Ahead(T, c, c)
      BY <1>3, <2>4
    <3>2. ~Tree!ProperPrefix(c, c)
      BY AheadMeans
    <3>3. Tree!Before(T, c, c)
      BY <3>1, <3>2 DEF Ahead
    <3>4. Tree!Last(c) < Tree!Last(c)
      BY <3>3 DEF Tree!Before
    <3>5. Tree!Last(c) \in Int
      <4>1. c \in Seq(Int) /\ Len(c) > 0
        BY AheadMeans
      <4> QED
        BY <4>1 DEF Tree!Last
    <3> QED
      BY <3>4, <3>5
  <2> QED
    BY <1>4, <2>1, <2>2, <2>3, <2>4
<1>9. \A x \in T.nodes : Occurs(x, w) <=> x = c \/ (Opened(T, op, c) /\ x \in VisibleBelow(T, op, c))
  <2> TAKE x \in T.nodes
  <2>1. Occurs(x, w) <=> x = c \/ Occurs(x, r)
    <3>1. ASSUME NEW i \in 1..Len(r) PROVE i + 1 \in 1..Len(w) /\ w[i+1] = r[i]
      <4>1. i + 1 \in 2..Len(w) /\ i + 1 \in 1..Len(w) /\ (i + 1) - 1 = i
        BY <1>3
      <4> QED
        BY <1>3, <4>1
    <3>2. 1 \in 1..Len(w)
      BY <1>3
    <3> QED
      BY <1>3, <1>4, <3>1, <3>2 DEF Occurs
  <2>2. CASE Opened(T, op, c)
    BY <2>1, <2>2 DEF Shows
  <2>3. CASE ~Opened(T, op, c)
    <3>1. ~Occurs(x, r)
      BY <1>2, <2>3 DEF Occurs
    <3> QED
      BY <2>1, <2>3, <3>1
  <2> QED
    BY <2>2, <2>3
<1>10. InOrder(T, w)
  BY <1>3, <1>7, <1>8 DEF InOrder
<1> QED
  BY <1>9, <1>10 DEF RowOf, w

(* The rows of the children of a node, one child after another.             *)
LEMMA LevelShows ==
    ASSUME NEW T, Closed(T), NEW op, NEW d \in Seq(Int), NEW n \in Nat,
           NEW s \in [1..n -> Tree!Children(T, d)],
           \A i, j \in 1..n : i # j => s[i] # s[j],
           \A x \in Tree!Children(T, d) : \E i \in 1..n : s[i] = x,
           \A i, j \in 1..n : i < j => Tree!Before(T, s[i], s[j]),
           NEW F \in Lists(n, T.nodes), \A i \in 1..n : RowOf(T, op, s[i], F[i])
    PROVE  Shows(T, op, d, Tree!FlattenSeq(F))
<1> DEFINE k == Len(d)
           C == Tree!Children(T, d)
           flat == Tree!FlattenSeq(F)
           R == {r \in C \X C : Tree!Before(T, r[1], r[2])}
<1>1. flat \in Seq(T.nodes) /\ Placed(flat, F, n)
  BY FlattenPlaced
<1>2. PICK at, pos : PlacedBy(flat, F, n, at, pos)
  BY <1>1 DEF Placed
<1>3. /\ \A p \in 1..Len(flat) : /\ at[p] \in 1..n /\ pos[p] \in 1..Len(F[at[p]])
                                 /\ flat[p] = F[at[p]][pos[p]]
      /\ \A p, q \in 1..Len(flat) : p < q => at[p] < at[q] \/ (at[p] = at[q] /\ pos[p] < pos[q])
      /\ \A a \in 1..n : \A b \in 1..Len(F[a]) : \E p \in 1..Len(flat) : at[p] = a /\ pos[p] = b
  BY <1>2 DEF PlacedBy
<1>4. k \in Nat /\ Len(flat) \in Nat /\ \A p \in 1..Len(flat) : flat[p] \in T.nodes
  BY <1>1
<1> HIDE DEF flat
<1>0. \A j \in 1..k : j \in 1..(k+1)
  BY <1>4
<1>5. \A i \in 1..n : /\ s[i] \in C /\ s[i] \in T.nodes /\ s[i] \in Seq(Int)
                      /\ Len(s[i]) = k + 1 /\ \A j \in 1..k : d[j] = s[i][j]
  BY ChildMeans DEF Closed
<1>6. LinearOn(R, C) /\ \A a, b \in C : <<a, b>> \in R <=> Tree!Before(T, a, b)
  BY SiblingsLinear
<1> HIDE DEF R, C
<1>7. \A i \in 1..n : InOrder(T, F[i])
  BY DEF RowOf
<1>8. ASSUME NEW i \in 1..n, NEW x \in T.nodes, Occurs(x, F[i])
      PROVE  Len(x) >= k + 1 /\ (\A j \in 1..(k+1) : s[i][j] = x[j]) /\ Tree!ProperPrefix(d, x)
  <2> DEFINE c == s[i]
  <2>1. c \in T.nodes /\ c \in Seq(Int) /\ Len(c) = k + 1 /\ \A j \in 1..k : d[j] = c[j]
    BY <1>5
  <2>2. x = c \/ Tree!ProperPrefix(c, x)
    BY <1>5, <1>8 DEF RowOf, VisibleBelow
  <2> HIDE DEF c
  <2>3. x \in Seq(Int) /\ Len(x) \in Nat
    BY AheadMeans
  <2>4. Tree!ProperPrefix(c, x) <=> Len(c) < Len(x) /\ \A j \in 1..Len(c) : c[j] = x[j]
    BY <2>1, <2>3, PrefixMeans
  <2>5. Len(x) >= k + 1 /\ (\A j \in 1..(k+1) : c[j] = x[j])
    <3>1. CASE x = c
      BY <1>4, <2>1, <3>1
    <3>2. CASE Tree!ProperPrefix(c, x)
      BY <1>4, <2>1, <2>3, <2>4, <3>2
    <3> QED
      BY <2>2, <3>1, <3>2
  <2>6. \A j \in 1..k : j \in 1..(k+1) /\ d[j] = x[j]
    BY <1>4, <2>1, <2>5
  <2>7. k < Len(x) /\ \A j \in 1..k : d[j] = x[j]
    BY <1>4, <2>3, <2>5, <2>6
  <2>8. Tree!ProperPrefix(d, x)
    BY <2>3, <2>7, PrefixMeans
  <2> QED
    BY <2>5, <2>8 DEF c
<1>9. ASSUME NEW i \in 1..n, NEW j \in 1..n, \A l \in 1..(k+1) : s[i][l] = s[j][l]
      PROVE  i = j
  <2>1. s[i] = s[j]
    BY <1>4, <1>5, <1>9, SeqEqual
  <2> QED
    BY <2>1
<1>10. \A p \in 1..Len(flat) : Occurs(flat[p], F[at[p]])
  BY <1>3 DEF Occurs
<1>11. ASSUME NEW p \in 1..Len(flat), NEW q \in 1..Len(flat), p # q, flat[p] = flat[q]
       PROVE  FALSE
  <2> DEFINE x == flat[p]
  <2>1. x \in T.nodes /\ at[p] \in 1..n /\ at[q] \in 1..n /\ Occurs(x, F[at[p]]) /\ Occurs(x, F[at[q]])
    BY <1>3, <1>4, <1>10, <1>11
  <2>2. \A l \in 1..(k+1) : s[at[p]][l] = x[l] /\ s[at[q]][l] = x[l]
    <3> HIDE DEF x
    <3> QED
      BY <1>8, <2>1
  <2>3. at[p] = at[q]
    <3>1. \A l \in 1..(k+1) : s[at[p]][l] = s[at[q]][l]
      BY <2>2
    <3> HIDE DEF k
    <3> QED
      BY <1>9, <2>1, <3>1
  <2>4. pos[p] # pos[q]
    <3>1. p < q \/ q < p
      BY <1>4, <1>11
    <3>2. pos[p] < pos[q] \/ pos[q] < pos[p]
      BY <1>3, <2>1, <2>3, <3>1
    <3>3. pos[p] \in 1..Len(F[at[p]]) /\ pos[q] \in 1..Len(F[at[q]])
      BY <1>3
    <3>4. pos[p] \in Int /\ pos[q] \in Int
      BY <3>3
    <3> QED
      BY <3>2, <3>4
  <2>5. pos[p] \in 1..Len(F[at[p]]) /\ pos[q] \in 1..Len(F[at[p]]) /\ F[at[p]][pos[p]] = F[at[p]][pos[q]]
    BY <1>3, <1>11, <2>3
  <2> QED
    BY <1>7, <2>1, <2>4, <2>5 DEF InOrder
<1>12. ASSUME NEW p \in 1..Len(flat), NEW q \in 1..Len(flat), Ahead(T, flat[p], flat[q])
       PROVE  p < q
  <2> DEFINE x == flat[p]
             y == flat[q]
             a == at[p]
             b == at[q]
  <2>1. /\ x \in T.nodes /\ y \in T.nodes /\ a \in 1..n /\ b \in 1..n
        /\ Occurs(x, F[a]) /\ Occurs(y, F[b])
    BY <1>3, <1>4, <1>10
  <2>2. /\ pos[p] \in 1..Len(F[a]) /\ pos[q] \in 1..Len(F[b])
        /\ x = F[a][pos[p]] /\ y = F[b][pos[q]]
    BY <1>3
  <2>3. q < p => b < a \/ (b = a /\ pos[q] < pos[p])
    BY <1>3
  <2>4. Ahead(T, x, y)
    BY <1>12
  <2>5. p = q => x = y
    OBVIOUS
  <2> HIDE DEF x, y, a, b
  <2>6. a <= b
    <3> SUFFICES ASSUME a # b PROVE a < b
      BY <2>1
    <3>1. /\ Len(x) >= k + 1 /\ Len(y) >= k + 1 /\ Len(x) \in Nat /\ Len(y) \in Nat
          /\ \A l \in 1..(k+1) : s[a][l] = x[l] /\ s[b][l] = y[l]
      BY <1>8, <2>1, AheadMeans
    <3>2. ~(\A l \in 1..(k+1) : x[l] = y[l])
      BY <1>9, <2>1, <3>1
    <3>3. Len(x) <= Len(y) /\ \A l \in 1..(Len(x) - 1) : x[l] = y[l]
      BY <2>1, <2>4, AheadMeans
    <3>4. Len(x) = k + 1
      <4>1. CASE Len(x) - 1 >= k + 1
        BY <1>4, <3>1, <3>2, <3>3, <4>1
      <4> QED
        BY <1>4, <3>1, <4>1
    <3>5. ~Tree!ProperPrefix(x, y)
      BY <2>1, <3>2, <3>4, AheadMeans
    <3>6. Alike(x, y) /\ Tree!Before(T, x, y)
      BY <2>4, <3>5 DEF Ahead
    <3>7. Len(y) = k + 1
      BY <3>4, <3>6 DEF Alike
    <3>8. x = s[a] /\ y = s[b]
      <4>1. x \in Seq(Int) /\ y \in Seq(Int)
        BY <2>1, AheadMeans
      <4>2. /\ s[a] \in Seq(Int) /\ Len(s[a]) = k + 1 /\ s[b] \in Seq(Int) /\ Len(s[b]) = k + 1
        BY <1>5, <2>1
      <4>3. \A l \in 1..Len(x) : x[l] = s[a][l]
        BY <3>1, <3>4
      <4>4. \A l \in 1..Len(y) : y[l] = s[b][l]
        BY <3>1, <3>7
      <4>5. x = s[a]
        BY <3>4, <4>1, <4>2, <4>3, SeqEqual, SMTT(20)
      <4>6. y = s[b]
        BY <3>7, <4>1, <4>2, <4>4, SeqEqual, SMTT(20)
      <4> QED
        BY <4>5, <4>6
    <3>9. <<s[a], s[b]>> \in R /\ s[a] \in C /\ s[b] \in C
      BY <1>5, <1>6, <2>1, <3>6, <3>8
    <3>10. CASE b < a
      <4>1. <<s[b], s[a]>> \in R
        BY <1>6, <2>1, <3>9, <3>10
      <4>2. <<s[a], s[a]>> \in R
        BY <1>6, <3>9, <4>1 DEF LinearOn
      <4> QED
        BY <1>6, <3>9, <4>2 DEF LinearOn
    <3> QED
      BY <2>1, <3>10
  <2>7. a = b => pos[p] < pos[q]
    BY <1>7, <2>1, <2>2, <2>4 DEF InOrder
  <2>8. ~(q < p)
    <3>1. pos[p] \in Nat /\ pos[q] \in Nat /\ a \in Nat /\ b \in Nat
      BY <2>1, <2>2
    <3> QED
      BY <2>3, <2>6, <2>7, <3>1
  <2>9. p # q
    <3> SUFFICES ASSUME p = q PROVE FALSE
      OBVIOUS
    <3>1. a = b /\ pos[p] = pos[q]
      BY DEF a, b
    <3>2. pos[p] \in Nat
      BY <2>2
    <3> QED
      BY <2>7, <3>1, <3>2
  <2> QED
    BY <1>4, <2>8, <2>9
<1>13. InOrder(T, flat)
  BY <1>1, <1>11, <1>12 DEF InOrder, flat
<1>14. \A x \in T.nodes : Occurs(x, flat) <=> \E i \in 1..n : Occurs(x, F[i])
  <2> TAKE x \in T.nodes
  <2>1. ASSUME NEW i \in 1..n, Occurs(x, F[i]) PROVE Occurs(x, flat)
    <3>1. PICK b \in 1..Len(F[i]) : F[i][b] = x
      BY <2>1 DEF Occurs
    <3>2. PICK p \in 1..Len(flat) : at[p] = i /\ pos[p] = b
      BY <1>3
    <3> QED
      BY <1>3, <3>1, <3>2 DEF Occurs
  <2>2. ASSUME Occurs(x, flat) PROVE \E i \in 1..n : Occurs(x, F[i])
    <3>1. PICK p \in 1..Len(flat) : flat[p] = x
      BY <2>2 DEF Occurs
    <3> QED
      BY <1>3, <1>10, <3>1
  <2> QED
    BY <2>1, <2>2
<1>15. ASSUME NEW i \in 1..n, NEW x \in T.nodes, Occurs(x, F[i])
       PROVE  x \in VisibleBelow(T, op, d)
  <2> DEFINE c == s[i]
  <2>1. c \in T.nodes /\ c \in Seq(Int) /\ Len(c) = k + 1
    BY <1>5
  <2>2. x = c \/ (Opened(T, op, c) /\ x \in VisibleBelow(T, op, c))
    BY <1>15 DEF RowOf
  <2>3. Len(x) >= k + 1 /\ (\A j \in 1..(k+1) : c[j] = x[j]) /\ Tree!ProperPrefix(d, x)
    BY <1>8, <1>15
  <2> HIDE DEF c
  <2>4. ASSUME NEW m \in T.nodes, Tree!ProperPrefix(d, m), Tree!ProperPrefix(m, x)
        PROVE  Opened(T, op, m)
    <3>1. /\ m \in Seq(Int) /\ Len(m) \in Nat /\ k < Len(m)
          /\ x \in Seq(Int) /\ Len(x) \in Nat /\ Len(m) < Len(x)
          /\ \A j \in 1..Len(m) : m[j] = x[j]
      BY <2>4, AheadMeans, PrefixMeans
    <3>2. \A j \in 1..(k+1) : c[j] = m[j]
      BY <1>4, <2>3, <3>1
    <3>3. x # c
      BY <1>4, <2>1, <3>1
    <3>4. Opened(T, op, c) /\ x \in VisibleBelow(T, op, c)
      BY <2>2, <3>3
    <3>5. CASE Len(m) = k + 1
      <4>1. m = c
        BY <2>1, <3>1, <3>2, <3>5, SeqEqual
      <4> QED
        BY <3>4, <4>1
    <3>6. CASE Len(m) # k + 1
      <4>1. Len(c) < Len(m) /\ \A j \in 1..Len(c) : c[j] = m[j]
        BY <1>4, <2>1, <3>1, <3>2, <3>6
      <4>2. Tree!ProperPrefix(c, m)
        BY <2>1, <3>1, <4>1, PrefixMeans
      <4> QED
        BY <2>4, <3>4, <4>2 DEF VisibleBelow
    <3> QED
      BY <3>5, <3>6
  <2> QED
    BY <2>3, <2>4 DEF VisibleBelow
<1>16. ASSUME NEW x \in VisibleBelow(T, op, d)
       PROVE  \E i \in 1..n : Occurs(x, F[i])
  <2>1. x \in T.nodes /\ Tree!ProperPrefix(d, x)
    BY DEF VisibleBelow
  <2>2. /\ x \in Seq(Int) /\ Len(x) \in Nat /\ k < Len(x)
        /\ \A j \in 1..k : d[j] = x[j]
    BY <2>1, AheadMeans, PrefixMeans
  <2> DEFINE c == SubSeq(x, 1, k + 1)
  <2>3. /\ c \in T.nodes /\ c \in Seq(Int) /\ Len(c) = k + 1 /\ \A j \in 1..(k+1) : c[j] = x[j]
    <3>1. k + 1 \in 1..Len(x)
      BY <1>4, <2>2
    <3>2. c \in T.nodes
      BY <2>1, <3>1 DEF Closed
    <3> QED
      BY <2>2, <3>1, <3>2
  <2> HIDE DEF c
  <2>4. c \in C
    <3>1. \A j \in 1..k : j \in 1..(k+1) /\ d[j] = c[j]
      <4> QED
        BY <1>0, <2>2, <2>3, Zenon
    <3> QED
      BY <2>3, <3>1, ChildMeans DEF C
  <2>5. PICK i \in 1..n : s[i] = c
    BY <2>4 DEF C
  <2>6. CASE Len(x) = k + 1
    <3>1. x = c
      BY <2>2, <2>3, <2>6, SeqEqual
    <3> QED
      BY <2>1, <2>5, <3>1 DEF RowOf
  <2>7. CASE Len(x) # k + 1
    <3>1. Tree!ProperPrefix(c, x)
      <4>1. Len(c) < Len(x) /\ \A j \in 1..Len(c) : c[j] = x[j]
        BY <1>4, <2>2, <2>3, <2>7
      <4> QED
        BY <2>2, <2>3, <4>1, PrefixMeans
    <3>2. Tree!ProperPrefix(d, c)
      <4>1. \A j \in 1..k : j \in 1..(k+1) /\ d[j] = c[j]
        <5> QED
          BY <1>0, <2>2, <2>3, Zenon
      <4> QED
        BY <1>4, <2>3, <4>1, PrefixMeans
    <3>3. Opened(T, op, c)
      BY <2>3, <3>1, <3>2 DEF VisibleBelow
    <3>4. x \in VisibleBelow(T, op, c)
      <4>1. ASSUME NEW m \in T.nodes, Tree!ProperPrefix(c, m), Tree!ProperPrefix(m, x)
            PROVE  Opened(T, op, m)
        <5>1. Tree!ProperPrefix(d, m)
          <6>1. m \in Seq(Int) /\ Len(m) \in Nat /\ k + 1 < Len(m) /\ \A j \in 1..(k+1) : c[j] = m[j]
            BY <2>3, <4>1, AheadMeans
          <6>2. \A j \in 1..k : j \in 1..(k+1) /\ d[j] = m[j]
            <7> QED
              BY <1>0, <2>2, <2>3, <6>1, Zenon
          <6> QED
            BY <1>4, <6>1, <6>2, PrefixMeans
        <5> QED
          BY <4>1, <5>1 DEF VisibleBelow
      <4> QED
        BY <2>1, <3>1, <4>1 DEF VisibleBelow
    <3> QED
      BY <2>1, <2>5, <3>3, <3>4 DEF RowOf
  <2> QED
    BY <2>6, <2>7
<1>17. \A x \in T.nodes : Occurs(x, flat) <=> x \in VisibleBelow(T, op, d)
  <2>1. \A x \in VisibleBelow(T, op, d) : x \in T.nodes
    BY DEF VisibleBelow
  <2> QED
    BY <1>14, <1>15, <1>16, <2>1
<1> QED
  BY <1>13, <1>17 DEF Shows, flat

(* No node is deeper than there are nodes.                                  *)
LEMMA DepthBounded ==
    ASSUME NEW T, Closed(T), NEW x \in T.nodes
    PROVE  Cardinality(T.nodes) \in Nat /\ Len(x) \in 1..Cardinality(T.nodes)
<1> DEFINE N == T.nodes
           n == Len(x)
           I == 1..n
           f == [l \in I |-> SubSeq(x, 1, l)]
<1>1. IsFiniteSet(N) /\ x \in Seq(Int) /\ x # <<>> /\ \A l \in I : SubSeq(x, 1, l) \in N
  BY DEF Closed
<1>2. n \in Nat /\ n # 0
  BY <1>1
<1>3. \A l \in I : f[l] \in N /\ Len(f[l]) = l
  BY <1>1
<1>4. f \in [I -> N]
  BY <1>1
<1> HIDE DEF f
<1>5. \A k, l \in I : f[k] = f[l] => k = l
  BY <1>3
<1>6. IsFiniteSet(I) /\ Cardinality(I) = n
  BY <1>2, FS_Interval
<1> HIDE DEF N, n, I
<1>7. f \in Injection(I, N)
  BY <1>4, <1>5, Fun_IsInj
<1>8. Cardinality(I) <= Cardinality(N)
  BY <1>1, <1>7, FS_Injection
<1>9. Cardinality(N) \in Nat
  BY <1>1, FS_CardinalityType
<1>10. n \in 1..Cardinality(N)
  BY <1>2, <1>6, <1>8, <1>9
<1> QED
  BY <1>9, <1>10 DEF N, n

(* The lists of rows of the children of a node.                             *)
RowLists(T, op, b, x) ==
    LET c == Tree!sortNodes(T, Tree!Children(T, x)) IN
    [i \in DOMAIN c |-> <<c[i]>> \o IF Tree!isDirectory(T, c[i]) /\ c[i] \in op THEN b[c[i]] ELSE <<>>]
Positions(T) == T.nodes \cup {<<>>}
ChildRows(T, op, x, n, c) ==
    /\ \A i, j \in 1..n : i # j => c[i] # c[j]
    /\ \A y \in Tree!Children(T, x) : \E i \in 1..n : c[i] = y
    /\ \A i, j \in 1..n : i < j => Tree!Before(T, c[i], c[j])
    /\ \A i \in 1..n : /\ c[i] \in T.nodes /\ Len(x) \in Nat /\ Len(c[i]) \in Nat
                       /\ Len(c[i]) > Len(x)
    /\ \A b : RowLists(T, op, b, x) =
                [i \in 1..n |-> <<c[i]>> \o IF Opened(T, op, c[i]) THEN b[c[i]] ELSE <<>>]

(* sortNodes lists the children of a node in order; each has its row.       *)
LEMMA RowListsAre ==
    ASSUME NEW T, Closed(T), NEW op, NEW x \in Positions(T)
    PROVE  \E n \in Nat : \E c \in [1..n -> Tree!Children(T, x)] : ChildRows(T, op, x, n, c)
<1>1. x \in Seq(Int) /\ Len(x) \in Nat
  <2>1. CASE x \in T.nodes
    BY <2>1 DEF Closed
  <2>2. CASE x = <<>>
    BY <2>2
  <2> QED
    BY <2>1, <2>2 DEF Positions
<1> DEFINE C == Tree!Children(T, x)
           c == Tree!sortNodes(T, C)
           n == Cardinality(C)
<1>2. /\ n \in Nat /\ c \in [1..n -> C]
      /\ \A i, j \in 1..n : i # j => c[i] # c[j]
      /\ \A y \in C : \E i \in 1..n : c[i] = y
      /\ \A i, j \in 1..n : i < j => Tree!Before(T, c[i], c[j])
  BY <1>1, SortedChildren
<1>3. \A y \in C : y \in T.nodes /\ Len(y) = Len(x) + 1
  BY <1>1, ChildMeans
<1>4. \A i \in 1..n : /\ c[i] \in T.nodes /\ Len(x) \in Nat /\ Len(c[i]) \in Nat
                      /\ Len(c[i]) > Len(x)
  <2> HIDE DEF c, n, C
  <2> TAKE i \in 1..n
  <2>1. c[i] \in C
    BY <1>2
  <2>2. c[i] \in T.nodes /\ Len(c[i]) = Len(x) + 1
    BY <1>3, <2>1
  <2> QED
    BY <1>1, <2>2
<1>5. DOMAIN c = 1..n
  <2> HIDE DEF c, n, C
  <2> QED
    BY <1>2
<1>6. ASSUME NEW b
      PROVE  RowLists(T, op, b, x) =
                [i \in 1..n |-> <<c[i]>> \o IF Opened(T, op, c[i]) THEN b[c[i]] ELSE <<>>]
  BY <1>5 DEF RowLists, Opened
<1> HIDE DEF c, n
<1>7. ChildRows(T, op, x, n, c)
  BY <1>2, <1>4, <1>6 DEF ChildRows
<1> QED
  BY <1>2, <1>7

(* The rows below a node, by recursion.                                     *)
LEMMA RowsThereAre ==
    ASSUME NEW T, Closed(T), NEW op
    PROVE  \E b : b = [x \in Positions(T) |-> Tree!FlattenSeq(RowLists(T, op, b, x))]
<1> DEFINE N == Positions(T)
           W == Seq(T.nodes)
           m == Cardinality(T.nodes)
           len == [x \in N |-> Len(x)]
           G(b, x) == Tree!FlattenSeq(RowLists(T, op, b, x))
           e == [b \in [N -> W] |-> [x \in N |-> G(b, x)]]
<1>1. m \in Nat
  BY FS_CardinalityType DEF Closed
<1>2. len \in [N -> 0..m]
  <2>1. \A x \in T.nodes : Len(x) \in 0..m
    <3> TAKE x \in T.nodes
    <3>1. Len(x) \in 1..m
      BY DepthBounded
    <3> QED
      BY <1>1, <3>1
  <2>2. Len(<<>>) \in 0..m
    BY <1>1
  <2>3. \A x \in N : Len(x) \in 0..m
    BY <2>1, <2>2 DEF Positions
  <2> QED
    BY <2>3
<1>3. ASSUME NEW b \in [N -> W], NEW x \in N PROVE G(b, x) \in W
  <2>1. PICK n \in Nat : \E c \in [1..n -> Tree!Children(T, x)] : ChildRows(T, op, x, n, c)
    BY RowListsAre
  <2>2. PICK c \in [1..n -> Tree!Children(T, x)] :
          /\ \A i \in 1..n : c[i] \in T.nodes
          /\ RowLists(T, op, b, x) = [i \in 1..n |-> <<c[i]>> \o IF Opened(T, op, c[i]) THEN b[c[i]] ELSE <<>>]
    BY <2>1 DEF ChildRows
  <2> DEFINE r(i) == IF Opened(T, op, c[i]) THEN b[c[i]] ELSE <<>>
  <2>3. \A i \in 1..n : <<c[i]>> \o r(i) \in W
    <3> TAKE i \in 1..n
    <3>1. c[i] \in N /\ c[i] \in T.nodes
      BY <2>2 DEF Positions
    <3> DEFINE M == T.nodes
    <3>2. r(i) \in Seq(M)
      <4>1. b[c[i]] \in W
        <5> HIDE DEF N, W
        <5> QED
          BY <3>1
      <4>2. <<>> \in Seq(M)
        OBVIOUS
      <4> QED
        BY <4>1, <4>2
    <3>3. c[i] \in M
      BY <3>1
    <3> HIDE DEF r, M
    <3>4. <<c[i]>> \o r(i) \in Seq(M)
      BY <3>2, <3>3
    <3> QED
      BY <3>4 DEF M
  <2>4. RowLists(T, op, b, x) \in Lists(n, T.nodes)
    <3> HIDE DEF W
    <3>1. RowLists(T, op, b, x) \in [1..n -> W]
      BY <2>2, <2>3
    <3> QED
      BY <3>1 DEF W, Lists
  <2> QED
    BY <2>4, FlattenPlaced
<1>4. \A b \in [N -> W] : [x \in N |-> G(b, x)] \in [N -> W]
  <2> HIDE DEF N, W, G
  <2> QED
    BY <1>3
<1>5. e \in [[N -> W] -> [N -> W]]
  <2> HIDE DEF N, W, G
  <2> QED
    BY <1>4
<1>6. \A b \in [N -> W] : e[b] = [x \in N |-> G(b, x)]
  OBVIOUS
<1>7. ASSUME NEW v \in [N -> W], NEW w \in [N -> W], NEW x \in N,
             \A c \in N : len[c] > len[x] => v[c] = w[c]
      PROVE  G(v, x) = G(w, x)
  <2>1. PICK n \in Nat : \E c \in [1..n -> Tree!Children(T, x)] : ChildRows(T, op, x, n, c)
    BY RowListsAre
  <2>2. PICK c \in [1..n -> Tree!Children(T, x)] :
          /\ \A i \in 1..n : c[i] \in T.nodes /\ Len(c[i]) > Len(x)
          /\ \A b : RowLists(T, op, b, x) =
                      [i \in 1..n |-> <<c[i]>> \o IF Opened(T, op, c[i]) THEN b[c[i]] ELSE <<>>]
    BY <2>1 DEF ChildRows
  <2>3. \A i \in 1..n : v[c[i]] = w[c[i]]
    <3> TAKE i \in 1..n
    <3>1. c[i] \in N /\ len[c[i]] > len[x]
      BY <2>2 DEF Positions
    <3> QED
      BY <1>7, <3>1
  <2>4. RowLists(T, op, v, x) = RowLists(T, op, w, x)
    <3>1. RowLists(T, op, v, x) = [i \in 1..n |-> <<c[i]>> \o IF Opened(T, op, c[i]) THEN v[c[i]] ELSE <<>>]
      BY <2>2
    <3>2. RowLists(T, op, w, x) = [i \in 1..n |-> <<c[i]>> \o IF Opened(T, op, c[i]) THEN w[c[i]] ELSE <<>>]
      BY <2>2
    <3>3. [i \in 1..n |-> <<c[i]>> \o IF Opened(T, op, c[i]) THEN v[c[i]] ELSE <<>>]
            = [i \in 1..n |-> <<c[i]>> \o IF Opened(T, op, c[i]) THEN w[c[i]] ELSE <<>>]
      BY <2>3
    <3> QED
      BY <3>1, <3>2, <3>3
  <2> QED
    BY <2>4
<1>8. \A b \in [N -> W] : \A x \in N : e[b][x] = G(b, x)
  <2> HIDE DEF N, W, G
  <2> QED
    OBVIOUS
<1> HIDE DEF e, G, len, W, N, m
<1>9. Depends(e, N, W, len)
  BY <1>7, <1>8 DEF Depends
<1>10. W # {}
  <2>1. <<>> \in Seq(T.nodes)
    OBVIOUS
  <2> QED
    BY <2>1 DEF W
<1>11. PICK b \in [N -> W] : b = e[b]
  <2>1. Ranked(N, W, m, len, e)
    BY <1>1, <1>2, <1>5, <1>9, <1>10 DEF Ranked
  <2> QED
    BY <2>1, RankedRecursion
<1>12. b = [x \in N |-> G(b, x)]
  BY <1>6, <1>11
<1> QED
  BY <1>12 DEF N, G

(* The rows below a node are the nodes below it of which all directories    *)
(* between are opened.                                                      *)
LEMMA RowsShow ==
    ASSUME NEW T, Closed(T), NEW op, NEW dir \in Positions(T)
    PROVE  Shows(T, op, dir, Tree!RowsBelow(T, op, dir))
<1> DEFINE N == Positions(T)
           e(b) == [x \in N |-> Tree!FlattenSeq(RowLists(T, op, b, x))]
           b == CHOOSE k : k = e(k)
           m == Cardinality(T.nodes)
           Good(x) == Shows(T, op, x, b[x])
           Bad == {i \in 0..m : \E x \in N : Len(x) = m - i /\ ~Good(x)}
<1>1. b = e(b)
  <2> HIDE DEF e
  <2>1. \E k : k = e(k)
    BY RowsThereAre DEF e
  <2> QED
    BY <2>1
<1>2. Tree!RowsBelow(T, op, dir) = b[dir]
  BY DEF Tree!RowsBelow, RowLists, Positions
<1>3. \A x \in N : b[x] = Tree!FlattenSeq(RowLists(T, op, b, x))
  <2> HIDE DEF b, N
  <2> QED
    BY <1>1
<1> HIDE DEF b
<1>4. m \in Nat
  BY FS_CardinalityType DEF Closed
<1>5. \A x \in N : Len(x) \in 0..m /\ x \in Seq(Int)
  <2>1. \A x \in T.nodes : Len(x) \in 0..m /\ x \in Seq(Int)
    <3> TAKE x \in T.nodes
    <3>1. Len(x) \in 1..m
      BY DepthBounded
    <3> QED
      BY <1>4, <3>1 DEF Closed
  <2>2. Len(<<>>) \in 0..m /\ <<>> \in Seq(Int)
    BY <1>4
  <2> QED
    BY <2>1, <2>2 DEF Positions
<1> HIDE DEF N, m
<1>6. ASSUME NEW x \in N, \A y \in N : Len(y) > Len(x) => Good(y) PROVE Good(x)
  <2> DEFINE F == RowLists(T, op, b, x)
  <2>1. PICK n \in Nat : \E c \in [1..n -> Tree!Children(T, x)] : ChildRows(T, op, x, n, c)
    BY RowListsAre DEF N
  <2>2. PICK c \in [1..n -> Tree!Children(T, x)] :
          /\ \A i, j \in 1..n : i # j => c[i] # c[j]
          /\ \A y \in Tree!Children(T, x) : \E i \in 1..n : c[i] = y
          /\ \A i, j \in 1..n : i < j => Tree!Before(T, c[i], c[j])
          /\ \A i \in 1..n : c[i] \in T.nodes /\ Len(c[i]) > Len(x)
          /\ F = [i \in 1..n |-> <<c[i]>> \o IF Opened(T, op, c[i]) THEN b[c[i]] ELSE <<>>]
    BY <2>1 DEF ChildRows
  <2>3. ASSUME NEW i \in 1..n PROVE RowOf(T, op, c[i], F[i])
    <3> DEFINE r == IF Opened(T, op, c[i]) THEN b[c[i]] ELSE <<>>
    <3>1. F[i] = <<c[i]>> \o r
      BY <2>2
    <3>2. c[i] \in T.nodes /\ c[i] \in N /\ Len(c[i]) > Len(x)
      BY <2>2 DEF N, Positions
    <3>3. Opened(T, op, c[i]) => Shows(T, op, c[i], r)
      BY <1>6, <3>2
    <3>4. ~Opened(T, op, c[i]) => r = <<>>
      OBVIOUS
    <3> HIDE DEF r, F
    <3>5. RowOf(T, op, c[i], <<c[i]>> \o r)
      BY <3>2, <3>3, <3>4, RowIs
    <3> QED
      BY <3>1, <3>5
  <2>4. F \in Lists(n, T.nodes)
    <3>1. \A i \in 1..n : F[i] \in Seq(T.nodes)
      BY <2>3 DEF RowOf, InOrder
    <3>2. F = [i \in 1..n |-> F[i]]
      BY <2>2
    <3> HIDE DEF F
    <3> QED
      BY <3>1, <3>2 DEF Lists
  <2> HIDE DEF F
  <2>5. x \in Seq(Int)
    BY <1>5
  <2>6. Shows(T, op, x, Tree!FlattenSeq(F))
    BY <2>2, <2>3, <2>4, <2>5, LevelShows
  <2> QED
    BY <1>3, <2>6 DEF F
<1>7. Bad = {}
  <2> SUFFICES ASSUME Bad # {} PROVE FALSE
    OBVIOUS
  <2> HIDE DEF Good
  <2>1. PICK i \in Bad : \A j \in Bad : i <= j
    <3>1. Bad \in SUBSET Nat
      OBVIOUS
    <3> HIDE DEF Bad
    <3> QED
      BY <3>1, LeastNumber
  <2>2. PICK x \in N : Len(x) = m - i /\ ~Good(x)
    OBVIOUS
  <2>3. \A y \in N : Len(y) > Len(x) => Good(y)
    <3> SUFFICES ASSUME NEW y \in N, Len(y) > Len(x), ~Good(y) PROVE FALSE
      OBVIOUS
    <3>1. m - Len(y) \in 0..m /\ m - (m - Len(y)) = Len(y) /\ ~(i <= m - Len(y))
      BY <1>4, <1>5, <2>2
    <3>2. m - Len(y) \in Bad
      BY <3>1
    <3> QED
      BY <2>1, <3>1, <3>2
  <2> QED
    BY <1>6, <2>2, <2>3
<1>8. Good(dir)
  <2> SUFFICES ASSUME ~Good(dir) PROVE FALSE
    OBVIOUS
  <2> HIDE DEF Good
  <2>1. dir \in N
    BY DEF N
  <2>2. m - Len(dir) \in 0..m /\ Len(dir) = m - (m - Len(dir))
    BY <1>4, <1>5, <2>1
  <2>3. m - Len(dir) \in Bad
    BY <2>1, <2>2
  <2> QED
    BY <1>7, <2>3
<1> QED
  BY <1>2, <1>8

(* The values of a function of finitely many arguments are finitely many.   *)
LEMMA ImageFinite ==
    ASSUME NEW I, IsFiniteSet(I), NEW f, DOMAIN f = I, f = [i \in I |-> f[i]]
    PROVE  IsFiniteSet({f[i] : i \in I})
<1> DEFINE J == {f[i] : i \in I}
<1>1. f \in [I -> J] /\ \A x \in J : \E i \in I : f[i] = x
  OBVIOUS
<1> HIDE DEF J
<1>2. f \in Surjection(I, J)
  BY <1>1, Fun_IsSurj
<1>3. IsFiniteSet(J)
  BY <1>2, FS_Surjection
<1> QED
  BY <1>3 DEF J

(* The nodes of the tree of changed files are those on the way to a file.   *)
LEMMA TreeIsClosed ==
    ASSUME NEW D \in SUBSET TreePaths
    PROVE  /\ Closed(Tree!buildFileTree(D))
           /\ Tree!buildFileTree(D).nodes = UNION {Tree!NodesOn(p) : p \in D}
           /\ Tree!buildFileTree(D).diff = D
           /\ D \subseteq Tree!buildFileTree(D).nodes
<1> DEFINE T == Tree!buildFileTree(D)
           On == [p \in D |-> Tree!NodesOn(p)]
<1>1. T.nodes = UNION {Tree!NodesOn(p) : p \in D} /\ T.diff = D
  BY DEF Tree!buildFileTree
<1> HIDE DEF T
<1>2. IsFiniteSet(D) /\ \A p \in D : p \in Seq(Int) /\ p # <<>> /\ Len(p) \in Nat
  BY TreeAssumption, FS_Subset
<1>3. ASSUME NEW p \in D
      PROVE  IsFiniteSet(Tree!NodesOn(p)) /\ p \in Tree!NodesOn(p)
  <2> DEFINE f == [l \in 1..Len(p) |-> SubSeq(p, 1, l)]
  <2>1. Tree!NodesOn(p) = {SubSeq(p, 1, l) : l \in 1..Len(p)} /\ SubSeq(p, 1, Len(p)) = p
    BY <1>2, NodesAre
  <2>2. IsFiniteSet(1..Len(p))
    BY <1>2, FS_Interval
  <2>3. IsFiniteSet({f[l] : l \in 1..Len(p)})
    <3>1. DOMAIN f = 1..Len(p) /\ f = [l \in 1..Len(p) |-> f[l]]
      OBVIOUS
    <3> DEFINE I == 1..Len(p)
    <3> HIDE DEF f, I
    <3>2. IsFiniteSet({f[l] : l \in I})
      BY <2>2, <3>1, ImageFinite DEF I
    <3> QED
      BY <3>2 DEF I
  <2>4. {f[l] : l \in 1..Len(p)} = {SubSeq(p, 1, l) : l \in 1..Len(p)}
    OBVIOUS
  <2>5. Len(p) \in 1..Len(p)
    BY <1>2
  <2> QED
    BY <2>1, <2>3, <2>4, <2>5
<1>4. IsFiniteSet(T.nodes)
  <2>1. DOMAIN On = D /\ On = [p \in D |-> On[p]] /\ \A p \in D : On[p] = Tree!NodesOn(p)
    OBVIOUS
  <2> HIDE DEF On
  <2>2. IsFiniteSet({On[p] : p \in D})
    BY <1>2, <2>1, ImageFinite
  <2>3. {On[p] : p \in D} = {Tree!NodesOn(p) : p \in D}
    BY <2>1
  <2>4. \A N \in {Tree!NodesOn(p) : p \in D} : IsFiniteSet(N)
    BY <1>3
  <2>5. IsFiniteSet(UNION {Tree!NodesOn(p) : p \in D})
    BY <2>2, <2>3, <2>4, FS_UNION
  <2> QED
    BY <1>1, <2>5
<1>5. ASSUME NEW x \in T.nodes
      PROVE  /\ x \in Seq(Int) /\ x # <<>>
             /\ \A l \in 1..Len(x) : SubSeq(x, 1, l) \in T.nodes
  <2>1. PICK p \in D : x \in Tree!NodesOn(p)
    BY <1>1, <1>5
  <2>2. /\ Tree!NodesOn(p) = {SubSeq(p, 1, l) : l \in 1..Len(p)}
        /\ \A l \in 1..Len(p) : /\ SubSeq(p, 1, l) \in Seq(Int) /\ Len(SubSeq(p, 1, l)) = l
                                /\ \A j \in 1..l : SubSeq(p, 1, l)[j] = p[j]
    BY <1>2, NodesAre
  <2>3. PICK k \in 1..Len(p) : x = SubSeq(p, 1, k)
    BY <2>1, <2>2
  <2>4. /\ p \in Seq(Int) /\ Len(p) \in Nat /\ x \in Seq(Int) /\ Len(x) = k
        /\ \A j \in 1..k : x[j] = p[j]
    BY <1>2, <2>2, <2>3
  <2>5. x # <<>>
    BY <2>4
  <2>6. ASSUME NEW l \in 1..k PROVE SubSeq(x, 1, l) \in T.nodes
    <3>1. l \in 1..Len(p)
      BY <2>4
    <3>2. /\ SubSeq(x, 1, l) \in Seq(Int) /\ Len(SubSeq(x, 1, l)) = l
          /\ \A j \in 1..l : SubSeq(x, 1, l)[j] = x[j]
      BY <2>4, <2>6, NodesAre
    <3>3. \A j \in 1..l : SubSeq(x, 1, l)[j] = SubSeq(p, 1, l)[j]
      <4>1. \A j \in 1..l : j \in 1..k
        BY <2>4
      <4>2. \A j \in 1..l : SubSeq(p, 1, l)[j] = p[j]
        BY <2>2, <3>1
      <4> QED
        BY <2>4, <3>2, <4>1, <4>2
    <3>4. SubSeq(p, 1, l) \in Seq(Int) /\ Len(SubSeq(p, 1, l)) = l
      BY <2>2, <3>1
    <3>5. SubSeq(x, 1, l) = SubSeq(p, 1, l)
      BY <3>2, <3>3, <3>4, SeqEqual
    <3>6. SubSeq(p, 1, l) \in Tree!NodesOn(p)
      BY <2>2, <3>1
    <3> QED
      BY <1>1, <3>5, <3>6
  <2> QED
    BY <2>4, <2>5, <2>6
<1>6. Closed(T)
  BY <1>4, <1>5 DEF Closed
<1>7. D \subseteq T.nodes
  BY <1>1, <1>3
<1> QED
  BY <1>1, <1>6, <1>7 DEF T

(* A node above another one is a directory, unless it is a changed file     *)
(* itself.                                                                  *)
LEMMA AboveIsDirectory ==
    ASSUME NEW D \in SUBSET TreePaths, NEW T, T = Tree!buildFileTree(D),
           NEW m \in T.nodes, NEW x \in T.nodes, Tree!ProperPrefix(m, x)
    PROVE  Tree!isDirectory(T, m) <=> m \notin D
<1>1. Closed(T) /\ T.diff = D
  BY TreeIsClosed
<1>2. /\ m \in Seq(Int) /\ Len(m) \in Nat /\ x \in Seq(Int) /\ Len(x) \in Nat
      /\ Len(m) < Len(x) /\ \A j \in 1..Len(m) : m[j] = x[j]
  BY <1>1, AheadMeans
<1> DEFINE c == SubSeq(x, 1, Len(m) + 1)
<1>3. /\ c \in T.nodes /\ Len(c) = Len(m) + 1 /\ \A j \in 1..(Len(m) + 1) : c[j] = x[j]
  <2>1. Len(m) + 1 \in 1..Len(x)
    BY <1>2
  <2>2. c \in T.nodes
    BY <1>1, <2>1 DEF Closed
  <2> QED
    BY <1>2, <2>1, <2>2
<1> HIDE DEF c
<1>4. \A j \in 1..Len(m) : j \in 1..(Len(m) + 1)
  BY <1>2
<1>5. \A j \in 1..Len(m) : m[j] = c[j]
  BY <1>2, <1>3, <1>4, Zenon
<1>6. c \in Tree!Children(T, m)
  BY <1>1, <1>2, <1>3, <1>5, ChildMeans
<1> QED
  BY <1>1, <1>6 DEF Tree!isDirectory

(* The nodes above a changed file are its ancestors.                        *)
LEMMA AncestorsAre ==
    ASSUME NEW D \in SUBSET TreePaths, NEW T, T = Tree!buildFileTree(D), NEW p \in D
    PROVE  Tree!getAncestorPaths(p) = {m \in T.nodes : Tree!ProperPrefix(m, p)}
<1>1. Closed(T) /\ T.nodes = UNION {Tree!NodesOn(q) : q \in D} /\ p \in T.nodes /\ p \in Seq(Int)
  BY TreeIsClosed, TreeAssumption
<1>2. /\ Tree!NodesOn(p) = {SubSeq(p, 1, l) : l \in 1..Len(p)}
      /\ \A l \in 1..Len(p) : /\ SubSeq(p, 1, l) \in Seq(Int) /\ Len(SubSeq(p, 1, l)) = l
                              /\ \A j \in 1..l : SubSeq(p, 1, l)[j] = p[j]
      /\ SubSeq(p, 1, Len(p)) = p
  BY <1>1, NodesAre
<1>3. ASSUME NEW m \in Tree!getAncestorPaths(p)
      PROVE  m \in T.nodes /\ Tree!ProperPrefix(m, p)
  <2>1. m \in Tree!NodesOn(p) /\ m # p
    BY DEF Tree!getAncestorPaths
  <2>2. m \in T.nodes
    BY <1>1, <2>1
  <2>3. PICK l \in 1..Len(p) : m = SubSeq(p, 1, l)
    BY <1>2, <2>1
  <2>4. l # Len(p)
    BY <1>2, <2>1, <2>3
  <2>5. m \in Seq(Int) /\ Len(m) = l /\ \A j \in 1..l : m[j] = p[j]
    BY <1>2, <2>3
  <2>6. l < Len(p)
    <3>1. Len(p) \in Nat
      BY <1>1
    <3> QED
      BY <2>4, <3>1
  <2> QED
    BY <1>1, <2>2, <2>5, <2>6, PrefixMeans
<1>4. ASSUME NEW m \in T.nodes, Tree!ProperPrefix(m, p)
      PROVE  m \in Tree!getAncestorPaths(p)
  <2>1. /\ m \in Seq(Int) /\ Len(m) \in Nat /\ Len(m) > 0 /\ Len(p) \in Nat
        /\ Len(m) < Len(p) /\ \A j \in 1..Len(m) : m[j] = p[j]
    BY <1>1, <1>4, AheadMeans
  <2>2. Len(m) \in 1..Len(p)
    BY <2>1
  <2>3. /\ SubSeq(p, 1, Len(m)) \in Seq(Int) /\ Len(SubSeq(p, 1, Len(m))) = Len(m)
        /\ \A j \in 1..Len(m) : SubSeq(p, 1, Len(m))[j] = m[j]
    BY <1>2, <2>1, <2>2
  <2>4. m = SubSeq(p, 1, Len(m))
    BY <2>1, <2>3, SeqEqual
  <2>5. m # p
    BY <2>1
  <2> QED
    BY <1>2, <2>2, <2>4, <2>5 DEF Tree!getAncestorPaths
<1> QED
  BY <1>3, <1>4

(* The rows of the tree: a node has one if all the directories above it are *)
(* opened.                                                                  *)
LEMMA RowsAre ==
    ASSUME diffs \subseteq TreePaths, NEW op, NEW T, T = Tree!buildFileTree(diffs)
    PROVE  /\ Closed(T) /\ InOrder(T, Tree!Rows(op))
           /\ \A x \in T.nodes :
                Occurs(x, Tree!Rows(op)) <=> \A m \in T.nodes : Tree!ProperPrefix(m, x) => Opened(T, op, m)
<1>1. Closed(T)
  BY TreeIsClosed
<1>2. Tree!Rows(op) = Tree!RowsBelow(T, op, <<>>)
  BY DEF Tree!Rows
<1>3. Shows(T, op, <<>>, Tree!Rows(op))
  <2>1. <<>> \in Positions(T)
    BY DEF Positions
  <2> QED
    BY <1>1, <1>2, <2>1, RowsShow
<1>4. \A x \in T.nodes : Tree!ProperPrefix(<<>>, x)
  <2> TAKE x \in T.nodes
  <2>1. x \in Seq(Int) /\ Len(x) \in Nat /\ Len(x) > 0
    BY <1>1, AheadMeans
  <2>2. <<>> \in Seq(Int) /\ Len(<<>>) = 0
    OBVIOUS
  <2>3. Len(<<>>) < Len(x) /\ \A j \in 1..Len(<<>>) : <<>>[j] = x[j]
    BY <2>1, <2>2
  <2> QED
    BY <2>1, <2>2, <2>3, PrefixMeans
<1>5. \A x \in T.nodes :
        x \in VisibleBelow(T, op, <<>>) <=> \A m \in T.nodes : Tree!ProperPrefix(m, x) => Opened(T, op, m)
  BY <1>4 DEF VisibleBelow
<1> QED
  BY <1>1, <1>3, <1>5 DEF Shows

(* A selection that is revealed has a row.                                  *)
LEMMA RevealedHasRow ==
    ASSUME Tree!TypeOK, Tree!Revealed
    PROVE  Tree!SelectionRevealed
<1> DEFINE T == Tree!buildFileTree(diffs)
           p == Tree!Effective
<1>1. SUFFICES ASSUME Tree!Mounted, ~toggled, p # NoPath, ~Tree!Shadowed(p)
               PROVE  p \in Tree!ToSet(Tree!Rows(expanded))
  BY DEF Tree!SelectionRevealed
<1>2. diffs \subseteq TreePaths
  BY DEF Tree!TypeOK
<1>3. p \in diffs
  <2>1. diffs # {} => Tree!FirstPath(diffs) \in diffs
    BY <1>2, FirstThereIs
  <2> QED
    BY <1>1, <2>1 DEF Tree!Effective, Tree!effectiveSelectedDiffPath
<1>4. Tree!getAncestorPaths(p) \subseteq expanded
  BY <1>1 DEF Tree!Revealed
<1> HIDE DEF T, p
<1>5. /\ Closed(T) /\ InOrder(T, Tree!Rows(expanded))
      /\ \A x \in T.nodes : Occurs(x, Tree!Rows(expanded)) <=>
            \A m \in T.nodes : Tree!ProperPrefix(m, x) => Opened(T, expanded, m)
  BY <1>2, RowsAre DEF T
<1>6. p \in T.nodes
  BY <1>2, <1>3, TreeIsClosed DEF T
<1>7. ASSUME NEW m \in T.nodes, Tree!ProperPrefix(m, p) PROVE Opened(T, expanded, m)
  <2>1. m \in expanded
    BY <1>2, <1>3, <1>4, <1>7, AncestorsAre DEF T
  <2>2. m \notin diffs
    BY <1>1, <1>7 DEF Tree!Shadowed
  <2>3. Tree!isDirectory(T, m)
    BY <1>2, <1>6, <1>7, <2>2, AboveIsDirectory DEF T
  <2> QED
    BY <2>1, <2>3 DEF Opened
<1>8. Occurs(p, Tree!Rows(expanded))
  BY <1>5, <1>6, <1>7
<1>9. DOMAIN Tree!Rows(expanded) = 1..Len(Tree!Rows(expanded))
  BY <1>5 DEF InOrder
<1> QED
  BY <1>8, <1>9 DEF Occurs, Tree!ToSet

(* With everything open a node has a row if no changed file is above it ... *)
LEMMA ShownUnlessShadowed ==
    ASSUME Tree!TypeOK, NEW x \in Tree!buildFileTree(diffs).nodes
    PROVE  Occurs(x, Tree!Rows(Tree!Dirs)) <=> ~Tree!Shadowed(x)
<1> DEFINE T == Tree!buildFileTree(diffs)
<1>1. diffs \subseteq TreePaths
  BY DEF Tree!TypeOK
<1> HIDE DEF T
<1>2. /\ x \in T.nodes /\ diffs \subseteq T.nodes
      /\ \A y \in T.nodes :
            Occurs(y, Tree!Rows(Tree!Dirs)) <=>
              \A m \in T.nodes : Tree!ProperPrefix(m, y) => Opened(T, Tree!Dirs, m)
  BY <1>1, RowsAre, TreeIsClosed DEF T
<1>3. \A m \in T.nodes : Tree!ProperPrefix(m, x) => (Opened(T, Tree!Dirs, m) <=> m \notin diffs)
  <2> SUFFICES ASSUME NEW m \in T.nodes, Tree!ProperPrefix(m, x)
               PROVE  Opened(T, Tree!Dirs, m) <=> m \notin diffs
    OBVIOUS
  <2>1. Tree!isDirectory(T, m) <=> m \notin diffs
    BY <1>1, <1>2, AboveIsDirectory DEF T
  <2>2. Tree!isDirectory(T, m) => m \in Tree!Dirs
    BY <1>1, NodeIsDirOrFile DEF T
  <2> QED
    BY <2>1, <2>2 DEF Opened
<1>4. Tree!Shadowed(x) <=> \E m \in T.nodes : Tree!ProperPrefix(m, x) /\ m \in diffs
  BY <1>2 DEF Tree!Shadowed
<1> QED
  BY <1>2, <1>3, <1>4

(* ... and a directory that is above a changed file is above one that has a *)
(* row: the nearest.                                                        *)
LEMMA NearestFile ==
    ASSUME Tree!TypeOK, NEW x \in Tree!buildFileTree(diffs).nodes, x \notin diffs, ~Tree!Shadowed(x)
    PROVE  \E p \in diffs : ~Tree!Shadowed(p) /\ x \in Tree!getAncestorPaths(p)
<1> DEFINE T == Tree!buildFileTree(diffs)
           Ends == {p \in diffs : x \in Tree!NodesOn(p)}
           Lens == {Len(p) : p \in Ends}
<1>1. diffs \subseteq TreePaths /\ \A p \in diffs : p \in Seq(Int) /\ Len(p) \in Nat
  BY TreeAssumption DEF Tree!TypeOK
<1>2. Closed(T) /\ diffs \subseteq T.nodes /\ T.nodes = UNION {Tree!NodesOn(p) : p \in diffs}
  BY <1>1, TreeIsClosed
<1> HIDE DEF T
<1>3. Ends # {}
  BY <1>2 DEF T
<1>4. Lens \in SUBSET Nat /\ Lens # {}
  BY <1>1, <1>3
<1>5. \E t \in Lens : \A u \in Lens : t <= u
  <2> HIDE DEF Lens
  <2> QED
    BY <1>4, LeastNumber
<1>6. PICK p \in Ends : \A q \in Ends : Len(p) <= Len(q)
  BY <1>5
<1>7. x \in Tree!getAncestorPaths(p)
  BY <1>6 DEF Tree!getAncestorPaths
<1>8. /\ x \in T.nodes /\ p \in T.nodes /\ p \in diffs
      /\ Tree!ProperPrefix(x, p)
  BY <1>1, <1>2, <1>6, <1>7, AncestorsAre DEF T
<1>9. /\ x \in Seq(Int) /\ p \in Seq(Int) /\ Len(x) \in Nat /\ Len(p) \in Nat
      /\ Len(x) < Len(p) /\ \A j \in 1..Len(x) : x[j] = p[j]
  BY <1>2, <1>8, AheadMeans
<1>10. ASSUME NEW q \in diffs, Tree!ProperPrefix(q, p) PROVE FALSE
  <2>1. /\ q \in T.nodes /\ q \in Seq(Int) /\ Len(q) \in Nat
        /\ Len(q) < Len(p) /\ \A j \in 1..Len(q) : q[j] = p[j]
    BY <1>2, <1>8, <1>10, AheadMeans
  <2>2. CASE Len(q) < Len(x)
    <3>1. \A j \in 1..Len(q) : j \in 1..Len(x)
      BY <1>9, <2>1, <2>2
    <3>2. \A j \in 1..Len(q) : q[j] = x[j]
      BY <1>9, <2>1, <3>1, Zenon
    <3>3. Tree!ProperPrefix(q, x)
      BY <1>9, <2>1, <2>2, <3>2, PrefixMeans
    <3> QED
      BY <3>3 DEF Tree!Shadowed
  <2>3. CASE Len(q) = Len(x)
    <3>1. \A j \in 1..Len(q) : q[j] = x[j]
      BY <1>9, <2>1, <2>3
    <3>2. q = x
      BY <1>9, <2>1, <2>3, <3>1, SeqEqual
    <3> QED
      BY <3>2
  <2>4. CASE Len(q) > Len(x)
    <3>1. \A j \in 1..Len(x) : j \in 1..Len(q)
      BY <1>9, <2>1, <2>4
    <3>2. \A j \in 1..Len(x) : x[j] = q[j]
      BY <1>9, <2>1, <3>1, Zenon
    <3>3. Tree!ProperPrefix(x, q)
      BY <1>9, <2>1, <2>4, <3>2, PrefixMeans
    <3>4. x \in Tree!getAncestorPaths(q)
      BY <1>1, <1>8, <3>3, AncestorsAre DEF T
    <3>5. q \in Ends
      BY <3>4 DEF Tree!getAncestorPaths
    <3> QED
      BY <1>6, <1>9, <2>1, <3>5
  <2> QED
    BY <1>9, <2>1, <2>2, <2>3, <2>4
<1> QED
  BY <1>7, <1>8, <1>10 DEF Tree!Shadowed

(* The files that are not shadowed have a row, and the directories above    *)
(* them; nothing else has.                                                  *)
LEMMA RowsOfFilesAndDirs ==
    ASSUME Tree!TypeOK, NEW x
    PROVE  Occurs(x, Tree!Rows(Tree!Dirs)) <=>
             \/ x \in diffs /\ ~Tree!Shadowed(x)
             \/ x \notin diffs /\ \E p \in diffs : ~Tree!Shadowed(p) /\ x \in Tree!getAncestorPaths(p)
<1> DEFINE T == Tree!buildFileTree(diffs)
<1>1. diffs \subseteq TreePaths
  BY DEF Tree!TypeOK
<1>2. Closed(T) /\ diffs \subseteq T.nodes /\ InOrder(T, Tree!Rows(Tree!Dirs))
  BY <1>1, TreeIsClosed, RowsAre
<1> HIDE DEF T
<1>3. Occurs(x, Tree!Rows(Tree!Dirs)) => x \in T.nodes
  BY <1>2 DEF Occurs, InOrder
<1>4. ASSUME NEW p \in diffs, ~Tree!Shadowed(p), x \in Tree!getAncestorPaths(p)
      PROVE  x \in T.nodes /\ ~Tree!Shadowed(x)
  <2>1. x \in T.nodes /\ p \in T.nodes /\ Tree!ProperPrefix(x, p)
    BY <1>1, <1>2, <1>4, AncestorsAre DEF T
  <2>2. /\ x \in Seq(Int) /\ p \in Seq(Int) /\ Len(x) \in Nat /\ Len(p) \in Nat
        /\ Len(x) < Len(p) /\ \A j \in 1..Len(x) : x[j] = p[j]
    BY <1>2, <2>1, AheadMeans
  <2>3. ASSUME NEW q \in diffs, Tree!ProperPrefix(q, x) PROVE FALSE
    <3>1. /\ q \in Seq(Int) /\ Len(q) \in Nat
          /\ Len(q) < Len(x) /\ \A j \in 1..Len(q) : q[j] = x[j]
      BY <1>2, <2>1, <2>3, AheadMeans
    <3>2. Len(q) < Len(p) /\ \A j \in 1..Len(q) : j \in 1..Len(x)
      BY <2>2, <3>1
    <3>3. \A j \in 1..Len(q) : q[j] = p[j]
      BY <2>2, <3>1, <3>2, Zenon
    <3>4. Tree!ProperPrefix(q, p)
      BY <2>2, <3>1, <3>2, <3>3, PrefixMeans
    <3> QED
      BY <1>4, <3>4 DEF Tree!Shadowed
  <2> QED
    BY <2>1, <2>3 DEF Tree!Shadowed
<1>5. x \in T.nodes => (Occurs(x, Tree!Rows(Tree!Dirs)) <=> ~Tree!Shadowed(x))
  BY ShownUnlessShadowed DEF T
<1>6. x \in T.nodes /\ x \notin diffs /\ ~Tree!Shadowed(x) =>
        \E p \in diffs : ~Tree!Shadowed(p) /\ x \in Tree!getAncestorPaths(p)
  BY NearestFile DEF T
<1> QED
  BY <1>2, <1>3, <1>4, <1>5, <1>6

(* The rows of the tree with everything open: each file that is not         *)
(* shadowed once, the directories before what is in them, and before the    *)
(* files beside them.                                                       *)
LEMMA RowsAllShown ==
    ASSUME Tree!TypeOK
    PROVE  Tree!RowsComplete
<1> DEFINE T == Tree!buildFileTree(diffs)
           rows == Tree!Rows(Tree!Dirs)
           files == {p \in diffs : ~Tree!Shadowed(p)}
           dirs == {d \in UNION {Tree!getAncestorPaths(p) : p \in files} : d \notin diffs}
<1>1. diffs \subseteq TreePaths
  BY DEF Tree!TypeOK
<1>2. Closed(T) /\ InOrder(T, rows)
  BY <1>1, RowsAre
<1>3. \A x : Occurs(x, rows) <=>
        \/ x \in diffs /\ ~Tree!Shadowed(x)
        \/ x \notin diffs /\ \E p \in diffs : ~Tree!Shadowed(p) /\ x \in Tree!getAncestorPaths(p)
  BY RowsOfFilesAndDirs
<1>4. ASSUME NEW n \in T.nodes
      PROVE  (n \notin diffs => Tree!isDirectory(T, n)) /\ (n \in diffs => ~Tree!isDirectory(T, n))
  <2>1. T.diff = diffs
    BY <1>1, TreeIsClosed
  <2> QED
    BY <1>1, <2>1, NodeIsDirOrFile DEF Tree!isDirectory
<1> HIDE DEF T, rows
<1>5. /\ rows \in Seq(T.nodes) /\ DOMAIN rows = 1..Len(rows)
      /\ \A i, j \in 1..Len(rows) : i # j => rows[i] # rows[j]
      /\ \A i, j \in 1..Len(rows) : Ahead(T, rows[i], rows[j]) => i < j
      /\ \A i \in 1..Len(rows) : rows[i] \in T.nodes
  BY <1>2 DEF InOrder
<1>6. Tree!IsInjective(rows)
  BY <1>5 DEF Tree!IsInjective
<1>7. \A x : x \in Tree!ToSet(rows) <=> Occurs(x, rows)
  BY <1>5 DEF Tree!ToSet, Occurs
<1>8. \A x : x \in files \cup dirs <=>
        \/ x \in diffs /\ ~Tree!Shadowed(x)
        \/ x \notin diffs /\ \E p \in diffs : ~Tree!Shadowed(p) /\ x \in Tree!getAncestorPaths(p)
  OBVIOUS
<1>9. Tree!ToSet(rows) = files \cup dirs
  <2> HIDE DEF files, dirs
  <2> QED
    BY <1>3, <1>7, <1>8
<1>10. ASSUME NEW i \in DOMAIN rows, NEW j \in DOMAIN rows,
              Tree!Front(rows[i]) = Tree!Front(rows[j]), rows[i] \in dirs, rows[j] \in files
       PROVE  i < j
  <2>1. rows[i] \in T.nodes /\ rows[j] \in T.nodes /\ i \in 1..Len(rows) /\ j \in 1..Len(rows)
    BY <1>5
  <2>2. Tree!isDirectory(T, rows[i]) /\ ~Tree!isDirectory(T, rows[j])
    BY <1>4, <1>10, <2>1
  <2>3. Tree!Before(T, rows[i], rows[j])
    BY <2>2 DEF Tree!Before
  <2>4. Alike(rows[i], rows[j])
    <3>1. ASSUME NEW a \in Seq(Int), NEW b \in Seq(Int), Len(a) > 0, Len(b) > 0, Tree!Front(a) = Tree!Front(b)
          PROVE  Alike(a, b)
      <4>1. SubSeq(a, 1, Len(a) - 1) = SubSeq(b, 1, Len(b) - 1)
        BY <3>1 DEF Tree!Front
      <4>2. /\ Len(SubSeq(a, 1, Len(a) - 1)) = Len(a) - 1
            /\ Len(SubSeq(b, 1, Len(b) - 1)) = Len(b) - 1
            /\ \A k \in 1..(Len(a) - 1) : SubSeq(a, 1, Len(a) - 1)[k] = a[k]
            /\ \A k \in 1..(Len(b) - 1) : SubSeq(b, 1, Len(b) - 1)[k] = b[k]
        <5>1. ASSUME NEW c \in Seq(Int), NEW l \in Nat, l <= Len(c)
              PROVE  /\ Len(SubSeq(c, 1, l)) = l
                     /\ \A k \in 1..l : SubSeq(c, 1, l)[k] = c[k]
          BY <5>1
        <5>2. /\ Len(a) - 1 \in Nat /\ Len(a) - 1 <= Len(a)
              /\ Len(b) - 1 \in Nat /\ Len(b) - 1 <= Len(b)
          BY <3>1
        <5> QED
          BY <5>1, <5>2
      <4>3. Len(a) - 1 = Len(b) - 1 /\ Len(a) \in Nat /\ Len(b) \in Nat
        BY <4>1, <4>2
      <4>4. Len(a) = Len(b)
        BY <4>3
      <4> QED
        BY <4>1, <4>2, <4>4 DEF Alike
    <3>2. /\ rows[i] \in Seq(Int) /\ Len(rows[i]) > 0
          /\ rows[j] \in Seq(Int) /\ Len(rows[j]) > 0
      BY <1>2, <2>1, AheadMeans
    <3> QED
      BY <1>10, <3>1, <3>2
  <2>5. Ahead(T, rows[i], rows[j])
    BY <2>3, <2>4 DEF Ahead
  <2> QED
    BY <1>5, <2>1, <2>5
<1>11. \A i, j \in DOMAIN rows : Tree!ProperPrefix(rows[i], rows[j]) => i < j
  BY <1>5 DEF Ahead
<1> QED
  <2> HIDE DEF files, dirs
  <2>1. /\ Tree!IsInjective(rows) /\ Tree!ToSet(rows) = files \cup dirs
        /\ \A i, j \in DOMAIN rows :
              /\ Tree!ProperPrefix(rows[i], rows[j]) => i < j
              /\ Tree!Front(rows[i]) = Tree!Front(rows[j]) /\ rows[i] \in dirs /\ rows[j] \in files => i < j
    BY <1>6, <1>9, <1>10, <1>11
  <2> QED
    BY <2>1 DEF Tree!RowsComplete, rows, files, dirs

(* For all paths, threads and pull requests, over reloads, polls, clicks    *)
(* and unmounting of the tree: FilesShown. The tree has a row for each      *)
(* changed file and for the selected one, and the thread's panel opens for  *)
(* news only.                                                               *)
THEOREM FilesAlwaysShown == Spec => []FilesShown
<1> DEFINE IT == focus = "tree" => Tree!Inv
           IG == focus = "git" => Git!Inv
<1>1. Init => IT /\ IG
  BY TreeInit, GitInit DEF Init
<1>2. IT /\ IG /\ [Next]_vars => IT' /\ IG'
  BY OnePart, TreeStep, GitStep
<1>3. IT => (focus = "tree" => Tree!SelectionRevealed /\ Tree!RowsComplete)
  BY RevealedHasRow, RowsAllShown DEF Tree!Inv
<1>4. IG => (focus = "git" => Git!OpensForNews /\ Git!TreePathsDistinct)
  BY TreeNamesEachFile DEF Git!Inv
<1>5. IT /\ IG => FilesShown
  <2> HIDE DEF IT, IG
  <2> QED
    BY <1>3, <1>4 DEF FilesShown
<1> QED
  BY <1>1, <1>2, <1>5, PTL DEF Spec

=============================================================================
