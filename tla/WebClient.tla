----------------------------- MODULE WebClient ------------------------------
(***************************************************************************)
(* The page of a module (ModulePage) and the two of its tabs that have a   *)
(* state of their own, UsageBuilder and SettingsForm.  These work on what  *)
(* they were rendered with and share nothing with the rest of the page, so *)
(* that each behaviour is about one of the three and the others rest.      *)
(***************************************************************************)
EXTENDS ModulePage, UsageBuilder, SettingsForm

VARIABLE looked  \* the part a behaviour is about

webVars == <<looked, pageVars, usageVars, settingsVars>>

\* Of what a behaviour is not about, one initial state is enough.
WebInit ==
    /\ looked \in {"page", "usage", "settings"}
    /\ Init /\ UsageInit /\ SettingsInit
    /\ looked # "page" => site = CHOOSE s \in Site : TRUE
    /\ looked # "usage" => row = CHOOSE r \in Variables : TRUE
    /\ looked # "settings" => custom /\ saved.git = Null

WebNext ==
    /\ UNCHANGED looked
    /\ \/ looked = "page" /\ Next /\ UNCHANGED <<usageVars, settingsVars>>
       \/ looked = "usage" /\ UsageNext /\ UNCHANGED <<pageVars, settingsVars>>
       \/ looked = "settings" /\ SettingsNext /\ UNCHANGED <<pageVars, usageVars>>

\* The fairness of ModulePage, where the page is looked at.
WebFairness == WF_pageVars(looked = "page" /\ Answered)

WebSpec == WebInit /\ [][WebNext]_webVars /\ WebFairness

-----------------------------------------------------------------------------
\* The types of all three parts.
TypesOK == TypeOK /\ UsageTypeOK /\ SettingsTypeOK

\* A page whose requests succeed shows a tab in the end (TabFactory).
PageShowsATab == looked = "page" => PageGetsATab
=============================================================================
