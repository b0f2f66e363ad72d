------------------------------ MODULE MCSite ------------------------------
(***************************************************************************)
(* The parts of the site that share no state, checked in one run: a        *)
(* behaviour is one of the part that it runs, the others being at rest.    *)
(* No property relates two parts, and no part reads the state of another,  *)
(* so that their interleavings show nothing that one alone does not.       *)
(***************************************************************************)
EXTENDS ScopedPermissions, AccountAccess, IamGovernance, HomeFeedSections, LiveUpdates,
        MediaStore, HomepageLayout, EmployeeDesk, ReaderDesk, SearchCache, RateLimiter,
        SchemaMigrations, TLC

\* The values of this instance.
CONSTANTS t1, t2, t3, k1, k2
MCTitleLength == (t1 :> 1) @@ (t2 :> 1) @@ (t3 :> 2)
MCStoryRow ==
  {[live |-> TRUE, hindi |-> TRUE, title |-> t1, beat |-> "breaking"],
   [live |-> TRUE, hindi |-> FALSE, title |-> t2, beat |-> "crime"],
   [live |-> TRUE, hindi |-> TRUE, title |-> t3, beat |-> "videos"],
   [live |-> FALSE, hindi |-> TRUE, title |-> t3, beat |-> "crime"]}
MCColumnSettings == << <<>>, <<"crime">> >>
MCDefaultKeys == <<k1, k2>>

VARIABLE part \* the part that runs

Part == {"permissions", "account", "governance", "sections", "live", "media", "layout",
         "employees", "readers", "broadcasts", "search", "limits",
         "migrations"}
vars == <<scopedVars, accountVars, governanceVars, sectionVars, liveVars, mediaVars, layoutVars,
          deskVars, readerDeskVars, searchVars, rateVars, migrationVars, part>>

\* A part that does not run is in one of its initial states.
SiteInit ==
  /\ part \in Part
  /\ ScopedInit /\ (part = "permissions" \/ (permissions = {"own"} /\ ~superUser))
  /\ AccountInit /\ (part = "account" \/ (account = "none" /\ override = "none" /\ menuRow))
  /\ GovernanceInit /\ (part = "governance" \/ scopeRows = {})
  /\ IF part = "sections" THEN SectionsInit
     ELSE SectionsInit /\ \A s, t \in Story : story[s] = story[t] /\ story[s].title = t1
  /\ LiveInit /\ (part = "live" \/ breaking = {})
  /\ MediaInit
  /\ LayoutInit /\ (part = "layout" \/ \A k \in Keys : layout[k] = 0)
  /\ DeskInit /\ (part = "employees" \/ \A p \in Person : userID[p] = 0)
  /\ ReaderInit
  /\ SearchInit /\ (part = "search" \/ public = {})
  /\ RateInit
  /\ MigrationInit /\ (part = "migrations" \/ schema = {})

PermissionsRun ==
  /\ part = "permissions" /\ ScopedNext
  /\ UNCHANGED <<part, accountVars, governanceVars, sectionVars, liveVars, mediaVars,
                 layoutVars, deskVars, askVars, castVars, searchVars, rateVars, migrationVars>>
AccountRun ==
  /\ part = "account" /\ AccountNext
  /\ UNCHANGED <<part, scopedVars, governanceVars, sectionVars, liveVars, mediaVars,
                 layoutVars, deskVars, askVars, castVars, searchVars, rateVars, migrationVars>>
GovernanceRun ==
  /\ part = "governance" /\ GovernanceNext
  /\ UNCHANGED <<part, scopedVars, accountVars, sectionVars, liveVars, mediaVars, layoutVars,
                 deskVars, askVars, castVars, searchVars, rateVars, migrationVars>>
SectionsRun ==
  /\ part = "sections" /\ SectionsNext
  /\ UNCHANGED <<part, scopedVars, accountVars, governanceVars, liveVars, mediaVars,
                 layoutVars, deskVars, askVars, castVars, searchVars, rateVars, migrationVars>>
LiveRun ==
  /\ part = "live" /\ LiveNext
  /\ UNCHANGED <<part, scopedVars, accountVars, governanceVars, sectionVars, mediaVars,
                 layoutVars, deskVars, askVars, castVars, searchVars, rateVars, migrationVars>>
MediaRun ==
  /\ part = "media" /\ MediaNext
  /\ UNCHANGED <<part, scopedVars, accountVars, governanceVars, sectionVars, liveVars,
                 layoutVars, deskVars, askVars, castVars, searchVars, rateVars, migrationVars>>
LayoutRun ==
  /\ part = "layout" /\ LayoutNext
  /\ UNCHANGED <<part, scopedVars, accountVars, governanceVars, sectionVars, liveVars,
                 mediaVars, deskVars, askVars, castVars, searchVars, rateVars, migrationVars>>
EmployeesRun ==
  /\ part = "employees" /\ DeskNext
  /\ UNCHANGED <<part, scopedVars, accountVars, governanceVars, sectionVars, liveVars,
                 mediaVars, layoutVars, askVars, castVars, searchVars, rateVars, migrationVars>>
ReadersRun ==
  /\ part = "readers" /\ AskNext
  /\ UNCHANGED <<part, scopedVars, accountVars, governanceVars, sectionVars, liveVars,
                 mediaVars, layoutVars, deskVars, castVars, searchVars, rateVars, migrationVars>>
BroadcastsRun ==
  /\ part = "broadcasts" /\ CastNext
  /\ UNCHANGED <<part, scopedVars, accountVars, governanceVars, sectionVars, liveVars,
                 mediaVars, layoutVars, deskVars, askVars, searchVars, rateVars, migrationVars>>
SearchRun ==
  /\ part = "search" /\ SearchNext
  /\ UNCHANGED <<part, scopedVars, accountVars, governanceVars, sectionVars, liveVars,
                 mediaVars, layoutVars, deskVars, readerDeskVars, rateVars, migrationVars>>
LimitsRun ==
  /\ part = "limits" /\ RateNext
  /\ UNCHANGED <<part, scopedVars, accountVars, governanceVars, sectionVars, liveVars,
                 mediaVars, layoutVars, deskVars, readerDeskVars, searchVars, migrationVars>>
MigrationsRun ==
  /\ part = "migrations" /\ MigrationNext
  /\ UNCHANGED <<part, scopedVars, accountVars, governanceVars, sectionVars, liveVars,
                 mediaVars, layoutVars, deskVars, readerDeskVars, searchVars, rateVars>>

SiteNext ==
  \/ PermissionsRun \/ AccountRun \/ GovernanceRun \/ SectionsRun
  \/ LiveRun \/ MediaRun \/ LayoutRun \/ EmployeesRun \/ ReadersRun
  \/ BroadcastsRun \/ SearchRun \/ LimitsRun \/ MigrationsRun
SiteSpec == SiteInit /\ [][SiteNext]_vars
=============================================================================
