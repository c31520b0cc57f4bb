------------------------------- MODULE MCClient -------------------------------
(***************************************************************************)
(* The parts of the browser's application, each followed on its own: a     *)
(* behaviour chooses one of them at the start, and the others stay where   *)
(* they begin.                                                             *)
(***************************************************************************)
EXTENDS ClientSession, PageCache, VersionCenter, DreamEditor, WorklogForm, CalendarPage,
        Navigation, ClientConversions, CommunicationTools

CONSTANT ClientParts  \* the parts that a run follows

\* One type's name is part of every other.
MCAlike ==
    LET short == CHOOSE t \in TypeNames : TRUE
    IN [t \in TypeNames |-> IF t = short THEN TypeNames ELSE {t}]

MCZones ==
    {[before |-> 16, after |-> 16, at |-> 0],
     [before |-> -10, after |-> -8, at |-> 19790 * 48 + 14],
     [before |-> 21, after |-> 22, at |-> 19800 * 48 + 31],
     [before |-> -8, after |-> -10, at |-> 19795 * 48 + 12],
     [before |-> 26, after |-> 24, at |-> 19815 * 48 + 28],
     [before |-> -8, after |-> -6, at |-> 19974 * 48 + 8],
     [before |-> 6, after |-> 4, at |-> 19870 * 48 - 4]}

VARIABLE part

clientVars ==
    <<sessionVars, pageVars, versionVars, dreamVars, worklogVars, calendarVars, navigationVars,
      conversionVars, communicationVars>>

\* What a part that is not followed might begin with is fixed.
Fixed ==
    /\ part # "session" => at = "app" /\ jar = NoSession
    /\ part # "pages" => watched = "goals"
    /\ part # "version" => task = 0
    /\ part # "calendar" => linkedEvent = NoLink
    /\ part # "communication" => tab = "friends"
    /\ tab = "friends" => types = TypeNames

ClientInit ==
    /\ part \in ClientParts
    /\ SessionInit /\ PageInit /\ VersionInit /\ DreamInit /\ WorklogInit /\ CalendarInit
    /\ NavigationInit /\ ConversionInit /\ CommunicationInit
    /\ Fixed

SessionStep ==
    /\ part = "session"
    /\ UNCHANGED <<part, pageVars, versionVars, dreamVars, worklogVars, calendarVars,
                   navigationVars, conversionVars, communicationVars>>
    /\ SessionNext

PageStep ==
    /\ part = "pages"
    /\ UNCHANGED <<part, sessionVars, versionVars, dreamVars, worklogVars, calendarVars,
                   navigationVars, conversionVars, communicationVars>>
    /\ PageNext

VersionStep ==
    /\ part = "version"
    /\ UNCHANGED <<part, sessionVars, pageVars, dreamVars, worklogVars, calendarVars,
                   navigationVars, conversionVars, communicationVars>>
    /\ VersionNext

DreamStep ==
    /\ part = "dreams"
    /\ UNCHANGED <<part, sessionVars, pageVars, versionVars, worklogVars, calendarVars,
                   navigationVars, conversionVars, communicationVars>>
    /\ DreamNext

WorklogStep ==
    /\ part = "worklog"
    /\ UNCHANGED <<part, sessionVars, pageVars, versionVars, dreamVars, calendarVars,
                   navigationVars, conversionVars, communicationVars>>
    /\ WorklogNext

CalendarStep ==
    /\ part = "calendar"
    /\ UNCHANGED <<part, sessionVars, pageVars, versionVars, dreamVars, worklogVars,
                   navigationVars, conversionVars, communicationVars>>
    /\ CalendarNext

NavigationStep ==
    /\ part = "navigation"
    /\ UNCHANGED <<part, sessionVars, pageVars, versionVars, dreamVars, worklogVars,
                   calendarVars, conversionVars, communicationVars>>
    /\ NavigationNext

ConversionStep ==
    /\ part = "conversions"
    /\ UNCHANGED <<part, sessionVars, pageVars, versionVars, dreamVars, worklogVars,
                   calendarVars, navigationVars, communicationVars>>
    /\ ConversionNext

CommunicationStep ==
    /\ part = "communication"
    /\ UNCHANGED <<part, sessionVars, pageVars, versionVars, dreamVars, worklogVars,
                   calendarVars, navigationVars, conversionVars>>
    /\ CommunicationNext

ClientNext ==
    \/ SessionStep \/ PageStep \/ VersionStep \/ DreamStep \/ WorklogStep
    \/ CalendarStep \/ NavigationStep \/ ConversionStep \/ CommunicationStep

ClientSpec == ClientInit /\ [][ClientNext]_<<part, clientVars>>

\* States in which a part is not followed any further, of which no property
\* says anything.
Abandoned ==
    \/ part = "session" /\ unsure
    \/ part = "dreams" /\ dreamDisturbed
    \/ part = "communication" /\ (apart \/ lost)

\* What tells two states apart: the part that is followed; the others never
\* change from the one state in which they begin.  Once a load of one account has
\* been read for another, what is cached decides about no step that follows, and
\* one of the caches stands for all.
Followed ==
    IF Abandoned THEN <<part>>
    ELSE CASE part = "session" /\ crossed -> <<part, me, loads, op, at, from, jar>>
           [] part = "session" /\ ~crossed -> <<part, sessionVars>>
           [] part = "pages" -> <<part, pageVars>>
           [] part = "version" -> <<part, versionVars>>
           [] part = "dreams" -> <<part, dreamVars>>
           [] part = "worklog" -> <<part, worklogVars>>
           [] part = "calendar" -> <<part, calendarVars>>
           [] part = "navigation" -> <<part, navigationVars>>
           [] part = "conversions" -> <<part, conversionVars>>
           [] part = "communication" -> <<part, communicationVars>>
=============================================================================
