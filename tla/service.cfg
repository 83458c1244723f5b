SPECIFICATION Spec
CONSTANTS
    Nobody = Nobody
    Person = {e, r}
    Editors = {e}
    Staff = {}
    Svc = {ai}
    AI = ai
    App = {app}
    OnBehalfOf <- MCOnBehalfOf
    Caps <- MCCaps
    Credential = {e, ai, app}
    Served = {"revisions", "retract", "reviews", "comments"}
    MinuteLimit <- Once
    HourLimit <- Once
    Minutes = 2
    RunsAnHour = 2
    Slot = {s1}
INVARIANTS RightfulWork PaceHeld BriefRunsHeld ReadersServed
