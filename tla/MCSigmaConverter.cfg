SPECIFICATION Spec
CONSTANTS
    r1 = r1
    Rules = {r1}
    BrowserRules = {}
    s1 = s1
    Ids = {s1}
    None = None
    Paths = {1, 2}
    Dashboards = {2}
    MaxRuns = 2
PROPERTIES WidgetsKeepTheirQuery
CHECK_DEADLOCK FALSE
