SPECIFICATION FairSpec
CONSTANTS
    Renders = {r1, r2, r3}
    Browsers = {b1, b2, b3}
    NoBrowser = NoBrowser
    NoRender = NoRender
    Permits = 2
    Threshold = 3
INVARIANTS BrowsersBounded BreakerOpens
PROPERTY DeadBrowserGoes
