\* Six locators of rounds 9 and 10, any sequence of calls, a crash or an error of
\* the file system; at most five files at once.
SPECIFICATION Spec
CONSTANTS
    Locators <- SomeLocators
    MaxFaults = 1
CONSTRAINT FewFiles
INVARIANT StoreAgrees
INVARIANT FailureStaysLocal
INVARIANT FoundAgain
