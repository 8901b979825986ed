CONSTANTS
  Tabs = {"tab1", "tab2"}
  Keys = {"k1", "k2"}
  MaxReloads = 1
SPECIFICATION Spec
INVARIANTS TypeOK RightCredential CommitmentIsTrue SubmitsOnce NothingSubmittedIsTrue
           SpendableUnlessReplaced
PROPERTIES CommitmentStays AwaitsEnd
CHECK_DEADLOCK FALSE
