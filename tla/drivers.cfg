SPECIFICATION Spec
CONSTANTS
  Procs = {p1}
  Specs <- MCSpecs
  NameOf <- MCNameOf
  TypeOf <- MCTypeOf
  Requires <- MCRequires
  Updatable <- MCUpdatable
  Found <- MCFound
  MaxCalls = 4
  Focus <- MCFocus
  Killable <- MCKillable
  Misread <- MCMisread
INVARIANTS TypeOK ProvisionedIsPresent LiveIsRecorded
PROPERTIES ImplementsDeployments CredentialsKept
CHECK_DEADLOCK FALSE
