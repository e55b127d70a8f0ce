SPECIFICATION FairSpec
CONSTANTS
    verify = verify  host = host  password = password  i1 = i1  i2 = i2
    empty = empty  on = on  Nobody = Nobody  Unset = Unset  Lost = Lost
    Keys = {verify, host, password}
    Verify = verify
    Smtp = {host}
    Secrets = {password}
    Values = {empty, on}
    Empty = empty
    Envs <- BothEnvs
    Writers = {i1, i2}
    Changes <- SmallChanges
    CommitMayLie = TRUE
INVARIANTS IInv RunningIsStored AlwaysSendable ArmedFollows
PROPERTIES EveryCallReturns
