SPECIFICATION Spec
CONSTANTS
  SIGUSR1 = SIGUSR1
  SIGUSR2 = SIGUSR2
  SIGALRM = SIGALRM
  Signal = {SIGUSR1, SIGUSR2, SIGALRM}
  User = User
  MaxNest = 3
SYMMETRY Interchangeable
INVARIANTS TypeOK UserSectionAtomic RunsAsItself NothingStaysBlocked
