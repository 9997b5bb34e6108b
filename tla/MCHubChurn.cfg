\* Clients that come and go while another's send is suspended.
SPECIFICATION Spec
CONSTANTS
  Clients = {c1, c2}
  MaxLag = 1
  WatchdogSec = 3
  PetInterval = 1
INVARIANT ChurnIsHarmless
