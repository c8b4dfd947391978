SPECIFICATION Spec
CONSTANTS
  Calls = {c1, c2}
  Tools = {gmail}
  Gmail = gmail
  Reaped = {gmail}
  Nonces = {n1}
  None = None
  MaxFailures = 0
  MaxRestarts = 0
PROPERTY DisconnectSticks
