SPECIFICATION Spec
CONSTANTS
  o1 = o1
  o2 = o2
  o3 = o3
  acc1 = acc1
  acc2 = acc2
  Orders <- MCOrders
  Accounts = {acc1, acc2}
  AccountOf <- MCAccountOf
  Subtotal <- MCSubtotal
  DeliveryFee <- MCDeliveryFee
  ServiceFee <- MCServiceFee
  Cod = {o1}
  BpsValues = {0, 5000}
  ShareBps = 8000
  Keys = {k1}
  Amounts = {1, 2}
  MaxInt = 4
  Deliveries = {d1, d2}
  NoOrder = NoOrder
  NoRow = NoRow
INVARIANT AlwaysAuditable
CHECK_DEADLOCK FALSE
